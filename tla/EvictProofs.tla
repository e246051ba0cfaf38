---------------------------- MODULE EvictProofs ----------------------------
(***************************************************************************)
(* The EVICT receiver hands over once what its decoder puts out, whichever *)
(* way its hold releases it, for any number of symbols, bounds and copies. *)
(***************************************************************************)
EXTENDS EvictReceiver, DataLemmas, SequenceTheorems

Buffers == [pending : Seq(Nat), next : Nat]

(***************************************************************************)
(* An operation on the hold that was entrusted with the seqs P: each is    *)
(* held still or handed over, once.                                        *)
(***************************************************************************)
Moves(P, r) ==
    /\ r.rb \in Buffers
    /\ OneToOne(r.rb.pending)
    /\ r.out \in Seq(Nat)
    /\ OneToOne(r.out)
    /\ ToSet(r.out) \cap ToSet(r.rb.pending) = {}
    /\ ToSet(r.out) \cup ToSet(r.rb.pending) = P

(* What is pending is a finite set of naturals.                            *)
LEMMA PendingFinite ==
    ASSUME NEW seq \in Seq(Nat)
    PROVE  /\ ToSet(seq) \in SUBSET Nat
           /\ \A S \in SUBSET ToSet(seq) : IsFiniteSet(S) /\ S \in SUBSET Int
<1>1. DOMAIN seq = 1 .. Len(seq) /\ Len(seq) \in Nat
  OBVIOUS
<1>2. ToSet(seq) \in SUBSET Nat
  BY <1>1 DEF ToSet
<1>3. seq \in Surjection(DOMAIN seq, ToSet(seq))
  BY <1>1 DEF ToSet, Surjection
<1>4. IsFiniteSet(DOMAIN seq)
  BY <1>1, FS_Interval
<1>5. IsFiniteSet(ToSet(seq))
  BY <1>3, <1>4, FS_Surjection
<1>. QED  BY <1>2, <1>5, FS_Subset

(* Max is the greatest member.                                             *)
LEMMA MaxMember ==
    ASSUME NEW S \in SUBSET Int, IsFiniteSet(S), S # {}
    PROVE  Max(S) \in S /\ \A s \in S : s <= Max(S)
<1>1. PICK m \in S : \A s \in S : s <= m
  BY FiniteGreatest
<1>2. \A s \in S : m >= s
  BY <1>1
<1>3. Max(S) \in S /\ \A s \in S : Max(S) >= s
  BY <1>2 DEF Max
<1>. QED  BY <1>3

(* The larger of two naturals.                                             *)
LEMMA MaxOfTwo ==
    ASSUME NEW a \in Nat, NEW b \in Nat
    PROVE  Max({a, b}) \in {a, b} /\ Max({a, b}) >= a /\ Max({a, b}) >= b
<1>1. {a, b} \in SUBSET Int /\ IsFiniteSet({a, b}) /\ {a, b} # {}
  <2>1. IsFiniteSet({a} \cup {b})
    BY FS_Singleton, FS_AddElement
  <2>2. {a} \cup {b} = {a, b}
    OBVIOUS
  <2>. QED  BY <2>1, <2>2
<1>. QED  BY <1>1, MaxMember

(***************************************************************************)
(* drain_contiguous hands on the run it finds after what is gone already.  *)
(***************************************************************************)
LEMMA DrainMoves ==
    ASSUME NEW rb \in Buffers, OneToOne(rb.pending),
           NEW gone \in Seq(Nat), OneToOne(gone), ToSet(gone) \cap ToSet(rb.pending) = {}
    PROVE  Moves(ToSet(gone) \cup ToSet(rb.pending), drain_contiguous(rb, gone))
<1> DEFINE P == ToSet(rb.pending)
           run == {s \in P : s >= rb.next /\ rb.next .. s \subseteq P}
           stay == P \ run
           next == IF run = {} THEN rb.next ELSE Max(run) + 1
           kept == Kept(rb.pending, stay)
           out == gone \o Ascending(run)
           r == drain_contiguous(rb, gone)
<1>1. r.rb = [pending |-> kept, next |-> next] /\ r.out = out
  BY DEF drain_contiguous, Released
<1>2. rb.pending \in Seq(Nat) /\ rb.next \in Nat
  BY DEF Buffers
<1>3. P \in SUBSET Nat /\ IsFiniteSet(run) /\ run \in SUBSET Int
  BY <1>2, PendingFinite
<1>4. run \in SUBSET P /\ stay \in SUBSET P /\ run \cup stay = P /\ run \cap stay = {}
  OBVIOUS
<1>. HIDE DEF run, stay
<1>5. next \in Nat
  <2>1. run # {} => Max(run) \in run
    BY <1>3, MaxMember
  <2>. QED  BY <1>2, <1>3, <1>4, <2>1
<1>6. kept \in Seq(Nat) /\ OneToOne(kept) /\ ToSet(kept) = stay
  <2>1. /\ kept \in Seq(Nat) /\ ToSet(kept) = P \cap stay
        /\ OneToOne(rb.pending) => OneToOne(kept)
    BY <1>2, KeptSet
  <2>. QED  BY <1>4, <2>1
<1>7. /\ Ascending(run) \in Seq(Nat) /\ OneToOne(Ascending(run))
      /\ ToSet(Ascending(run)) = run
  <2>1. Ascending(run) \in Seq(run) /\ OneToOne(Ascending(run)) /\ ToSet(Ascending(run)) = run
    BY <1>3, AscendingSeq
  <2>2. run \in SUBSET Nat
    BY <1>3, <1>4
  <2>. QED  BY <2>1, <2>2, SeqMonotonic
<1>8. out \in Seq(Nat) /\ OneToOne(out) /\ ToSet(out) = ToSet(gone) \cup run
  <2>1. ToSet(gone) \cap ToSet(Ascending(run)) = {}
    BY <1>4, <1>7
  <2>. QED  BY <1>7, <2>1, JoinedSets
<1>. HIDE DEF next, kept, out, P, r
<1>9. r.rb \in Buffers /\ r.rb.pending = kept
  BY <1>1, <1>5, <1>6 DEF Buffers
<1>10. ToSet(out) \cap stay = {} /\ ToSet(out) \cup stay = ToSet(gone) \cup P
  BY <1>4, <1>8 DEF P
<1>. QED  BY <1>1, <1>6, <1>8, <1>9, <1>10 DEF Moves, P, r

(***************************************************************************)
(* release_through hands on what is pending up to the seqs given up, then  *)
(* the run.                                                                *)
(***************************************************************************)
LEMMA ReleaseMoves ==
    ASSUME NEW rb \in Buffers, OneToOne(rb.pending),
           NEW S \in SUBSET ToSet(rb.pending), S # {}
    PROVE  Moves(ToSet(rb.pending), release_through(rb, S))
<1> DEFINE P == ToSet(rb.pending)
           k == Max(S)
           up == {s \in P : s <= k}
           low == P \ up
           kept == Kept(rb.pending, low)
           next == Max({rb.next, k + 1})
           rest == [pending |-> kept, next |-> next]
<1>1. release_through(rb, S) = drain_contiguous(rest, Ascending(up))
  BY DEF release_through
<1>2. rb.pending \in Seq(Nat) /\ rb.next \in Nat
  BY DEF Buffers
<1>3. P \in SUBSET Nat /\ IsFiniteSet(S) /\ S \in SUBSET Int /\ IsFiniteSet(up) /\ up \in SUBSET Int
  BY <1>2, PendingFinite
<1>4. k \in Nat
  <2>1. k \in S
    BY <1>3, MaxMember
  <2>. QED  BY <1>3, <2>1
<1>5. up \in SUBSET P /\ low \in SUBSET P /\ up \cup low = P /\ up \cap low = {}
  OBVIOUS
<1>. HIDE DEF k, up, low
<1>6. next \in Nat
  BY <1>2, <1>4, MaxOfTwo
<1>7. kept \in Seq(Nat) /\ OneToOne(kept) /\ ToSet(kept) = low
  <2>1. /\ kept \in Seq(Nat) /\ ToSet(kept) = P \cap low
        /\ OneToOne(rb.pending) => OneToOne(kept)
    BY <1>2, KeptSet
  <2>. QED  BY <1>5, <2>1
<1>8. /\ Ascending(up) \in Seq(Nat) /\ OneToOne(Ascending(up)) /\ ToSet(Ascending(up)) = up
  <2>1. Ascending(up) \in Seq(up) /\ OneToOne(Ascending(up)) /\ ToSet(Ascending(up)) = up
    BY <1>3, AscendingSeq
  <2>2. up \in SUBSET Nat
    BY <1>3, <1>5
  <2>. QED  BY <2>1, <2>2, SeqMonotonic
<1>. HIDE DEF P, kept, next
<1>9. rest \in Buffers /\ rest.pending = kept
  BY <1>6, <1>7 DEF Buffers
<1>. HIDE DEF rest
<1>10. Moves(ToSet(Ascending(up)) \cup ToSet(rest.pending), drain_contiguous(rest, Ascending(up)))
  BY <1>5, <1>7, <1>8, <1>9, DrainMoves
<1>11. ToSet(Ascending(up)) \cup ToSet(rest.pending) = P
  BY <1>5, <1>7, <1>8, <1>9
<1>. QED  BY <1>1, <1>10, <1>11 DEF P

(* An enumeration of nothing twice is as long as what it names.            *)
LEMMA OneToOneCount ==
    ASSUME NEW seq \in Seq(Nat), OneToOne(seq)
    PROVE  Cardinality(ToSet(seq)) = Len(seq)
<1>1. DOMAIN seq = 1 .. Len(seq) /\ Len(seq) \in Nat
  OBVIOUS
<1>2. seq \in Bijection(1 .. Len(seq), ToSet(seq))
  BY <1>1 DEF ToSet, Bijection, Surjection, Injection, IsInjective, OneToOne
<1>3. IsFiniteSet(1 .. Len(seq)) /\ Cardinality(1 .. Len(seq)) = Len(seq)
  <2>1. \A n \in Nat : IsFiniteSet(1 .. n) /\ Cardinality(1 .. n) = n
    BY FS_Interval
  <2>. QED  BY <1>1, <2>1, Zenon
<1>. QED  BY <1>2, <1>3, FS_Bijection DEF ExistsBijection

(***************************************************************************)
(* A hold over its capacity gives up something.                            *)
(***************************************************************************)
LEMMA ForcedReleases ==
    ASSUME NEW rb \in Buffers, OneToOne(rb.pending), Len(rb.pending) > MaxBuffered
    PROVE  \E S \in SUBSET ToSet(rb.pending) :
              S # {} /\ force_drain_oldest(rb) = release_through(rb, S)
<1> DEFINE P == ToSet(rb.pending)
           excess == Len(rb.pending) - MaxBuffered \div 2
           lowest == {s \in P : Cardinality({q \in P : q <= s}) <= excess}
<1>1. rb.pending \in Seq(Nat) /\ Len(rb.pending) \in Nat
  BY DEF Buffers
<1>2. 1 <= excess
  <2>1. MaxBuffered \div 2 \in Int /\ MaxBuffered \div 2 <= MaxBuffered
    BY ReorderAssumption
  <2>. QED  BY <1>1, <2>1, ReorderAssumption
<1>3. P \in SUBSET Int /\ IsFiniteSet(P) /\ Cardinality(P) = Len(rb.pending)
  BY <1>1, PendingFinite, OneToOneCount
<1>4. 1 \in 1 .. Cardinality(P)
  BY <1>1, <1>3, ReorderAssumption
<1>. HIDE DEF P, excess
<1>5. Ascending(P)[1] \in P /\ Rank(P, Ascending(P)[1]) = 1
  BY <1>3, <1>4, AscendingEnumerates
<1>6. Ascending(P)[1] \in lowest
  BY <1>2, <1>5 DEF Rank
<1>7. lowest \in SUBSET P /\ lowest # {}
  BY <1>6
<1>8. force_drain_oldest(rb) = release_through(rb, lowest)
  BY DEF force_drain_oldest, P, excess
<1>. HIDE DEF lowest
<1>. QED  BY <1>7, <1>8 DEF P

(***************************************************************************)
(* push holds or hands on the new seq among the others.                    *)
(***************************************************************************)
LEMMA PushMoves ==
    ASSUME NEW rb \in Buffers, OneToOne(rb.pending),
           NEW seq \in Nat, seq \notin ToSet(rb.pending)
    PROVE  Moves(ToSet(rb.pending) \cup {seq}, push(rb, seq))
<1> DEFINE held == [rb EXCEPT !.pending = Append(@, seq)]
           one == <<seq>>
<1>1. rb.pending \in Seq(Nat) /\ rb.next \in Nat
  BY DEF Buffers
<1>2. one \in Seq(Nat) /\ ToSet(one) = {seq} /\ OneToOne(one)
  BY DEF ToSet, OneToOne
<1>3. CASE seq < rb.next
  <2>1. push(rb, seq) = [rb |-> rb, out |-> one]
    BY <1>3 DEF push, Released
  <2>. HIDE DEF one
  <2>. QED  BY <1>1, <1>2, <2>1 DEF Moves, Buffers
<1>4. CASE ~(seq < rb.next)
  <2>1. held \in Buffers /\ held.pending = rb.pending \o one
    <3>1. Append(rb.pending, seq) = rb.pending \o one /\ Append(rb.pending, seq) \in Seq(Nat)
      BY <1>1, AppendIsConcat, AppendProperties
    <3>2. \A p \in Seq(Nat) : [rb EXCEPT !.pending = p] \in Buffers
                                /\ [rb EXCEPT !.pending = p].pending = p
      BY DEF Buffers
    <3>3. held = [rb EXCEPT !.pending = Append(rb.pending, seq)]
      OBVIOUS
    <3>. QED  BY <3>1, <3>2, <3>3
  <2>. HIDE DEF one, held
  <2>2. /\ OneToOne(held.pending) /\ ToSet(held.pending) = ToSet(rb.pending) \cup {seq}
    <3>1. ToSet(rb.pending) \cap ToSet(one) = {}
      BY <1>2
    <3>2. /\ ToSet(rb.pending \o one) = ToSet(rb.pending) \cup ToSet(one)
          /\ OneToOne(rb.pending \o one)
      BY <1>1, <1>2, <3>1, JoinedSets
    <3>. QED  BY <1>2, <2>1, <3>2
  <2>3. CASE Len(held.pending) > MaxBuffered
    <3>1. push(rb, seq) = force_drain_oldest(held)
      BY <1>4, <2>3 DEF push, held
    <3>2. PICK S \in SUBSET ToSet(held.pending) :
             S # {} /\ force_drain_oldest(held) = release_through(held, S)
      BY <2>1, <2>2, <2>3, ForcedReleases
    <3>3. Moves(ToSet(held.pending), release_through(held, S))
      BY <2>1, <2>2, <3>2, ReleaseMoves
    <3>. QED  BY <2>2, <3>1, <3>2, <3>3
  <2>4. CASE ~(Len(held.pending) > MaxBuffered)
    <3>1. push(rb, seq) = drain_contiguous(held, <<>>)
      BY <1>4, <2>4 DEF push, held
    <3>2. <<>> \in Seq(Nat) /\ OneToOne(<<>>) /\ ToSet(<<>>) = {}
      BY DEF OneToOne, ToSet
    <3>3. Moves({} \cup ToSet(held.pending), drain_contiguous(held, <<>>))
      BY <2>1, <2>2, <3>2, DrainMoves
    <3>. QED  BY <2>2, <3>1, <3>3
  <2>. QED  BY <2>3, <2>4
<1>. QED  BY <1>3, <1>4

(***************************************************************************)
(* drain_expired hands on the entries buffered first, and what they free.  *)
(***************************************************************************)
LEMMA ExpiryReleases ==
    ASSUME NEW rb \in Buffers, NEW j \in 0 .. Len(rb.pending), j # 0
    PROVE  \E S \in SUBSET ToSet(rb.pending) :
              S # {} /\ drain_expired(rb, j) = release_through(rb, S)
<1> DEFINE first == SubSeq(rb.pending, 1, j)
<1>1. rb.pending \in Seq(Nat) /\ Len(rb.pending) \in Nat
  BY DEF Buffers
<1>2. drain_expired(rb, j) = release_through(rb, ToSet(first))
  BY DEF drain_expired
<1>3. /\ j \in 1 .. Len(rb.pending) /\ Len(first) = j /\ first \in Seq(Nat)
      /\ \A i \in 1 .. j : first[i] = rb.pending[i]
  BY <1>1
<1>. HIDE DEF first
<1>4. ToSet(first) \in SUBSET ToSet(rb.pending) /\ ToSet(first) # {}
  <2>1. DOMAIN first = 1 .. j /\ DOMAIN rb.pending = 1 .. Len(rb.pending)
    BY <1>1, <1>3
  <2>2. \A i \in 1 .. j : i \in 1 .. Len(rb.pending)
    BY <1>1, <1>3
  <2>3. 1 \in 1 .. j
    BY <1>1, <1>3
  <2>. QED  BY <1>3, <2>1, <2>2, <2>3 DEF ToSet
<1>. QED  BY <1>2, <1>4

(* None of it is lost.                                                     *)
LEMMA ExpiryMoves ==
    ASSUME NEW rb \in Buffers, OneToOne(rb.pending), NEW j \in 0 .. Len(rb.pending)
    PROVE  Moves(ToSet(rb.pending), drain_expired(rb, j))
<1>1. rb.pending \in Seq(Nat) /\ Len(rb.pending) \in Nat
  BY DEF Buffers
<1>2. CASE j = 0
  <2>1. drain_expired(rb, j) = [rb |-> rb, out |-> <<>>]
    BY <1>2 DEF drain_expired, Released
  <2>2. <<>> \in Seq(Nat) /\ OneToOne(<<>>) /\ ToSet(<<>>) = {}
    BY DEF OneToOne, ToSet
  <2>. QED  BY <2>1, <2>2 DEF Moves
<1>3. CASE j # 0
  <2>1. PICK S \in SUBSET ToSet(rb.pending) :
           S # {} /\ drain_expired(rb, j) = release_through(rb, S)
    BY <1>3, ExpiryReleases
  <2>. QED  BY <2>1, ReleaseMoves
<1>. QED  BY <1>2, <1>3

-----------------------------------------------------------------------------
(***************************************************************************)
(* What is handed over from the frontier n on ascends, and takes the       *)
(* frontier past its last seq.                                             *)
(***************************************************************************)
Climb(n, out) ==
    /\ out \in Seq(Nat)
    /\ \A i \in 1 .. Len(out) : n <= out[i]
    /\ \A i, k \in 1 .. Len(out) : i < k => out[i] < out[k]

Ends(n, out) == IF out = <<>> THEN n ELSE out[Len(out)] + 1

Rises(n, r) ==
    /\ Climb(n, r.out)
    /\ r.rb.next = Ends(n, r.out)
    /\ \A s \in ToSet(r.rb.pending) : s >= r.rb.next

(* No seq handed over is beyond the frontier it leads to.                  *)
LEMMA ClimbEnds ==
    ASSUME NEW n \in Nat, NEW out, Climb(n, out)
    PROVE  /\ Ends(n, out) \in Nat /\ n <= Ends(n, out)
           /\ \A i \in 1 .. Len(out) : out[i] < Ends(n, out)
<1>1. /\ out \in Seq(Nat) /\ \A i \in 1 .. Len(out) : n <= out[i]
      /\ \A i, k \in 1 .. Len(out) : i < k => out[i] < out[k]
  BY DEF Climb
<1>2. CASE out = <<>>
  BY <1>2 DEF Ends
<1>3. CASE out # <<>>
  <2> DEFINE m == Len(out)
             last == out[m]
  <2>1. m \in 1 .. m /\ m \in Nat /\ last \in Nat /\ \A i \in 1 .. m : out[i] \in Nat
    BY <1>1, <1>3
  <2>2. Ends(n, out) = last + 1
    BY <1>3 DEF Ends
  <2>3. n <= last /\ \A i \in 1 .. m : i < m => out[i] < last
    BY <1>1, <2>1
  <2>4. \A i \in 1 .. m : i = m => out[i] = last
    OBVIOUS
  <2>. HIDE DEF m, last
  <2>5. ASSUME NEW i \in 1 .. m
        PROVE  out[i] <= last
    BY <2>1, <2>3, <2>4
  <2>. QED  BY <2>1, <2>2, <2>3, <2>5 DEF m
<1>. QED  BY <1>2, <1>3

(* A climb goes on from where one has ended.                               *)
LEMMA ClimbJoins ==
    ASSUME NEW n \in Nat, NEW a, Climb(n, a), NEW b, Climb(Ends(n, a), b)
    PROVE  Climb(n, a \o b) /\ Ends(n, a \o b) = Ends(Ends(n, a), b)
<1> DEFINE e == Ends(n, a)
           c == a \o b
           la == Len(a)
           lb == Len(b)
<1>1. e \in Nat /\ n <= e /\ \A i \in 1 .. la : a[i] < e
  BY ClimbEnds
<1>2. /\ a \in Seq(Nat) /\ \A i \in 1 .. la : n <= a[i]
      /\ \A i, k \in 1 .. la : i < k => a[i] < a[k]
  BY DEF Climb
<1>3. /\ b \in Seq(Nat) /\ \A i \in 1 .. lb : e <= b[i]
      /\ \A i, k \in 1 .. lb : i < k => b[i] < b[k]
  BY DEF Climb
<1>4. /\ c \in Seq(Nat) /\ Len(c) = la + lb /\ la \in Nat /\ lb \in Nat
      /\ \A i \in 1 .. la : c[i] = a[i] /\ a[i] \in Nat
      /\ \A i \in la + 1 .. la + lb : c[i] = b[i - la] /\ i - la \in 1 .. lb
      /\ \A i \in 1 .. lb : b[i] \in Nat
  BY <1>2, <1>3
<1>5. Ends(n, c) = Ends(e, b)
  <2>1. CASE b = <<>>
    <3>1. c = a
      BY <1>2, <2>1
    <3>. QED  BY <2>1, <3>1 DEF Ends
  <2>2. CASE b # <<>>
    <3>1. lb # 0 /\ Ends(e, b) = b[lb] + 1
      BY <1>3, <2>2 DEF Ends
    <3>2. c # <<>> /\ Ends(n, c) = c[la + lb] + 1
      BY <1>4, <3>1 DEF Ends
    <3>3. c[la + lb] = b[lb]
      BY <1>4, <3>1
    <3>. QED  BY <3>1, <3>2, <3>3
  <2>. QED  BY <2>1, <2>2
<1>. HIDE DEF e, c, la, lb
<1>6. ASSUME NEW i \in 1 .. la + lb
      PROVE  \/ i \in 1 .. la /\ c[i] = a[i] /\ n <= c[i] /\ c[i] < e
             \/ i \in la + 1 .. la + lb /\ i - la \in 1 .. lb /\ c[i] = b[i - la] /\ e <= c[i]
  <2>1. i \in 1 .. la \/ i \in la + 1 .. la + lb
    BY <1>4
  <2>2. i \in 1 .. la => c[i] = a[i] /\ n <= c[i] /\ c[i] < e
    BY <1>1, <1>2, <1>4
  <2>3. i \in la + 1 .. la + lb => i - la \in 1 .. lb /\ c[i] = b[i - la] /\ e <= c[i]
    BY <1>3, <1>4
  <2>. QED  BY <2>1, <2>2, <2>3
<1>7. \A i \in 1 .. la + lb : c[i] \in Nat
  BY <1>4
<1>8. ASSUME NEW i \in 1 .. la + lb
      PROVE  n <= c[i]
  BY <1>1, <1>6, <1>7
<1>9. ASSUME NEW i \in 1 .. la + lb, NEW k \in 1 .. la + lb, i < k
      PROVE  c[i] < c[k]
  <2>1. CASE i \in 1 .. la /\ k \in 1 .. la
    BY <1>2, <1>4, <1>9, <2>1
  <2>2. CASE i \in 1 .. la /\ k \in la + 1 .. la + lb
    <3>1. c[i] < e /\ e <= c[k]
      BY <1>4, <1>6, <2>2
    <3>. QED  BY <1>1, <1>7, <3>1
  <2>3. CASE i \in la + 1 .. la + lb /\ k \in la + 1 .. la + lb
    <3>1. i - la \in 1 .. lb /\ k - la \in 1 .. lb /\ c[i] = b[i - la] /\ c[k] = b[k - la]
      BY <1>4, <2>3
    <3>2. i - la < k - la
      BY <1>4, <1>9
    <3>. QED  BY <1>3, <3>1, <3>2
  <2>4. i \in la + 1 .. la + lb => ~(k \in 1 .. la)
    BY <1>4, <1>9
  <2>. QED  BY <1>6, <2>1, <2>2, <2>3, <2>4
<1>10. Climb(n, c)
  <2>1. Len(c) = la + lb /\ c \in Seq(Nat)
    BY <1>4
  <2>. QED  BY <1>8, <1>9, <2>1 DEF Climb
<1>. QED  BY <1>5, <1>10 DEF c, e

(* A set from n on, enumerated, is a climb to its greatest member.         *)
LEMMA AscendingClimbs ==
    ASSUME NEW n \in Nat, NEW S \in SUBSET Nat, IsFiniteSet(S), \A s \in S : n <= s
    PROVE  /\ Climb(n, Ascending(S))
           /\ Ends(n, Ascending(S)) = IF S = {} THEN n ELSE Max(S) + 1
<1> DEFINE c == Cardinality(S)
           up == Ascending(S)
<1>1. S \in SUBSET Int
  OBVIOUS
<1>2. /\ c \in Nat /\ up \in [1 .. c -> S]
      /\ \A i, k \in 1 .. c : i < k => up[i] < up[k]
  BY <1>1, AscendingEnumerates
<1>3. up \in Seq(S) /\ Len(up) = c /\ ToSet(up) = S
  BY <1>1, AscendingSeq
<1>4. up \in Seq(Nat)
  BY <1>3, SeqMonotonic
<1>5. \A i \in 1 .. c : up[i] \in S
  BY <1>2
<1>6. Climb(n, up)
  BY <1>2, <1>3, <1>4, <1>5 DEF Climb
<1>7. Ends(n, up) = IF S = {} THEN n ELSE Max(S) + 1
  <2>1. CASE S = {}
    <3>1. c = 0
      BY <2>1, FS_EmptySet
    <3>2. up = <<>>
      BY <1>3, <1>4, <3>1
    <3>. QED  BY <2>1, <3>2 DEF Ends
  <2>2. CASE S # {}
    <3>1. Max(S) \in S /\ \A s \in S : s <= Max(S)
      BY <1>1, <2>2, MaxMember
    <3>2. DOMAIN up = 1 .. c
      BY <1>2
    <3>3. PICK k \in 1 .. c : up[k] = Max(S)
      BY <1>3, <3>1, <3>2 DEF ToSet
    <3>4. c \in 1 .. c /\ up[c] \in S
      BY <1>2, <1>5, <3>3
    <3>5. ~(k < c)
      <4>1. k < c => up[k] < up[c]
        BY <1>2, <3>4
      <4>. HIDE DEF up, c
      <4>2. up[c] <= Max(S) /\ up[c] \in Int /\ up[k] \in Int
        BY <1>1, <3>1, <3>3, <3>4
      <4>. QED  BY <3>3, <4>1, <4>2
    <3>6. k = c
      BY <1>2, <3>5
    <3>7. up # <<>> /\ Ends(n, up) = up[c] + 1
      <4>1. Len(up) = c /\ c # 0
        BY <1>2, <1>3, <3>4
      <4>. QED  BY <4>1 DEF Ends
    <3>. QED  BY <2>2, <3>3, <3>6, <3>7
  <2>. QED  BY <2>1, <2>2
<1>. QED  BY <1>6, <1>7

(***************************************************************************)
(* drain_contiguous leaves nothing pending below the frontier it leads to. *)
(***************************************************************************)
LEMMA DrainRises ==
    ASSUME NEW rb \in Buffers, \A s \in ToSet(rb.pending) : s >= rb.next,
           NEW n \in Nat, NEW gone, Climb(n, gone), rb.next = Ends(n, gone)
    PROVE  Rises(n, drain_contiguous(rb, gone))
<1> DEFINE P == ToSet(rb.pending)
           run == {s \in P : s >= rb.next /\ rb.next .. s \subseteq P}
           stay == P \ run
           next == IF run = {} THEN rb.next ELSE Max(run) + 1
           kept == Kept(rb.pending, stay)
           out == gone \o Ascending(run)
           r == drain_contiguous(rb, gone)
<1>1. r.rb = [pending |-> kept, next |-> next] /\ r.out = out
  BY DEF drain_contiguous, Released
<1>2. rb.pending \in Seq(Nat) /\ rb.next \in Nat /\ \A s \in P : s >= rb.next
  BY DEF Buffers
<1>3. P \in SUBSET Nat /\ IsFiniteSet(run) /\ run \in SUBSET Int
  BY <1>2, PendingFinite
<1>4. run \in SUBSET P /\ \A s \in run : rb.next .. s \subseteq P
  OBVIOUS
<1>5. ToSet(kept) = stay
  <2>1. ToSet(kept) = P \cap stay
    BY <1>2, KeptSet
  <2>. QED  BY <2>1
<1>6. \A s \in stay : s >= next
  <2> SUFFICES ASSUME NEW s \in stay
               PROVE  s >= next
    OBVIOUS
  <2>1. CASE run = {}
    BY <1>2, <2>1
  <2>2. CASE run # {}
    <3> DEFINE m == Max(run)
    <3>1. m \in run
      <4>. HIDE DEF run
      <4>. QED  BY <1>3, <2>2, MaxMember
    <3>2. rb.next .. m \subseteq P /\ m \in Nat
      BY <1>3, <1>4, <3>1
    <3>3. next = m + 1
      BY <2>2
    <3>. HIDE DEF m
    <3>4. ~(s <= m)
      <4> SUFFICES ASSUME s <= m
                   PROVE  FALSE
        OBVIOUS
      <4>1. s \in P /\ s \in Nat /\ s >= rb.next
        BY <1>2, <1>3
      <4>2. rb.next .. s \subseteq rb.next .. m
        BY <1>2, <3>2, <4>1
      <4>3. s \in run
        BY <3>2, <4>1, <4>2
      <4>. QED  BY <4>3
    <3>5. s \in Nat
      BY <1>3
    <3>. QED  BY <3>2, <3>3, <3>4, <3>5
  <2>. QED  BY <2>1, <2>2
<1>7. \A s \in run : rb.next <= s /\ s \in Nat
  BY <1>2, <1>3
<1>. HIDE DEF run, stay
<1>8. Climb(rb.next, Ascending(run)) /\ Ends(rb.next, Ascending(run)) = next
  <2>1. run \in SUBSET Nat
    BY <1>7
  <2>2. Ends(rb.next, Ascending(run)) = IF run = {} THEN rb.next ELSE Max(run) + 1
    BY <1>2, <1>3, <1>7, <2>1, AscendingClimbs
  <2>. QED  BY <1>2, <1>3, <1>7, <2>1, <2>2, AscendingClimbs
<1>9. Climb(n, out) /\ Ends(n, out) = next
  <2>1. Climb(Ends(n, gone), Ascending(run))
    BY <1>8
  <2>2. Climb(n, out) /\ Ends(n, out) = Ends(Ends(n, gone), Ascending(run))
    BY <2>1, ClimbJoins
  <2>. QED  BY <1>8, <2>2
<1>10. r.rb.next = next /\ r.rb.pending = kept
  BY <1>1
<1>. HIDE DEF next, kept, out, r
<1>11. Rises(n, r)
  BY <1>1, <1>5, <1>6, <1>9, <1>10 DEF Rises
<1>. QED  BY <1>11 DEF r

(***************************************************************************)
(* release_through takes the frontier past the greatest seq given up.      *)
(***************************************************************************)
LEMMA ReleaseRises ==
    ASSUME NEW rb \in Buffers, \A s \in ToSet(rb.pending) : s >= rb.next,
           NEW S \in SUBSET ToSet(rb.pending), S # {}
    PROVE  Rises(rb.next, release_through(rb, S))
<1> DEFINE P == ToSet(rb.pending)
           k == Max(S)
           up == {s \in P : s <= k}
           low == P \ up
           kept == Kept(rb.pending, low)
           next == Max({rb.next, k + 1})
           rest == [pending |-> kept, next |-> next]
<1>1. release_through(rb, S) = drain_contiguous(rest, Ascending(up))
  BY DEF release_through
<1>2. rb.pending \in Seq(Nat) /\ rb.next \in Nat /\ \A s \in P : s >= rb.next
  BY DEF Buffers
<1>3. P \in SUBSET Nat /\ IsFiniteSet(S) /\ S \in SUBSET Int /\ IsFiniteSet(up) /\ up \in SUBSET Int
  BY <1>2, PendingFinite
<1>4. k \in S /\ k \in P /\ k \in Nat /\ k >= rb.next
  <2>1. k \in S
    BY <1>3, MaxMember
  <2>. HIDE DEF k
  <2>. QED  BY <1>2, <1>3, <2>1
<1>5. up \in SUBSET Nat /\ k \in up /\ (\A s \in up : rb.next <= s /\ s <= k)
  <2>. HIDE DEF k
  <2>. QED  BY <1>2, <1>3, <1>4
<1>6. low \in SUBSET P /\ \A s \in low : s >= k + 1
  <2>. HIDE DEF k
  <2>. QED  BY <1>3, <1>4
<1>. HIDE DEF k, up, low
<1>7. Max(up) = k
  <2> DEFINE m == Max(up)
  <2>1. m \in up /\ k <= m
    BY <1>3, <1>5, MaxMember
  <2>. HIDE DEF m
  <2>2. m \in Int /\ k \in Int /\ m <= k
    BY <1>3, <1>4, <1>5, <2>1
  <2>3. m = k
    BY <2>1, <2>2
  <2>. QED  BY <2>3 DEF m
<1>8. next = k + 1
  <2>1. next \in {rb.next, k + 1} /\ next >= k + 1
    BY <1>2, <1>4, MaxOfTwo
  <2>. QED  BY <1>2, <1>4, <2>1
<1>9. Climb(rb.next, Ascending(up)) /\ Ends(rb.next, Ascending(up)) = next
  <2>1. Ends(rb.next, Ascending(up)) = IF up = {} THEN rb.next ELSE Max(up) + 1
    BY <1>2, <1>3, <1>5, AscendingClimbs
  <2>2. Climb(rb.next, Ascending(up))
    BY <1>2, <1>3, <1>5, AscendingClimbs
  <2>. QED  BY <1>5, <1>7, <1>8, <2>1, <2>2
<1>10. kept \in Seq(Nat) /\ ToSet(kept) = low
  <2>1. kept \in Seq(Nat) /\ ToSet(kept) = P \cap low
    BY <1>2, KeptSet
  <2>. QED  BY <1>6, <2>1
<1>. HIDE DEF kept, next
<1>11. rest \in Buffers /\ rest.pending = kept /\ rest.next = next
  BY <1>4, <1>8, <1>10 DEF Buffers
<1>. HIDE DEF rest
<1>12. \A s \in ToSet(rest.pending) : s >= rest.next
  BY <1>6, <1>8, <1>10, <1>11
<1>. QED  BY <1>1, <1>2, <1>9, <1>11, <1>12, DrainRises

(* Nothing handed over is a climb that goes nowhere.                       *)
LEMMA NoClimb ==
    ASSUME NEW n \in Nat
    PROVE  Climb(n, <<>>) /\ Ends(n, <<>>) = n
<1>1. <<>> \in Seq(Nat) /\ 1 .. Len(<<>>) = {}
  OBVIOUS
<1>. QED  BY <1>1 DEF Climb, Ends

(***************************************************************************)
(* A push at or above the frontier.                                        *)
(***************************************************************************)
LEMMA PushRises ==
    ASSUME NEW rb \in Buffers, OneToOne(rb.pending), \A s \in ToSet(rb.pending) : s >= rb.next,
           NEW seq \in Nat, seq \notin ToSet(rb.pending), ~(seq < rb.next)
    PROVE  Rises(rb.next, push(rb, seq))
<1> DEFINE held == [rb EXCEPT !.pending = Append(@, seq)]
           one == <<seq>>
<1>1. rb.pending \in Seq(Nat) /\ rb.next \in Nat
  BY DEF Buffers
<1>2. one \in Seq(Nat) /\ ToSet(one) = {seq} /\ OneToOne(one)
  BY DEF ToSet, OneToOne
<1>3. held \in Buffers /\ held.pending = rb.pending \o one /\ held.next = rb.next
  <2>1. Append(rb.pending, seq) = rb.pending \o one /\ Append(rb.pending, seq) \in Seq(Nat)
    BY <1>1, AppendIsConcat, AppendProperties
  <2>2. \A p \in Seq(Nat) : /\ [rb EXCEPT !.pending = p] \in Buffers
                             /\ [rb EXCEPT !.pending = p].pending = p
                             /\ [rb EXCEPT !.pending = p].next = rb.next
    BY DEF Buffers
  <2>3. held = [rb EXCEPT !.pending = Append(rb.pending, seq)]
    OBVIOUS
  <2>. QED  BY <2>1, <2>2, <2>3
<1>. HIDE DEF one
<1>4. OneToOne(held.pending) /\ ToSet(held.pending) = ToSet(rb.pending) \cup {seq}
  <2>1. ToSet(rb.pending) \cap ToSet(one) = {}
    BY <1>2
  <2>2. /\ ToSet(rb.pending \o one) = ToSet(rb.pending) \cup ToSet(one)
        /\ OneToOne(rb.pending \o one)
    BY <1>1, <1>2, <2>1, JoinedSets
  <2>. HIDE DEF held
  <2>. QED  BY <1>2, <1>3, <2>2
<1>5. \A s \in ToSet(held.pending) : s >= held.next
  BY <1>1, <1>3, <1>4
<1>6. CASE Len(held.pending) > MaxBuffered
  <2>1. push(rb, seq) = force_drain_oldest(held)
    BY <1>6 DEF push
  <2>. HIDE DEF held
  <2>2. PICK S \in SUBSET ToSet(held.pending) :
           S # {} /\ force_drain_oldest(held) = release_through(held, S)
    BY <1>3, <1>4, <1>6, ForcedReleases
  <2>3. Rises(held.next, release_through(held, S))
    BY <1>3, <1>5, <2>2, ReleaseRises
  <2>. QED  BY <1>3, <2>1, <2>2, <2>3
<1>7. CASE ~(Len(held.pending) > MaxBuffered)
  <2>1. push(rb, seq) = drain_contiguous(held, <<>>)
    BY <1>7 DEF push
  <2>. HIDE DEF held
  <2>2. Climb(rb.next, <<>>) /\ held.next = Ends(rb.next, <<>>)
    BY <1>1, <1>3, NoClimb
  <2>. QED  BY <1>1, <1>3, <1>5, <2>1, <2>2, DrainRises
<1>. QED  BY <1>6, <1>7

(***************************************************************************)
(* An expiry.                                                              *)
(***************************************************************************)
LEMMA ExpiryRises ==
    ASSUME NEW rb \in Buffers, \A s \in ToSet(rb.pending) : s >= rb.next,
           NEW j \in 0 .. Len(rb.pending)
    PROVE  Rises(rb.next, drain_expired(rb, j))
<1>1. rb.pending \in Seq(Nat) /\ rb.next \in Nat
  BY DEF Buffers
<1>2. CASE j = 0
  <2>1. drain_expired(rb, j) = [rb |-> rb, out |-> <<>>]
    BY <1>2 DEF drain_expired, Released
  <2>. QED  BY <1>1, <2>1, NoClimb DEF Rises
<1>3. CASE j # 0
  <2>1. PICK S \in SUBSET ToSet(rb.pending) :
           S # {} /\ drain_expired(rb, j) = release_through(rb, S)
    BY <1>3, ExpiryReleases
  <2>. QED  BY <2>1, ReleaseRises
<1>. QED  BY <1>2, <1>3

-----------------------------------------------------------------------------
(* The positions at which a sequence exceeds all that precedes.            *)
Records(seq) == {i \in DOMAIN seq : \A k \in 1 .. i - 1 : seq[k] < seq[i]}

(* A sequence has finitely many of them.                                   *)
LEMMA RecordsFinite ==
    ASSUME NEW h \in Seq(Nat)
    PROVE  IsFiniteSet(Records(h)) /\ Cardinality(Records(h)) \in Nat
<1>1. Records(h) \in SUBSET (1 .. Len(h)) /\ Len(h) \in Nat
  BY DEF Records
<1>2. IsFiniteSet(1 .. Len(h))
  BY <1>1, FS_Interval
<1>3. IsFiniteSet(Records(h))
  BY <1>1, <1>2, FS_Subset
<1>. QED  BY <1>3, FS_CardinalityType

(* Every step of a climb beyond the whole sequence is one of them.         *)
LEMMA RecordsClimb ==
    ASSUME NEW h \in Seq(Nat), NEW n \in Nat, \A s \in ToSet(h) : s < n,
           NEW out, Climb(n, out)
    PROVE  Cardinality(Records(h \o out)) = Cardinality(Records(h)) + Len(out)
<1> DEFINE c == h \o out
           la == Len(h)
           lb == Len(out)
           new == la + 1 .. la + lb
<1>1. /\ out \in Seq(Nat) /\ \A i \in 1 .. lb : n <= out[i]
      /\ \A i, k \in 1 .. lb : i < k => out[i] < out[k]
  BY DEF Climb
<1>2. /\ la \in Nat /\ lb \in Nat /\ DOMAIN h = 1 .. la /\ DOMAIN c = 1 .. la + lb
      /\ \A i \in 1 .. la : c[i] = h[i] /\ h[i] \in Nat
      /\ \A i \in new : c[i] = out[i - la] /\ i - la \in 1 .. lb
      /\ \A i \in 1 .. lb : out[i] \in Nat
  BY <1>1
<1>3. \A i \in 1 .. la : h[i] < n
  BY <1>2 DEF ToSet
<1>. HIDE DEF c, la, lb
<1>4. Records(c) = Records(h) \cup new
  <2>1. ASSUME NEW i \in 1 .. la
        PROVE  i \in Records(c) <=> i \in Records(h)
    <3>1. i \in 1 .. la + lb /\ \A k \in 1 .. i - 1 : k \in 1 .. la
      BY <1>2
    <3>2. \A k \in 1 .. i - 1 : c[k] = h[k]
      BY <1>2, <3>1
    <3>. QED  BY <1>2, <3>1, <3>2 DEF Records
  <2>2. ASSUME NEW i \in new
        PROVE  i \in Records(c)
    <3>1. i \in 1 .. la + lb /\ i - la \in 1 .. lb /\ c[i] = out[i - la] /\ c[i] \in Nat
      BY <1>2
    <3>2. n <= c[i]
      BY <1>1, <3>1
    <3>3. ASSUME NEW k \in 1 .. i - 1
          PROVE  c[k] < c[i]
      <4>1. k \in 1 .. la \/ k \in new
        BY <1>2, <3>1
      <4>2. CASE k \in 1 .. la
        <5>1. c[k] < n /\ c[k] \in Nat
          BY <1>2, <1>3, <4>2
        <5>. QED  BY <3>1, <3>2, <5>1
      <4>3. CASE k \in new
        <5>1. k - la \in 1 .. lb /\ c[k] = out[k - la] /\ k - la < i - la
          BY <1>2, <4>3
        <5>. QED  BY <1>1, <3>1, <5>1
      <4>. QED  BY <4>1, <4>2, <4>3
    <3>. QED  BY <1>2, <3>1, <3>3 DEF Records
  <2>3. Records(c) \in SUBSET (1 .. la + lb) /\ Records(h) \in SUBSET (1 .. la)
    BY <1>2 DEF Records
  <2>4. \A i \in 1 .. la + lb : i \in 1 .. la \/ i \in new
    BY <1>2
  <2>. HIDE DEF new
  <2>. QED  BY <2>1, <2>2, <2>3, <2>4
<1>5. Records(h) \cap new = {}
  BY <1>2 DEF Records
<1>6. IsFiniteSet(new) /\ Cardinality(new) = lb
  <2>1. \A a, b \in Int : IsFiniteSet(a .. b) /\ Cardinality(a .. b) = IF a > b THEN 0 ELSE b - a + 1
    BY FS_Interval
  <2>2. la + 1 \in Int /\ la + lb \in Int
    BY <1>2
  <2>3. IsFiniteSet(new) /\ Cardinality(new) = IF la + 1 > la + lb THEN 0 ELSE (la + lb) - (la + 1) + 1
    BY <2>1, <2>2
  <2>. QED  BY <1>2, <2>3
<1>7. IsFiniteSet(Records(h)) /\ Cardinality(Records(h)) \in Nat
  BY RecordsFinite
<1>. HIDE DEF new
<1>8. Cardinality(Records(h) \cup new)
         = Cardinality(Records(h)) + Cardinality(new) - Cardinality(Records(h) \cap new)
  BY <1>6, <1>7, FS_Union
<1>9. Cardinality(Records(h) \cap new) = 0
  BY <1>5, FS_EmptySet
<1>. QED  BY <1>2, <1>4, <1>6, <1>7, <1>8, <1>9 DEF c, lb

(* A seq below one handed over before it is none.                          *)
LEMMA RecordsLate ==
    ASSUME NEW h \in Seq(Nat), NEW d \in Nat, NEW x \in ToSet(h), d <= x
    PROVE  Records(Append(h, d)) = Records(h)
<1> DEFINE c == Append(h, d)
           la == Len(h)
<1>1. /\ la \in Nat /\ DOMAIN h = 1 .. la /\ DOMAIN c = 1 .. la + 1
      /\ \A i \in 1 .. la : c[i] = h[i] /\ h[i] \in Nat
      /\ c[la + 1] = d
  OBVIOUS
<1>. HIDE DEF c, la
<1>2. PICK k \in 1 .. la : h[k] = x
  BY <1>1 DEF ToSet
<1>3. la + 1 \notin Records(c)
  <2>1. k \in 1 .. (la + 1) - 1 /\ ~(c[k] < c[la + 1])
    BY <1>1, <1>2
  <2>. QED  BY <2>1 DEF Records
<1>4. ASSUME NEW i \in 1 .. la
      PROVE  i \in Records(c) <=> i \in Records(h)
  <2>1. i \in 1 .. la + 1 /\ \A q \in 1 .. i - 1 : q \in 1 .. la
    BY <1>1
  <2>2. \A q \in 1 .. i - 1 : c[q] = h[q]
    BY <1>1, <2>1
  <2>. QED  BY <1>1, <2>1, <2>2 DEF Records
<1>5. Records(c) \in SUBSET (1 .. la + 1) /\ Records(h) \in SUBSET (1 .. la)
  BY <1>1 DEF Records
<1>6. \A i \in 1 .. la + 1 : i \in 1 .. la \/ i = la + 1
  BY <1>1
<1>. QED  BY <1>1, <1>3, <1>4, <1>5, <1>6 DEF c

-----------------------------------------------------------------------------
(* Working states from w on, one delivery apart.                           *)
Stages(st, w, out, late) ==
    /\ st[0] = w
    /\ \A k \in 1 .. Len(out) : st[k] = Deliver(st[k - 1], out[k], late)
    /\ Deliveries(w, out, late) = st[Len(out)]

(* The deliveries of a push go through such.                               *)
LEMMA DeliverySteps ==
    ASSUME NEW w, NEW out \in Seq(Nat), NEW late
    PROVE  \E st : Stages(st, w, out, late)
<1> DEFINE n == Len(out)
           Sub(k) == {s \in SUBSET (1 .. n) : Cardinality(s) <= k}
           By(f, k) == f = [s \in Sub(k) |-> IF s = {} THEN w
                                             ELSE Deliver(f[s \ {Max(s)}], out[Max(s)], late)]
           S == {k \in 0 .. n : \E f : By(f, k)}
           Eq(f) == f = [s \in SUBSET (1 .. n) |-> IF s = {} THEN w
                                      ELSE Deliver(f[s \ {Max(s)}], out[Max(s)], late)]
           iter == CHOOSE f : Eq(f)
           st == [k \in 0 .. n |-> iter[1 .. k]]
<1>1. n \in Nat /\ DOMAIN out = 1 .. n
  OBVIOUS
<1>2. Deliveries(w, out, late)
         = (CHOOSE f : f = [s \in SUBSET (DOMAIN out) |-> IF s = {} THEN w
                              ELSE Deliver(f[s \ {Max(s)}], out[Max(s)], late)])[DOMAIN out]
  BY DEF Deliveries, FoldLeft, MapThenFoldSet
<1>. HIDE DEF n
<1>3. Deliveries(w, out, late) = iter[1 .. n]
  BY <1>1, <1>2
<1>4. \A s : Max(s) = Greatest(s)
  BY DEF Max, Greatest
<1>5. \A s \in SUBSET (1 .. n) : Cardinality(s) \in 0 .. n
  BY <1>1, PositionsCount
<1>6. 0 \in S
  <2>1. \A s \in Sub(0) : s = {}
    <3> SUFFICES ASSUME NEW s \in Sub(0), s # {}
                 PROVE  FALSE
      OBVIOUS
    <3>1. /\ s \ {Greatest(s)} \in SUBSET (1 .. n)
          /\ Cardinality(s \ {Greatest(s)}) = Cardinality(s) - 1
      BY <1>1, PositionsCount
    <3>2. Cardinality(s \ {Greatest(s)}) \in 0 .. n /\ Cardinality(s) \in 0 .. n
      BY <1>5, <3>1
    <3>. QED  BY <3>1, <3>2
  <2>2. By([s \in Sub(0) |-> w], 0)
    BY <2>1
  <2>3. 0 \in 0 .. n
    BY <1>1
  <2>. HIDE DEF By
  <2>. QED  BY <2>2, <2>3
<1>7. ASSUME NEW k \in 0 .. n - 1, k \in S
      PROVE  k + 1 \in S
  <2>1. PICK h : By(h, k)
    BY <1>7
  <2> DEFINE more == [s \in Sub(k + 1) |->
                        IF s = {} THEN w
                        ELSE Deliver(h[s \ {Max(s)}], out[Max(s)], late)]
  <2>2. ASSUME NEW s \in Sub(k + 1), s # {}
        PROVE  s \ {Max(s)} \in Sub(k) /\ s \ {Max(s)} \in Sub(k + 1)
    <3>1. /\ s \ {Max(s)} \in SUBSET (1 .. n) /\ Cardinality(s) <= k + 1
          /\ Cardinality(s \ {Max(s)}) = Cardinality(s) - 1
      BY <1>1, <1>4, <2>2, PositionsCount
    <3>2. Cardinality(s) \in Int /\ k \in Int
      BY <1>1, <1>5
    <3>. QED  BY <3>1, <3>2
  <2>. HIDE DEF Sub
  <2>3. \A s \in Sub(k + 1) : s \in Sub(k) => more[s] = h[s]
    BY <2>1
  <2>4. By(more, k + 1)
    BY <2>2, <2>3
  <2>5. k + 1 \in 0 .. n
    BY <1>1
  <2>. HIDE DEF more, By
  <2>. QED  BY <2>4, <2>5
<1>. HIDE DEF S
<1>8. n \in S
  <2>1. n \in 0 .. n
    BY <1>1
  <2>2. 0 .. n \subseteq S
    BY <1>1, <1>6, <1>7, IntervalInduction
  <2>. QED  BY <2>1, <2>2
<1>9. \E f : Eq(f)
  <2>1. PICK f : By(f, n)
    BY <1>8 DEF S
  <2>2. Sub(n) = SUBSET (1 .. n)
    BY <1>5
  <2>. QED  BY <2>1, <2>2
<1>10. Eq(iter)
  BY <1>9
<1>. HIDE DEF iter
<1>11. iter[1 .. 0] = w
  BY <1>10
<1>12. ASSUME NEW k \in 1 .. n
       PROVE  iter[1 .. k] = Deliver(iter[1 .. k - 1], out[k], late)
  <2>1. /\ 1 .. k \in SUBSET (1 .. n) /\ 1 .. k # {}
        /\ Greatest(1 .. k) = k /\ (1 .. k) \ {k} = 1 .. k - 1
    BY <1>1, IntervalTop
  <2>2. Max(1 .. k) = k
    BY <2>1, <1>4
  <2>. QED  BY <1>10, <2>1, <2>2
<1>13. st[0] = w /\ st[n] = iter[1 .. n]
  BY <1>1, <1>11
<1>14. \A k \in 1 .. n : st[k] = Deliver(st[k - 1], out[k], late)
  BY <1>1, <1>12
<1>. HIDE DEF st
<1>. QED  BY <1>3, <1>13, <1>14 DEF n, Stages

(***************************************************************************)
(* The pushes of a message, one after the other.                           *)
(***************************************************************************)
LEMMA PushSteps ==
    ASSUME NEW w, NEW order \in Seq(Nat)
    PROVE  \E st : /\ st[0] = w
                   /\ \A k \in 1 .. Len(order) : st[k] = push_symbol(st[k - 1], order[k])
                   /\ Pushes(w, order) = st[Len(order)]
<1> DEFINE n == Len(order)
           Sub(k) == {s \in SUBSET (1 .. n) : Cardinality(s) <= k}
           By(f, k) == f = [s \in Sub(k) |-> IF s = {} THEN w
                                             ELSE push_symbol(f[s \ {Max(s)}], order[Max(s)])]
           S == {k \in 0 .. n : \E f : By(f, k)}
           Eq(f) == f = [s \in SUBSET (1 .. n) |-> IF s = {} THEN w
                                      ELSE push_symbol(f[s \ {Max(s)}], order[Max(s)])]
           iter == CHOOSE f : Eq(f)
           st == [k \in 0 .. n |-> iter[1 .. k]]
<1>1. n \in Nat /\ DOMAIN order = 1 .. n
  OBVIOUS
<1>2. Pushes(w, order)
         = (CHOOSE f : f = [s \in SUBSET (DOMAIN order) |-> IF s = {} THEN w
                              ELSE push_symbol(f[s \ {Max(s)}], order[Max(s)])])[DOMAIN order]
  BY DEF Pushes, FoldLeft, MapThenFoldSet
<1>. HIDE DEF n
<1>3. Pushes(w, order) = iter[1 .. n]
  BY <1>1, <1>2
<1>4. \A s : Max(s) = Greatest(s)
  BY DEF Max, Greatest
<1>5. \A s \in SUBSET (1 .. n) : Cardinality(s) \in 0 .. n
  BY <1>1, PositionsCount
<1>6. 0 \in S
  <2>1. \A s \in Sub(0) : s = {}
    <3> SUFFICES ASSUME NEW s \in Sub(0), s # {}
                 PROVE  FALSE
      OBVIOUS
    <3>1. /\ s \ {Greatest(s)} \in SUBSET (1 .. n)
          /\ Cardinality(s \ {Greatest(s)}) = Cardinality(s) - 1
      BY <1>1, PositionsCount
    <3>2. Cardinality(s \ {Greatest(s)}) \in 0 .. n /\ Cardinality(s) \in 0 .. n
      BY <1>5, <3>1
    <3>. QED  BY <3>1, <3>2
  <2>2. By([s \in Sub(0) |-> w], 0)
    BY <2>1
  <2>3. 0 \in 0 .. n
    BY <1>1
  <2>. HIDE DEF By
  <2>. QED  BY <2>2, <2>3
<1>7. ASSUME NEW k \in 0 .. n - 1, k \in S
      PROVE  k + 1 \in S
  <2>1. PICK h : By(h, k)
    BY <1>7
  <2> DEFINE more == [s \in Sub(k + 1) |->
                        IF s = {} THEN w
                        ELSE push_symbol(h[s \ {Max(s)}], order[Max(s)])]
  <2>2. ASSUME NEW s \in Sub(k + 1), s # {}
        PROVE  s \ {Max(s)} \in Sub(k) /\ s \ {Max(s)} \in Sub(k + 1)
    <3>1. /\ s \ {Max(s)} \in SUBSET (1 .. n) /\ Cardinality(s) <= k + 1
          /\ Cardinality(s \ {Max(s)}) = Cardinality(s) - 1
      BY <1>1, <1>4, <2>2, PositionsCount
    <3>2. Cardinality(s) \in Int /\ k \in Int
      BY <1>1, <1>5
    <3>. QED  BY <3>1, <3>2
  <2>. HIDE DEF Sub
  <2>3. \A s \in Sub(k + 1) : s \in Sub(k) => more[s] = h[s]
    BY <2>1
  <2>4. By(more, k + 1)
    BY <2>2, <2>3
  <2>5. k + 1 \in 0 .. n
    BY <1>1
  <2>. HIDE DEF more, By
  <2>. QED  BY <2>4, <2>5
<1>. HIDE DEF S
<1>8. n \in S
  <2>1. n \in 0 .. n
    BY <1>1
  <2>2. 0 .. n \subseteq S
    BY <1>1, <1>6, <1>7, IntervalInduction
  <2>. QED  BY <2>1, <2>2
<1>9. \E f : Eq(f)
  <2>1. PICK f : By(f, n)
    BY <1>8 DEF S
  <2>2. Sub(n) = SUBSET (1 .. n)
    BY <1>5
  <2>. QED  BY <2>1, <2>2
<1>10. Eq(iter)
  BY <1>9
<1>. HIDE DEF iter
<1>11. iter[1 .. 0] = w
  BY <1>10
<1>12. ASSUME NEW k \in 1 .. n
       PROVE  iter[1 .. k] = push_symbol(iter[1 .. k - 1], order[k])
  <2>1. /\ 1 .. k \in SUBSET (1 .. n) /\ 1 .. k # {}
        /\ Greatest(1 .. k) = k /\ (1 .. k) \ {k} = 1 .. k - 1
    BY <1>1, IntervalTop
  <2>2. Max(1 .. k) = k
    BY <2>1, <1>4
  <2>. QED  BY <1>10, <2>1, <2>2
<1>13. st[0] = w /\ st[n] = iter[1 .. n]
  BY <1>1, <1>11
<1>14. \A k \in 1 .. n : st[k] = push_symbol(st[k - 1], order[k])
  BY <1>1, <1>12
<1>. HIDE DEF st
<1>. QED  BY <1>3, <1>13, <1>14 DEF n

(***************************************************************************)
(* The arrivals the gauge observes, one after the other.                   *)
(***************************************************************************)
LEMMA ObserveSteps ==
    ASSUME NEW w, NEW order \in Seq(Nat)
    PROVE  \E st : /\ st[0] = w
                   /\ \A k \in 1 .. Len(order) : st[k] = observe_high_at(st[k - 1], order[k])
                   /\ Observed(w, order) = st[Len(order)]
<1> DEFINE n == Len(order)
           Sub(k) == {s \in SUBSET (1 .. n) : Cardinality(s) <= k}
           By(f, k) == f = [s \in Sub(k) |-> IF s = {} THEN w
                                             ELSE observe_high_at(f[s \ {Max(s)}], order[Max(s)])]
           S == {k \in 0 .. n : \E f : By(f, k)}
           Eq(f) == f = [s \in SUBSET (1 .. n) |-> IF s = {} THEN w
                                      ELSE observe_high_at(f[s \ {Max(s)}], order[Max(s)])]
           iter == CHOOSE f : Eq(f)
           st == [k \in 0 .. n |-> iter[1 .. k]]
<1>1. n \in Nat /\ DOMAIN order = 1 .. n
  OBVIOUS
<1>2. Observed(w, order)
         = (CHOOSE f : f = [s \in SUBSET (DOMAIN order) |-> IF s = {} THEN w
                              ELSE observe_high_at(f[s \ {Max(s)}], order[Max(s)])])[DOMAIN order]
  BY DEF Observed, FoldLeft, MapThenFoldSet
<1>. HIDE DEF n
<1>3. Observed(w, order) = iter[1 .. n]
  BY <1>1, <1>2
<1>4. \A s : Max(s) = Greatest(s)
  BY DEF Max, Greatest
<1>5. \A s \in SUBSET (1 .. n) : Cardinality(s) \in 0 .. n
  BY <1>1, PositionsCount
<1>6. 0 \in S
  <2>1. \A s \in Sub(0) : s = {}
    <3> SUFFICES ASSUME NEW s \in Sub(0), s # {}
                 PROVE  FALSE
      OBVIOUS
    <3>1. /\ s \ {Greatest(s)} \in SUBSET (1 .. n)
          /\ Cardinality(s \ {Greatest(s)}) = Cardinality(s) - 1
      BY <1>1, PositionsCount
    <3>2. Cardinality(s \ {Greatest(s)}) \in 0 .. n /\ Cardinality(s) \in 0 .. n
      BY <1>5, <3>1
    <3>. QED  BY <3>1, <3>2
  <2>2. By([s \in Sub(0) |-> w], 0)
    BY <2>1
  <2>3. 0 \in 0 .. n
    BY <1>1
  <2>. HIDE DEF By
  <2>. QED  BY <2>2, <2>3
<1>7. ASSUME NEW k \in 0 .. n - 1, k \in S
      PROVE  k + 1 \in S
  <2>1. PICK h : By(h, k)
    BY <1>7
  <2> DEFINE more == [s \in Sub(k + 1) |->
                        IF s = {} THEN w
                        ELSE observe_high_at(h[s \ {Max(s)}], order[Max(s)])]
  <2>2. ASSUME NEW s \in Sub(k + 1), s # {}
        PROVE  s \ {Max(s)} \in Sub(k) /\ s \ {Max(s)} \in Sub(k + 1)
    <3>1. /\ s \ {Max(s)} \in SUBSET (1 .. n) /\ Cardinality(s) <= k + 1
          /\ Cardinality(s \ {Max(s)}) = Cardinality(s) - 1
      BY <1>1, <1>4, <2>2, PositionsCount
    <3>2. Cardinality(s) \in Int /\ k \in Int
      BY <1>1, <1>5
    <3>. QED  BY <3>1, <3>2
  <2>. HIDE DEF Sub
  <2>3. \A s \in Sub(k + 1) : s \in Sub(k) => more[s] = h[s]
    BY <2>1
  <2>4. By(more, k + 1)
    BY <2>2, <2>3
  <2>5. k + 1 \in 0 .. n
    BY <1>1
  <2>. HIDE DEF more, By
  <2>. QED  BY <2>4, <2>5
<1>. HIDE DEF S
<1>8. n \in S
  <2>1. n \in 0 .. n
    BY <1>1
  <2>2. 0 .. n \subseteq S
    BY <1>1, <1>6, <1>7, IntervalInduction
  <2>. QED  BY <2>1, <2>2
<1>9. \E f : Eq(f)
  <2>1. PICK f : By(f, n)
    BY <1>8 DEF S
  <2>2. Sub(n) = SUBSET (1 .. n)
    BY <1>5
  <2>. QED  BY <2>1, <2>2
<1>10. Eq(iter)
  BY <1>9
<1>. HIDE DEF iter
<1>11. iter[1 .. 0] = w
  BY <1>10
<1>12. ASSUME NEW k \in 1 .. n
       PROVE  iter[1 .. k] = observe_high_at(iter[1 .. k - 1], order[k])
  <2>1. /\ 1 .. k \in SUBSET (1 .. n) /\ 1 .. k # {}
        /\ Greatest(1 .. k) = k /\ (1 .. k) \ {k} = 1 .. k - 1
    BY <1>1, IntervalTop
  <2>2. Max(1 .. k) = k
    BY <2>1, <1>4
  <2>. QED  BY <1>10, <2>1, <2>2
<1>13. st[0] = w /\ st[n] = iter[1 .. n]
  BY <1>1, <1>11
<1>14. \A k \in 1 .. n : st[k] = observe_high_at(st[k - 1], order[k])
  BY <1>1, <1>12
<1>. HIDE DEF st
<1>. QED  BY <1>3, <1>13, <1>14 DEF n

-----------------------------------------------------------------------------
(* A working state of the loop.                                            *)
Fields == {"rb", "g", "p", "m", "o", "ne", "ab", "out", "fc"}

(* What a delivery of d makes of w.                                        *)
Delivered(w, v, d, late) ==
    /\ DOMAIN v = Fields
    /\ v.rb = w.rb
    /\ v.out = Append(w.out, d)
    /\ v.o = check(w.o, d, late)
    /\ v.ne = Max({w.ne, d + 1})
    /\ v.g = w.g
    /\ v.fc = w.fc

(* A delivery hands over its seq, and leaves the hold alone.               *)
LEMMA DeliverFields ==
    ASSUME NEW w, DOMAIN w = Fields, NEW d, NEW late
    PROVE  Delivered(w, Deliver(w, d, late), d, late)
BY DEF Deliver, Fields, Delivered

(* How sequences are joined does not matter.                               *)
LEMMA Grouped ==
    ASSUME NEW x \in Seq(Nat), NEW y \in Seq(Nat), NEW z \in Seq(Nat)
    PROVE  (x \o y) \o z = x \o (y \o z)
BY SMTT(20)

(* What the deliveries of out make of w.                                   *)
HandedOn(w, v, out) ==
    /\ DOMAIN v = Fields
    /\ v.rb = w.rb
    /\ v.out = w.out \o out
    /\ v.ne \in Nat
    /\ v.g = w.g
    /\ v.fc = w.fc

(* What is handed over by a push follows what was before it.               *)
LEMMA DeliveriesHand ==
    ASSUME NEW w, DOMAIN w = Fields, w.out \in Seq(Nat), w.ne \in Nat,
           NEW out \in Seq(Nat), NEW late
    PROVE  HandedOn(w, Deliveries(w, out, late), out)
<1> DEFINE n == Len(out)
<1>st. PICK st : Stages(st, w, out, late)
  BY DeliverySteps
<1>1. /\ st[0] = w
      /\ \A k \in 1 .. n : st[k] = Deliver(st[k - 1], out[k], late)
      /\ Deliveries(w, out, late) = st[n]
  BY <1>st DEF Stages
<1> DEFINE Fit(k) == /\ DOMAIN st[k] = Fields
                     /\ st[k].rb = w.rb
                     /\ st[k].out = w.out \o SubSeq(out, 1, k)
                     /\ st[k].ne \in Nat
                     /\ st[k].g = w.g
                     /\ st[k].fc = w.fc
           S == {k \in 0 .. n : Fit(k)}
<1>2. n \in Nat /\ n \in 0 .. n /\ 0 \in 0 .. n /\ \A k \in 1 .. n : out[k] \in Nat
  OBVIOUS
<1>3. 0 \in S
  <2>1. SubSeq(out, 1, 0) = <<>> /\ w.out \o <<>> = w.out
    BY SubSeqEmpty, ConcatEmptySeq
  <2>. QED  BY <1>1, <1>2, <2>1
<1>4. ASSUME NEW k \in 0 .. n - 1, k \in S
      PROVE  k + 1 \in S
  <2>1. k + 1 \in 1 .. n /\ (k + 1) - 1 = k /\ k + 1 \in 0 .. n
    BY <1>2
  <2> DEFINE d == out[k + 1]
             part == SubSeq(out, 1, k)
  <2>2. st[k + 1] = Deliver(st[k], d, late) /\ d \in Nat
    BY <1>1, <1>2, <2>1
  <2>3. /\ DOMAIN st[k] = Fields /\ st[k].rb = w.rb /\ st[k].out = w.out \o part
        /\ st[k].ne \in Nat /\ st[k].g = w.g /\ st[k].fc = w.fc
    BY <1>4
  <2>4. part \in Seq(Nat) /\ SubSeq(out, 1, k + 1) = part \o <<d>> /\ <<d>> \in Seq(Nat)
    <3>1. 1 \in 1 .. n /\ k + 1 \in 1 .. n
      BY <2>1, <1>2
    <3>2. SubSeq(out, 1, k + 1) = SubSeq(out, 1, (k + 1) - 1) \o <<out[k + 1]>>
      BY <3>1, SubSeqRecursiveSecond
    <3>3. part \in Seq(Nat)
      BY <2>1, <1>2, SubSeqProperties
    <3>. QED  BY <2>1, <2>2, <3>2, <3>3
  <2>. HIDE DEF d, part
  <2>8. /\ DOMAIN st[k + 1] = Fields /\ st[k + 1].rb = st[k].rb
        /\ st[k + 1].out = Append(st[k].out, d) /\ st[k + 1].ne = Max({st[k].ne, d + 1})
        /\ st[k + 1].g = st[k].g /\ st[k + 1].fc = st[k].fc
    <3>1. DOMAIN st[k] = Fields
      BY <2>3
    <3>2. Delivered(st[k], Deliver(st[k], d, late), d, late)
      BY <3>1, DeliverFields
    <3>3. Delivered(st[k], st[k + 1], d, late)
      BY <2>2, <3>2
    <3>. QED  BY <3>3 DEF Delivered
  <2>5. st[k + 1].out = w.out \o SubSeq(out, 1, k + 1)
    <3>1. st[k + 1].out = Append(w.out \o part, d)
      BY <2>3, <2>8
    <3>2. Append(w.out \o part, d) = (w.out \o part) \o <<d>>
      BY <2>2, <2>4, AppendIsConcat, ConcatProperties
    <3>3. (w.out \o part) \o <<d>> = w.out \o (part \o <<d>>)
      <4>1. w.out \in Seq(Nat)
        OBVIOUS
      <4>. QED  BY <2>4, <4>1, Grouped
    <3>. QED  BY <2>4, <3>1, <3>2, <3>3
  <2>6. st[k + 1].ne \in Nat
    <3>1. st[k + 1].ne = Max({st[k].ne, d + 1}) /\ d + 1 \in Nat
      BY <2>2, <2>8
    <3>2. Max({st[k].ne, d + 1}) \in {st[k].ne, d + 1}
      BY <2>3, <3>1, MaxOfTwo
    <3>. QED  BY <2>3, <3>1, <3>2
  <2>7. Fit(k + 1)
    BY <2>3, <2>5, <2>6, <2>8
  <2>. HIDE DEF Fit
  <2>. QED  BY <2>1, <2>7
<1>. HIDE DEF S, Fit, n
<1>5. Fit(n)
  <2>1. 0 .. n \subseteq S
    BY <1>2, <1>3, <1>4, IntervalInduction
  <2>. QED  BY <1>2, <2>1 DEF S
<1>6. SubSeq(out, 1, n) = out
  BY SubSeqFull DEF n
<1>. QED  BY <1>1, <1>5, <1>6 DEF Fit, HandedOn

(***************************************************************************)
(* The debug check o of the deliveries h below the frontier n has raised   *)
(* nothing: what it remembers as early was delivered, and what it does not *)
(* remember as a hole was delivered or is too old to tell.                 *)
(***************************************************************************)
Told(o, h, n) ==
    /\ o \in [floor : Nat, holes : SUBSET Nat, early : SUBSET Nat, ok : BOOLEAN]
    /\ o.ok = TRUE
    /\ o.floor <= n
    /\ o.early \subseteq ToSet(h)
    /\ \A s \in Nat : s < o.floor => \/ s \in ToSet(h)
                                    \/ s \in o.holes
                                    \/ s + PendingSpanMax < o.floor

(* What one more element adds.                                             *)
LEMMA OneMore ==
    ASSUME NEW h \in Seq(Nat), NEW d \in Nat
    PROVE  Append(h, d) \in Seq(Nat) /\ ToSet(Append(h, d)) = ToSet(h) \cup {d}
<1> DEFINE one == <<d>>
<1>1. one \in Seq(Nat) /\ ToSet(one) = {d} /\ Append(h, d) = h \o one
  BY AppendIsConcat DEF ToSet
<1>. HIDE DEF one
<1>2. h \o one \in Seq(Nat) /\ ToSet(h \o one) = ToSet(h) \cup ToSet(one)
  BY <1>1, JoinedSets
<1>. QED  BY <1>1, <1>2

(* A new delivery at or above the frontier is declared on time.            *)
LEMMA CheckOnTime ==
    ASSUME NEW o, NEW h \in Seq(Nat), NEW n \in Nat, Told(o, h, n),
           NEW d \in Nat, n <= d, d \notin ToSet(h)
    PROVE  Told(check(o, d, FALSE), Append(h, d), d + 1)
<1> DEFINE skipped == o.floor .. d - 1
           v == [floor |-> d + 1,
                 early |-> o.early \ skipped,
                 holes |-> {q \in o.holes \cup (skipped \ o.early) : q > d - PendingSpanMax},
                 ok    |-> o.ok /\ d >= o.floor /\ d \notin o.early]
           g == Append(h, d)
<1>1. check(o, d, FALSE) = v
  BY DEF check
<1>2. /\ o.floor \in Nat /\ o.holes \in SUBSET Nat /\ o.early \in SUBSET Nat /\ o.ok = TRUE
      /\ o.floor <= n /\ o.early \subseteq ToSet(h)
      /\ \A s \in Nat : s < o.floor => \/ s \in ToSet(h)
                                      \/ s \in o.holes
                                      \/ s + PendingSpanMax < o.floor
  BY DEF Told
<1>3. ToSet(g) = ToSet(h) \cup {d} /\ PendingSpanMax \in Nat
  BY OneMore, PendingAssumption
<1>. HIDE DEF g
<1>4. v.ok = TRUE
  <2>1. d >= o.floor /\ d \notin o.early
    BY <1>2
  <2>. QED  BY <1>2, <2>1
<1>5. v \in [floor : Nat, holes : SUBSET Nat, early : SUBSET Nat, ok : BOOLEAN]
  <2>1. skipped \in SUBSET Nat
    BY <1>2
  <2>2. v.holes \in SUBSET Nat /\ v.early \in SUBSET Nat /\ v.floor \in Nat /\ v.ok \in BOOLEAN
    BY <1>2, <2>1
  <2>. HIDE DEF skipped
  <2>. QED  BY <2>2
<1>6. ASSUME NEW s \in Nat, s < d + 1
      PROVE  s \in ToSet(g) \/ s \in v.holes \/ s + PendingSpanMax < d + 1
  <2>1. CASE s = d
    BY <1>3, <2>1
  <2>2. CASE s < o.floor
    <3>1. s \in ToSet(h) \/ s \in o.holes \/ s + PendingSpanMax < o.floor
      BY <1>2, <2>2
    <3>2. s \in o.holes => s \in v.holes \/ s + PendingSpanMax < d + 1
      BY <1>3
    <3>3. s + PendingSpanMax < o.floor => s + PendingSpanMax < d + 1
      BY <1>2, <1>3
    <3>. QED  BY <1>3, <3>1, <3>2, <3>3
  <2>3. CASE o.floor <= s /\ s # d
    <3>1. s \in skipped
      BY <1>2, <1>6, <2>3
    <3>2. s \in o.early \/ s \in v.holes \/ s + PendingSpanMax < d + 1
      BY <1>3, <3>1
    <3>. QED  BY <1>2, <1>3, <3>2
  <2>. QED  BY <1>2, <2>1, <2>2, <2>3
<1>7. v.floor = d + 1 /\ v.early \subseteq ToSet(g)
  BY <1>2, <1>3
<1>. HIDE DEF v
<1>8. v.floor <= d + 1
  BY <1>7
<1>. QED  BY <1>1, <1>4, <1>5, <1>6, <1>7, <1>8 DEF Told, g

(* A new delivery below the frontier is declared late.                     *)
LEMMA CheckLate ==
    ASSUME NEW o, NEW h \in Seq(Nat), NEW n \in Nat, Told(o, h, n),
           NEW d \in Nat, d < n, d \notin ToSet(h)
    PROVE  Told(check(o, d, TRUE), Append(h, d), n)
<1> DEFINE v == check(o, d, TRUE)
           g == Append(h, d)
<1>1. /\ o \in [floor : Nat, holes : SUBSET Nat, early : SUBSET Nat, ok : BOOLEAN]
      /\ o.floor \in Nat /\ o.holes \in SUBSET Nat /\ o.early \in SUBSET Nat /\ o.ok = TRUE
      /\ o.floor <= n /\ o.early \subseteq ToSet(h)
      /\ \A s \in Nat : s < o.floor => \/ s \in ToSet(h)
                                      \/ s \in o.holes
                                      \/ s + PendingSpanMax < o.floor
  BY DEF Told
<1>2. ToSet(g) = ToSet(h) \cup {d} /\ PendingSpanMax \in Nat
  BY OneMore, PendingAssumption
<1>. HIDE DEF g
<1>3. CASE d >= o.floor
  <2>1. v = [o EXCEPT !.early = @ \cup {d}, !.ok = @ /\ d \notin o.early]
    BY <1>3 DEF check
  <2>2. d \notin o.early
    BY <1>1
  <2>3. /\ v.floor = o.floor /\ v.holes = o.holes /\ v.early = o.early \cup {d} /\ v.ok = TRUE
        /\ v \in [floor : Nat, holes : SUBSET Nat, early : SUBSET Nat, ok : BOOLEAN]
    BY <1>1, <2>1, <2>2, ZenonT(40)
  <2>. HIDE DEF v
  <2>. QED  BY <1>1, <1>2, <2>3 DEF Told, v, g
<1>4. CASE ~(d >= o.floor)
  <2>1. v = [o EXCEPT !.holes = @ \ {d},
                      !.ok = @ /\ (d \in o.holes \/ d + PendingSpanMax < o.floor)]
    BY <1>4 DEF check
  <2>2. d \in o.holes \/ d + PendingSpanMax < o.floor
    BY <1>1, <1>4
  <2>3. /\ v.floor = o.floor /\ v.holes = o.holes \ {d} /\ v.early = o.early /\ v.ok = TRUE
        /\ v \in [floor : Nat, holes : SUBSET Nat, early : SUBSET Nat, ok : BOOLEAN]
    BY <1>1, <2>1, <2>2
  <2>. HIDE DEF v
  <2>. QED  BY <1>1, <1>2, <2>3 DEF Told, v, g
<1>. QED  BY <1>3, <1>4

(* More deliveries, and a frontier further on, leave it so.                *)
LEMMA ToldOn ==
    ASSUME NEW o, NEW h, NEW n \in Nat, Told(o, h, n),
           NEW g, ToSet(h) \subseteq ToSet(g), NEW m \in Nat, n <= m
    PROVE  Told(o, g, m)
<1>1. o.floor \in Nat /\ o.floor <= n
  BY DEF Told
<1>2. o.floor <= m
  BY <1>1
<1>. QED  BY <1>2 DEF Told

(***************************************************************************)
(* A working state that has handed over nothing beyond its frontier, and   *)
(* told the debug check no lie.                                            *)
(***************************************************************************)
Ahead(w) ==
    /\ DOMAIN w = Fields
    /\ w.out \in Seq(Nat)
    /\ w.ne \in Nat
    /\ Told(w.o, w.out, w.ne)
    /\ \A s \in ToSet(w.out) : s < w.ne

(* One delivery at or above the frontier takes it there.                   *)
LEMMA DeliverOnTime ==
    ASSUME NEW w, Ahead(w), NEW d \in Nat, w.ne <= d
    PROVE  Ahead(Deliver(w, d, FALSE)) /\ Deliver(w, d, FALSE).ne = d + 1
<1> DEFINE v == Deliver(w, d, FALSE)
           h == w.out
           n == w.ne
           o == w.o
<1>1. /\ DOMAIN w = Fields /\ h \in Seq(Nat) /\ n \in Nat /\ Told(o, h, n)
      /\ \A s \in ToSet(h) : s < n
  BY DEF Ahead
<1>2. Delivered(w, v, d, FALSE)
  BY <1>1, DeliverFields
<1>3. DOMAIN v = Fields /\ v.out = Append(h, d) /\ v.o = check(o, d, FALSE) /\ v.ne = Max({n, d + 1})
  BY <1>2 DEF Delivered
<1>4. n <= d
  OBVIOUS
<1>. HIDE DEF v, h, n, o
<1>5. ToSet(h) \in SUBSET Nat
  BY <1>1, PendingFinite
<1>6. d \notin ToSet(h)
  BY <1>1, <1>4, <1>5
<1>7. Told(check(o, d, FALSE), Append(h, d), d + 1)
  BY <1>1, <1>4, <1>6, CheckOnTime
<1>8. Append(h, d) \in Seq(Nat) /\ ToSet(Append(h, d)) = ToSet(h) \cup {d}
  BY <1>1, OneMore
<1>9. v.ne = d + 1
  <2>1. d + 1 \in Nat
    OBVIOUS
  <2>2. Max({n, d + 1}) \in {n, d + 1} /\ Max({n, d + 1}) >= d + 1
    BY <1>1, <2>1, MaxOfTwo
  <2>. QED  BY <1>1, <1>3, <1>4, <2>2
<1>10. \A s \in ToSet(v.out) : s < v.ne
  BY <1>1, <1>3, <1>4, <1>5, <1>8, <1>9
<1>11. Ahead(v)
  <2>1. v.out \in Seq(Nat) /\ v.ne \in Nat /\ Told(v.o, v.out, v.ne)
    <3>1. d + 1 \in Nat
      OBVIOUS
    <3>2. v.ne \in Nat
      BY <1>9, <3>1
    <3>3. v.out \in Seq(Nat)
      BY <1>3, <1>8
    <3>4. Told(v.o, v.out, v.ne)
      BY <1>3, <1>7, <1>9, Zenon
    <3>. QED  BY <3>2, <3>3, <3>4
  <2>. QED  BY <1>3, <1>10, <2>1 DEF Ahead
<1>. QED  BY <1>9, <1>11 DEF v

(* One late delivery leaves the frontier where it is.                      *)
LEMMA DeliverLate ==
    ASSUME NEW w, Ahead(w), NEW d \in Nat, d < w.ne, d \notin ToSet(w.out)
    PROVE  Ahead(Deliver(w, d, TRUE)) /\ Deliver(w, d, TRUE).ne = w.ne
<1> DEFINE v == Deliver(w, d, TRUE)
           h == w.out
           n == w.ne
           o == w.o
<1>1. /\ DOMAIN w = Fields /\ h \in Seq(Nat) /\ n \in Nat /\ Told(o, h, n)
      /\ \A s \in ToSet(h) : s < n
  BY DEF Ahead
<1>2. Delivered(w, v, d, TRUE)
  BY <1>1, DeliverFields
<1>3. DOMAIN v = Fields /\ v.out = Append(h, d) /\ v.o = check(o, d, TRUE) /\ v.ne = Max({n, d + 1})
  BY <1>2 DEF Delivered
<1>4. d < n /\ d \notin ToSet(h)
  OBVIOUS
<1>. HIDE DEF v, h, n, o
<1>5. ToSet(h) \in SUBSET Nat
  BY <1>1, PendingFinite
<1>7. Told(check(o, d, TRUE), Append(h, d), n)
  BY <1>1, <1>4, CheckLate
<1>8. Append(h, d) \in Seq(Nat) /\ ToSet(Append(h, d)) = ToSet(h) \cup {d}
  BY <1>1, OneMore
<1>9. v.ne = n
  <2>1. d + 1 \in Nat
    OBVIOUS
  <2>2. Max({n, d + 1}) \in {n, d + 1} /\ Max({n, d + 1}) >= n
    BY <1>1, <2>1, MaxOfTwo
  <2>. QED  BY <1>1, <1>3, <1>4, <2>2
<1>10. \A s \in ToSet(v.out) : s < v.ne
  BY <1>1, <1>3, <1>4, <1>5, <1>8, <1>9
<1>11. Ahead(v)
  BY <1>1, <1>3, <1>7, <1>8, <1>9, <1>10 DEF Ahead
<1>. QED  BY <1>9, <1>11 DEF v, n

(***************************************************************************)
(* The deliveries of a climb take the frontier to its end.                 *)
(***************************************************************************)
LEMMA DeliveriesAhead ==
    ASSUME NEW w, Ahead(w), NEW out, Climb(w.ne, out)
    PROVE  /\ Ahead(Deliveries(w, out, FALSE))
           /\ Deliveries(w, out, FALSE).ne = Ends(w.ne, out)
<1> DEFINE n == Len(out)
           ne == w.ne
<1>1. /\ out \in Seq(Nat) /\ \A i \in 1 .. n : ne <= out[i]
      /\ \A i, k \in 1 .. n : i < k => out[i] < out[k]
  BY DEF Climb
<1>st. PICK st : Stages(st, w, out, FALSE)
  BY <1>1, DeliverySteps
<1>2. /\ st[0] = w
      /\ \A k \in 1 .. n : st[k] = Deliver(st[k - 1], out[k], FALSE)
      /\ Deliveries(w, out, FALSE) = st[n]
  BY <1>st DEF Stages
<1> DEFINE Fit(k) == Ahead(st[k]) /\ st[k].ne = IF k = 0 THEN ne ELSE out[k] + 1
           S == {k \in 0 .. n : Fit(k)}
<1>3. /\ n \in Nat /\ n \in 0 .. n /\ 0 \in 0 .. n /\ \A k \in 1 .. n : out[k] \in Nat
      /\ ne \in Nat
  BY <1>1 DEF Ahead
<1>4. 0 \in S
  BY <1>2, <1>3
<1>5. ASSUME NEW k \in 0 .. n - 1, k \in S
      PROVE  k + 1 \in S
  <2> DEFINE d == out[k + 1]
  <2>1. k + 1 \in 1 .. n /\ (k + 1) - 1 = k /\ k + 1 \in 0 .. n /\ d \in Nat /\ k + 1 # 0
    BY <1>3
  <2>2. Ahead(st[k]) /\ st[k].ne = IF k = 0 THEN ne ELSE out[k] + 1
    BY <1>5
  <2>3. st[k + 1] = Deliver(st[k], d, FALSE)
    BY <1>2, <2>1
  <2>4. st[k].ne <= d
    <3>1. CASE k = 0
      BY <1>1, <2>1, <2>2, <3>1
    <3>2. CASE k # 0
      <4>1. k \in 1 .. n /\ k < k + 1 /\ out[k] \in Nat
        BY <1>3, <3>2
      <4>2. out[k] < d
        BY <1>1, <2>1, <4>1
      <4>3. st[k].ne = out[k] + 1
        BY <2>2, <3>2
      <4>. HIDE DEF d
      <4>. QED  BY <2>1, <4>1, <4>2, <4>3
    <3>. QED  BY <3>1, <3>2
  <2>5. Ahead(Deliver(st[k], d, FALSE)) /\ Deliver(st[k], d, FALSE).ne = d + 1
    BY <2>1, <2>2, <2>4, DeliverOnTime
  <2>6. Ahead(st[k + 1]) /\ st[k + 1].ne = out[k + 1] + 1
    BY <2>3, <2>5
  <2>7. Fit(k + 1)
    BY <2>1, <2>6
  <2>. HIDE DEF Fit
  <2>. QED  BY <2>1, <2>7
<1>. HIDE DEF S, Fit
<1>6. Fit(n)
  <2>1. 0 .. n \subseteq S
    BY <1>3, <1>4, <1>5, IntervalInduction
  <2>. QED  BY <1>3, <2>1 DEF S
<1>7. Ends(ne, out) = IF n = 0 THEN ne ELSE out[n] + 1
  <2>1. out = <<>> <=> n = 0
    BY <1>1
  <2>. QED  BY <2>1 DEF Ends
<1>. QED  BY <1>2, <1>6, <1>7 DEF Fit

(* A late push hands over its one symbol.                                  *)
LEMMA DeliveriesLate ==
    ASSUME NEW w, NEW d \in Nat
    PROVE  Deliveries(w, <<d>>, TRUE) = Deliver(w, d, TRUE)
<1> DEFINE out == <<d>>
<1>1. out \in Seq(Nat) /\ Len(out) = 1 /\ out[1] = d /\ 1 \in 1 .. 1 /\ 1 - 1 = 0
  OBVIOUS
<1>. HIDE DEF out
<1>st. PICK st : Stages(st, w, out, TRUE)
  BY <1>1, DeliverySteps
<1>2. /\ st[0] = w
      /\ \A k \in 1 .. Len(out) : st[k] = Deliver(st[k - 1], out[k], TRUE)
      /\ Deliveries(w, out, TRUE) = st[Len(out)]
  BY <1>st DEF Stages
<1>3. st[1] = Deliver(st[1 - 1], out[1], TRUE)
  BY <1>1, <1>2
<1>. QED  BY <1>1, <1>2, <1>3 DEF out

(***************************************************************************)
(* A working state that holds or has handed over the seqs H, each once.    *)
(***************************************************************************)
Holds(w, H) ==
    /\ DOMAIN w = Fields
    /\ w.ne \in Nat
    /\ w.rb \in Buffers
    /\ OneToOne(w.rb.pending)
    /\ w.out \in Seq(Nat)
    /\ OneToOne(w.out)
    /\ ToSet(w.out) \cap ToSet(w.rb.pending) = {}
    /\ ToSet(w.out) \cup ToSet(w.rb.pending) = H

(* The sweep of the gauge leaves both alone.                               *)
LEMMA SweepHolds ==
    ASSUME NEW w, NEW H, Holds(w, H)
    PROVE  /\ Holds(Sweep(w), H)
           /\ Sweep(w).rb = w.rb /\ Sweep(w).out = w.out /\ Sweep(w).ne = w.ne
           /\ Sweep(w).fc = w.fc
<1>1. /\ DOMAIN Sweep(w) = Fields /\ Sweep(w).rb = w.rb /\ Sweep(w).out = w.out
      /\ Sweep(w).ne = w.ne /\ Sweep(w).fc = w.fc
  BY DEF Sweep, Holds, Fields
<1>. QED  BY <1>1 DEF Holds

(* Handing over what an operation on the hold releases.                    *)
LEMMA HandsOver ==
    ASSUME NEW out \in Seq(Nat), OneToOne(out), NEW rb \in Buffers, NEW P,
           NEW r, Moves(P, r), ToSet(out) \cap P = {}
    PROVE  /\ out \o r.out \in Seq(Nat)
           /\ OneToOne(out \o r.out)
           /\ ToSet(out \o r.out) \cap ToSet(r.rb.pending) = {}
           /\ ToSet(out \o r.out) \cup ToSet(r.rb.pending) = ToSet(out) \cup P
<1>1. /\ r.out \in Seq(Nat) /\ OneToOne(r.out)
      /\ ToSet(r.out) \cap ToSet(r.rb.pending) = {}
      /\ ToSet(r.out) \cup ToSet(r.rb.pending) = P
  BY DEF Moves
<1>2. ToSet(out) \cap ToSet(r.out) = {} /\ ToSet(out) \cap ToSet(r.rb.pending) = {}
  BY <1>1
<1>3. /\ out \o r.out \in Seq(Nat) /\ OneToOne(out \o r.out)
      /\ ToSet(out \o r.out) = ToSet(out) \cup ToSet(r.out)
  BY <1>1, <1>2, JoinedSets
<1>. QED  BY <1>1, <1>2, <1>3

(***************************************************************************)
(* One recovered seq that is new is held or handed over.                   *)
(***************************************************************************)
LEMMA PushHands ==
    ASSUME NEW w, NEW H, Holds(w, H), NEW seq \in Nat, seq \notin H
    PROVE  Holds(push_symbol(w, seq), H \cup {seq})
<1> DEFINE late == seq < w.rb.next
           pushed == push(w.rb, seq)
           passed == pushed.rb.next - w.rb.next
           next == [w EXCEPT !.rb = pushed.rb, !.ab = @ \ {seq},
                             !.fc = IF late THEN @ ELSE @ + passed - Len(pushed.out)]
           P == ToSet(w.rb.pending)
           fed == Deliveries(next, pushed.out, late)
<1>1. push_symbol(w, seq) = Sweep(fed)
  BY DEF push_symbol
<1>2. /\ w.rb \in Buffers /\ OneToOne(w.rb.pending) /\ seq \notin P
      /\ w.out \in Seq(Nat) /\ OneToOne(w.out) /\ ToSet(w.out) \cap P = {}
      /\ ToSet(w.out) \cup P = H /\ DOMAIN w = Fields /\ w.ne \in Nat
  BY DEF Holds
<1>. HIDE DEF P
<1>3. Moves(P \cup {seq}, pushed)
  BY <1>2, PushMoves DEF P
<1>4. /\ DOMAIN next = Fields /\ next.rb = pushed.rb /\ next.out = w.out /\ next.ne = w.ne
      /\ next.g = w.g
  BY <1>2 DEF Fields
<1>. HIDE DEF pushed, next, late
<1>5. pushed.out \in Seq(Nat) /\ pushed.rb \in Buffers /\ OneToOne(pushed.rb.pending)
  BY <1>3 DEF Moves
<1>6. /\ DOMAIN fed = Fields /\ fed.rb = pushed.rb /\ fed.out = w.out \o pushed.out
      /\ fed.ne \in Nat
  <2>1. HandedOn(next, fed, pushed.out)
    BY <1>2, <1>4, <1>5, DeliveriesHand
  <2>. QED  BY <1>4, <2>1 DEF HandedOn
<1>. HIDE DEF fed
<1>7. ToSet(w.out) \cap (P \cup {seq}) = {} /\ ToSet(w.out) \cup (P \cup {seq}) = H \cup {seq}
  BY <1>2
<1>8. /\ w.out \o pushed.out \in Seq(Nat) /\ OneToOne(w.out \o pushed.out)
      /\ ToSet(w.out \o pushed.out) \cap ToSet(pushed.rb.pending) = {}
      /\ ToSet(w.out \o pushed.out) \cup ToSet(pushed.rb.pending) = H \cup {seq}
  <2>1. /\ w.out \o pushed.out \in Seq(Nat) /\ OneToOne(w.out \o pushed.out)
        /\ ToSet(w.out \o pushed.out) \cap ToSet(pushed.rb.pending) = {}
        /\ ToSet(w.out \o pushed.out) \cup ToSet(pushed.rb.pending)
              = ToSet(w.out) \cup (P \cup {seq})
    BY <1>2, <1>3, <1>7, HandsOver
  <2>. QED  BY <1>7, <2>1
<1>9. Holds(fed, H \cup {seq})
  BY <1>5, <1>6, <1>8 DEF Holds
<1>. QED  BY <1>1, <1>9, SweepHolds

(***************************************************************************)
(* An expiry hands over what it releases from the hold.                    *)
(***************************************************************************)
LEMMA ExpireHands ==
    ASSUME NEW w, NEW H, Holds(w, H), NEW j \in 0 .. Len(w.rb.pending)
    PROVE  Holds(Expire(w, j), H)
<1> DEFINE r == drain_expired(w.rb, j)
           P == ToSet(w.rb.pending)
           ends == {w.ne} \cup {s + 1 : s \in ToSet(r.out)}
           v == Expire(w, j)
<1>1. /\ w.rb \in Buffers /\ OneToOne(w.rb.pending) /\ w.out \in Seq(Nat) /\ OneToOne(w.out)
      /\ ToSet(w.out) \cap P = {} /\ ToSet(w.out) \cup P = H /\ DOMAIN w = Fields
      /\ w.ne \in Nat
  BY DEF Holds
<1>2. Moves(P, r)
  BY <1>1, ExpiryMoves
<1>3. v = [w EXCEPT !.rb = r.rb, !.out = @ \o r.out, !.ne = Max({@} \cup {s + 1 : s \in ToSet(r.out)})]
  BY DEF Expire
<1>4. /\ DOMAIN v = Fields /\ v.rb = r.rb /\ v.out = w.out \o r.out /\ v.ne = Max(ends)
  BY <1>1, <1>3 DEF Fields
<1>5. r.out \in Seq(Nat) /\ r.rb \in Buffers /\ OneToOne(r.rb.pending)
  BY <1>2 DEF Moves
<1>. HIDE DEF r, v, P
<1>6. Max(ends) \in Nat
  <2>1. ends \in SUBSET Nat /\ ends # {}
    <3>1. ToSet(r.out) \in SUBSET Nat
      BY <1>5, PendingFinite
    <3>. QED  BY <1>1, <3>1
  <2>2. IsFiniteSet(ends)
    <3>1. IsFiniteSet(ToSet(r.out))
      BY <1>5, PendingFinite
    <3>2. IsFiniteSet({s + 1 : s \in ToSet(r.out)})
      <4> DEFINE up == [s \in ToSet(r.out) |-> s + 1]
      <4>1. up \in Surjection(ToSet(r.out), {s + 1 : s \in ToSet(r.out)})
        BY DEF Surjection
      <4>. QED  BY <3>1, <4>1, FS_Surjection
    <3>. QED  BY <3>2, FS_Singleton, FS_Union
  <2>3. Max(ends) \in ends
    <3>1. ends \in SUBSET Int
      BY <2>1
    <3>. HIDE DEF ends
    <3>. QED  BY <2>1, <2>2, <3>1, MaxMember
  <2>. QED  BY <2>1, <2>3
<1>7. /\ w.out \o r.out \in Seq(Nat) /\ OneToOne(w.out \o r.out)
      /\ ToSet(w.out \o r.out) \cap ToSet(r.rb.pending) = {}
      /\ ToSet(w.out \o r.out) \cup ToSet(r.rb.pending) = ToSet(w.out) \cup P
  BY <1>1, <1>2, HandsOver
<1>. HIDE DEF ends
<1>. QED  BY <1>1, <1>4, <1>5, <1>6, <1>7 DEF Holds, v

-----------------------------------------------------------------------------
(* Below the frontier n, what of h came in order and what was given up.     *)
Tally(n, h, shed, fc) ==
    /\ shed \in Int
    /\ fc \in Int
    /\ n = Cardinality(Records(h)) + shed + fc

(***************************************************************************)
(* A working state whose frontiers agree: every seq below was handed over  *)
(* in order, or given up, by an expiry (shed of them) or for capacity.     *)
(***************************************************************************)
Leads(w, shed) ==
    /\ Ahead(w)
    /\ w.ne = w.rb.next
    /\ \A s \in ToSet(w.rb.pending) : s >= w.rb.next
    /\ w.rb.next = 0 \/ w.rb.next - 1 \in ToSet(w.out)
    /\ Tally(w.rb.next, w.out, shed, w.fc)

(* The sweep of the gauge leaves it alone.                                 *)
LEMMA SweepLeads ==
    ASSUME NEW w, NEW shed, Leads(w, shed)
    PROVE  Leads(Sweep(w), shed)
<1>1. DOMAIN w = Fields
  BY DEF Leads, Ahead
<1>2. /\ DOMAIN Sweep(w) = Fields /\ Sweep(w).rb = w.rb /\ Sweep(w).out = w.out
      /\ Sweep(w).ne = w.ne /\ Sweep(w).fc = w.fc /\ Sweep(w).o = w.o
  BY <1>1 DEF Sweep, Fields
<1>. QED  BY <1>2 DEF Leads, Ahead

(* The frontier a climb leads to follows a seq that was handed over.       *)
LEMMA EndsHanded ==
    ASSUME NEW n \in Nat, NEW h \in Seq(Nat), NEW out, Climb(n, out),
           n = 0 \/ n - 1 \in ToSet(h)
    PROVE  Ends(n, out) = 0 \/ Ends(n, out) - 1 \in ToSet(h \o out)
<1>1. out \in Seq(Nat)
  BY DEF Climb
<1>2. ToSet(h \o out) = ToSet(h) \cup ToSet(out)
  BY <1>1, JoinedSets
<1>3. CASE out = <<>>
  BY <1>2, <1>3 DEF Ends
<1>4. CASE out # <<>>
  <2> DEFINE last == out[Len(out)]
  <2>1. Len(out) \in DOMAIN out /\ last \in Nat
    BY <1>1, <1>4
  <2>2. last \in ToSet(out)
    BY <2>1 DEF ToSet
  <2>3. Ends(n, out) = last + 1
    BY <1>4 DEF Ends
  <2>. HIDE DEF last
  <2>. QED  BY <1>2, <2>1, <2>2, <2>3
<1>. QED  BY <1>3, <1>4

(***************************************************************************)
(* The count of what a step of the frontier from n to Ends(n, out) hands   *)
(* over in order and what it passes over.                                  *)
(***************************************************************************)
LEMMA ClimbCounted ==
    ASSUME NEW n \in Nat, NEW h \in Seq(Nat), \A s \in ToSet(h) : s < n,
           NEW out, Climb(n, out), NEW shed, NEW fc, Tally(n, h, shed, fc)
    PROVE  /\ Tally(Ends(n, out), h \o out, shed, fc + (Ends(n, out) - n) - Len(out))
           /\ Tally(Ends(n, out), h \o out, shed + (Ends(n, out) - n) - Len(out), fc)
<1>1. Cardinality(Records(h \o out)) = Cardinality(Records(h)) + Len(out)
  BY RecordsClimb
<1>2. Cardinality(Records(h)) \in Nat /\ Ends(n, out) \in Nat
  BY RecordsFinite, ClimbEnds
<1>3. Len(out) \in Nat
  BY DEF Climb
<1>4. shed \in Int /\ fc \in Int /\ n = Cardinality(Records(h)) + shed + fc
  BY DEF Tally
<1> DEFINE e == Ends(n, out)
           l == Len(out)
           c == Cardinality(Records(h))
           all == Cardinality(Records(h \o out))
<1>. HIDE DEF e, l, c, all
<1>5. c \in Int /\ l \in Int /\ e \in Int /\ all = c + l /\ n = c + shed + fc
  BY <1>1, <1>2, <1>3, <1>4 DEF e, l, c, all
<1>6. e = all + shed + (fc + (e - n) - l) /\ e = all + (shed + (e - n) - l) + fc
  <2>1. /\ shed \in Int /\ fc \in Int /\ c \in Int /\ l \in Int /\ e \in Int
        /\ all = c + l /\ n = c + shed + fc
    BY <1>4, <1>5
  <2>2. /\ e = (c + l) + shed + (fc + (e - (c + shed + fc)) - l)
        /\ e = (c + l) + (shed + (e - (c + shed + fc)) - l) + fc
    BY <2>1
  <2>. QED  BY <2>1, <2>2
<1>7. fc + (e - n) - l \in Int /\ shed + (e - n) - l \in Int
  BY <1>4, <1>5
<1>. QED  BY <1>4, <1>6, <1>7 DEF Tally, e, l, all

(***************************************************************************)
(* One recovered seq that is new leaves the frontiers in agreement.        *)
(***************************************************************************)
LEMMA PushLeads ==
    ASSUME NEW w, NEW H, Holds(w, H), NEW shed, Leads(w, shed),
           NEW seq \in Nat, seq \notin H
    PROVE  Leads(push_symbol(w, seq), shed)
<1> DEFINE late == seq < w.rb.next
           pushed == push(w.rb, seq)
           passed == pushed.rb.next - w.rb.next
           next == [w EXCEPT !.rb = pushed.rb, !.ab = @ \ {seq},
                             !.fc = IF late THEN @ ELSE @ + passed - Len(pushed.out)]
           fed == Deliveries(next, pushed.out, late)
           n == w.ne
           h == w.out
<1>1. push_symbol(w, seq) = Sweep(fed)
  BY DEF push_symbol
<1>2. /\ w.rb \in Buffers /\ OneToOne(w.rb.pending) /\ seq \notin ToSet(w.rb.pending)
      /\ seq \notin ToSet(h) /\ h \in Seq(Nat) /\ DOMAIN w = Fields
  BY DEF Holds
<1>3. /\ Ahead(w) /\ n \in Nat /\ n = w.rb.next /\ (\A s \in ToSet(w.rb.pending) : s >= n)
      /\ (n = 0 \/ n - 1 \in ToSet(h)) /\ Tally(n, h, shed, w.fc)
      /\ Told(w.o, h, n) /\ \A s \in ToSet(h) : s < n
  BY DEF Leads, Ahead
<1>4. /\ DOMAIN next = Fields /\ next.rb = pushed.rb /\ next.out = h /\ next.ne = n
      /\ next.o = w.o
      /\ next.fc = IF late THEN w.fc ELSE w.fc + passed - Len(pushed.out)
  BY <1>2 DEF Fields
<1>5. Moves(ToSet(w.rb.pending) \cup {seq}, pushed)
  BY <1>2, PushMoves
<1>6. pushed.out \in Seq(Nat) /\ pushed.rb \in Buffers
  BY <1>5 DEF Moves
<1>. HIDE DEF next, n, h
<1>7. Ahead(next)
  BY <1>2, <1>3, <1>4 DEF Ahead
<1>8. HandedOn(next, fed, pushed.out)
  <2>. HIDE DEF late, pushed
  <2>. QED  BY <1>2, <1>3, <1>4, <1>6, DeliveriesHand, SMTT(20)
<1>9. /\ DOMAIN fed = Fields /\ fed.rb = pushed.rb /\ fed.out = h \o pushed.out
      /\ fed.fc = next.fc
  BY <1>4, <1>8 DEF HandedOn
<1>10. CASE seq < n
  <2>1. late = TRUE
    BY <1>3, <1>10
  <2>2. pushed = [rb |-> w.rb, out |-> <<seq>>]
    BY <1>3, <1>10 DEF push, Released
  <2>3. pushed.rb = w.rb /\ pushed.out = <<seq>>
    BY <2>2
  <2>4. fed = Deliver(next, seq, TRUE)
    BY <2>1, <2>3, DeliveriesLate
  <2>5. next.fc = w.fc
    BY <1>4, <2>1
  <2>. HIDE DEF fed, pushed, late
  <2>6. Ahead(fed) /\ fed.ne = n
    BY <1>2, <1>4, <1>7, <1>10, <2>4, DeliverLate
  <2>7. fed.out = Append(h, seq) /\ ToSet(fed.out) = ToSet(h) \cup {seq}
    <3>1. Append(h, seq) = h \o <<seq>>
      BY <1>2, AppendIsConcat
    <3>2. fed.out = Append(h, seq)
      BY <1>9, <2>3, <3>1
    <3>. QED  BY <1>2, <3>2, OneMore
  <2>8. Records(fed.out) = Records(h)
    <3>1. n - 1 \in ToSet(h) /\ seq <= n - 1
      BY <1>3, <1>10
    <3>. QED  BY <1>2, <2>7, <3>1, RecordsLate
  <2>9. Leads(fed, shed)
    BY <1>3, <1>9, <2>3, <2>5, <2>6, <2>7, <2>8 DEF Leads, Tally
  <2>. QED  BY <1>1, <2>9, SweepLeads
<1>11. CASE ~(seq < n)
  <2>1. late = FALSE
    BY <1>3, <1>11
  <2>2. Rises(n, pushed)
    BY <1>2, <1>3, <1>11, PushRises
  <2>3. next.fc = w.fc + (pushed.rb.next - n) - Len(pushed.out)
    BY <1>3, <1>4, <2>1
  <2>4. fed = Deliveries(next, pushed.out, FALSE)
    BY <2>1
  <2>. HIDE DEF fed, pushed, late
  <2> DEFINE out == pushed.out
  <2>5. /\ Climb(n, out) /\ pushed.rb.next = Ends(n, out)
        /\ \A s \in ToSet(pushed.rb.pending) : s >= pushed.rb.next
    BY <2>2 DEF Rises
  <2>6. Ahead(fed) /\ fed.ne = Ends(n, out)
    BY <1>4, <1>7, <2>4, <2>5, DeliveriesAhead
  <2>7. Ends(n, out) = 0 \/ Ends(n, out) - 1 \in ToSet(h \o out)
    BY <1>2, <1>3, <2>5, EndsHanded
  <2>8. Tally(Ends(n, out), h \o out, shed, w.fc + (Ends(n, out) - n) - Len(out))
    <3>. HIDE DEF out
    <3>. QED  BY <1>2, <1>3, <2>5, ClimbCounted
  <2>9. fed.fc = w.fc + (Ends(n, out) - n) - Len(out)
    BY <1>9, <2>3, <2>5
  <2>. HIDE DEF out
  <2>10. Leads(fed, shed)
    <3>1. fed.out = h \o out
      BY <1>9 DEF out
    <3>2. fed.rb.next = Ends(n, out)
      BY <1>9, <2>5
    <3>3. \A s \in ToSet(fed.rb.pending) : s >= fed.rb.next
      BY <1>9, <2>5
    <3>. QED  BY <2>6, <2>7, <2>8, <2>9, <3>1, <3>2, <3>3 DEF Leads
  <2>. QED  BY <1>1, <2>10, SweepLeads
<1>. QED  BY <1>10, <1>11

(* A set with a greatest member has it for its Max.                        *)
LEMMA MaxIs ==
    ASSUME NEW S \in SUBSET Int, NEW m \in S, \A s \in S : s <= m
    PROVE  Max(S) = m
<1> DEFINE x == CHOOSE x \in S : \A s \in S : x >= s
<1>1. Max(S) = x
  BY DEF Max
<1>2. \A s \in S : m >= s
  OBVIOUS
<1>3. x \in S /\ \A s \in S : x >= s
  BY <1>2
<1>. HIDE DEF x
<1>4. x >= m /\ x <= m /\ x \in Int /\ m \in Int
  BY <1>3
<1>5. x = m
  BY <1>4
<1>. QED  BY <1>1, <1>5

(* The end of a climb is the greatest of its start and what follows each   *)
(* of its seqs.                                                            *)
LEMMA EndsIsMax ==
    ASSUME NEW n \in Nat, NEW out, Climb(n, out)
    PROVE  Max({n} \cup {s + 1 : s \in ToSet(out)}) = Ends(n, out)
<1> DEFINE S == {n} \cup {s + 1 : s \in ToSet(out)}
           e == Ends(n, out)
<1>1. out \in Seq(Nat) /\ DOMAIN out = 1 .. Len(out) /\ ToSet(out) \in SUBSET Nat
  BY PendingFinite DEF Climb
<1>2. e \in Nat /\ n <= e /\ \A i \in 1 .. Len(out) : out[i] < e
  BY ClimbEnds
<1>3. e \in S
  <2>1. CASE out = <<>>
    BY <2>1 DEF Ends
  <2>2. CASE out # <<>>
    <3> DEFINE last == out[Len(out)]
    <3>1. Len(out) \in DOMAIN out
      BY <1>1, <2>2
    <3>2. last \in ToSet(out)
      BY <3>1 DEF ToSet
    <3>3. e = last + 1
      BY <2>2 DEF Ends
    <3>. HIDE DEF last, e
    <3>. QED  BY <3>2, <3>3
  <2>. QED  BY <2>1, <2>2
<1>. HIDE DEF e
<1>4. \A s \in ToSet(out) : s < e
  BY <1>1, <1>2 DEF ToSet
<1>5. S \in SUBSET Int /\ \A s \in S : s <= e
  BY <1>1, <1>2, <1>4
<1>. HIDE DEF S
<1>6. Max(S) = e
  BY <1>3, <1>5, MaxIs
<1>. QED  BY <1>6 DEF S, e

(***************************************************************************)
(* An expiry leaves the frontiers in agreement, the holes it gives up      *)
(* counted.                                                                *)
(***************************************************************************)
Shed(shed, before, after) ==
    shed + (after.rb.next - before.rb.next) - (Len(after.out) - Len(before.out))

(* Giving up overdue holes keeps what is handed on ahead of the hold.      *)
LEMMA ExpireLeads ==
    ASSUME NEW w, NEW H, Holds(w, H), NEW shed, Leads(w, shed),
           NEW j \in 0 .. Len(w.rb.pending)
    PROVE  Leads(Expire(w, j), Shed(shed, w, Expire(w, j)))
<1> DEFINE r == drain_expired(w.rb, j)
           v == Expire(w, j)
           n == w.ne
           h == w.out
           out == r.out
           e == Ends(n, out)
<1>1. w.rb \in Buffers /\ OneToOne(w.rb.pending) /\ h \in Seq(Nat) /\ DOMAIN w = Fields
  BY DEF Holds
<1>2. /\ n \in Nat /\ n = w.rb.next /\ (\A s \in ToSet(w.rb.pending) : s >= n)
      /\ (n = 0 \/ n - 1 \in ToSet(h)) /\ Tally(n, h, shed, w.fc)
      /\ Told(w.o, h, n) /\ \A s \in ToSet(h) : s < n
  BY DEF Leads, Ahead
<1>3. v = [w EXCEPT !.rb = r.rb, !.out = @ \o r.out, !.ne = Max({@} \cup {s + 1 : s \in ToSet(r.out)})]
  BY DEF Expire
<1>4. /\ DOMAIN v = Fields /\ v.rb = r.rb /\ v.out = h \o out
      /\ v.ne = Max({n} \cup {s + 1 : s \in ToSet(out)}) /\ v.fc = w.fc /\ v.o = w.o
  BY <1>1, <1>3 DEF Fields
<1>5. Rises(n, r)
  BY <1>1, <1>2, ExpiryRises
<1>. HIDE DEF r, v, n, h
<1>6. Climb(n, out) /\ r.rb.next = e /\ \A s \in ToSet(r.rb.pending) : s >= e
  BY <1>5 DEF Rises
<1>7. out \in Seq(Nat)
  BY <1>6 DEF Climb
<1>. HIDE DEF out
<1>8. e \in Nat /\ n <= e /\ \A i \in 1 .. Len(out) : out[i] < e
  BY <1>2, <1>6, ClimbEnds
<1>9. v.ne = e
  BY <1>2, <1>4, <1>6, EndsIsMax
<1>10. e = 0 \/ e - 1 \in ToSet(h \o out)
  BY <1>1, <1>2, <1>6, EndsHanded
<1>11. Tally(e, h \o out, shed + (e - n) - Len(out), w.fc)
  <2>. HIDE DEF e
  <2>. QED  BY <1>1, <1>2, <1>6, ClimbCounted DEF e
<1>12. h \o out \in Seq(Nat) /\ ToSet(h \o out) = ToSet(h) \cup ToSet(out)
  BY <1>1, <1>7, JoinedSets
<1>13. \A s \in ToSet(out) : s < e
  BY <1>7, <1>8 DEF ToSet
<1>14. \A s \in ToSet(h \o out) : s < e
  <2>1. ToSet(h) \in SUBSET Nat
    BY <1>1, PendingFinite
  <2>. QED  BY <1>2, <1>8, <1>12, <1>13, <2>1
<1>15. Told(w.o, h \o out, e)
  BY <1>2, <1>8, <1>12, ToldOn
<1>16. Ahead(v)
  BY <1>4, <1>8, <1>9, <1>12, <1>14, <1>15 DEF Ahead
<1>17. Shed(shed, w, v) = shed + (e - n) - Len(out)
  <2>1. Len(h \o out) = Len(h) + Len(out) /\ Len(h) \in Nat /\ Len(out) \in Nat
    BY <1>1, <1>7
  <2>2. Shed(shed, w, v) = shed + (e - n) - ((Len(h) + Len(out)) - Len(h))
    BY <1>2, <1>4, <1>6, <2>1 DEF Shed, h
  <2>. QED  BY <2>1, <2>2
<1>18. Leads(v, Shed(shed, w, v))
  BY <1>4, <1>6, <1>9, <1>10, <1>11, <1>16, <1>17 DEF Leads
<1>. QED  BY <1>18 DEF v

-----------------------------------------------------------------------------
(***************************************************************************)
(* A gauge whose account adds up, its open holes below its high-water mark.*)
(***************************************************************************)
Gauge == [open : SUBSET Nat, hi : Int, det : Int, orig : Int, rep : Int, aban : Int, over : Int]

Accounts(g) ==
    /\ g \in Gauge
    /\ IsFiniteSet(g.open)
    /\ g.hi >= Unseen
    /\ \A s \in g.open : s < g.hi
    /\ g.det = g.orig + g.rep + g.aban + Cardinality(g.open) + g.over

(* What is taken from a finite set and what is left make up the whole.     *)
LEMMA SplitCount ==
    ASSUME NEW S, IsFiniteSet(S), NEW T
    PROVE  /\ IsFiniteSet(S \cap T) /\ IsFiniteSet(S \ T)
           /\ Cardinality(S) \in Nat /\ Cardinality(S \cap T) \in Nat /\ Cardinality(S \ T) \in Nat
           /\ Cardinality(S) = Cardinality(S \cap T) + Cardinality(S \ T)
<1> DEFINE A == S \cap T
           B == S \ T
<1>1. A \in SUBSET S /\ B \in SUBSET S /\ A \cup B = S /\ A \cap B = {}
  OBVIOUS
<1>. HIDE DEF A, B
<1>2. IsFiniteSet(A) /\ IsFiniteSet(B)
  BY <1>1, FS_Subset
<1>3. Cardinality(A \cup B) = Cardinality(A) + Cardinality(B) - Cardinality(A \cap B)
  BY <1>2, FS_Union
<1>4. Cardinality(A \cap B) = 0
  BY <1>1, FS_EmptySet
<1>5. Cardinality(S) \in Nat /\ Cardinality(A) \in Nat /\ Cardinality(B) \in Nat
  BY <1>2, FS_CardinalityType
<1>6. Cardinality(S) = Cardinality(A) + Cardinality(B)
  <2>1. Cardinality(A \cup B) = Cardinality(S)
    BY <1>1
  <2>2. Cardinality(A) \in Int /\ Cardinality(B) \in Int
    BY <1>5
  <2>. QED  BY <1>3, <1>4, <2>1, <2>2
<1>. QED  BY <1>2, <1>5, <1>6 DEF A, B

(* The holes an arrival closes are filled by it or by what it recovers.    *)
LEMMA ResolveAccounts ==
    ASSUME NEW g, Accounts(g), NEW R, NEW own
    PROVE  Accounts(resolve_at(g, R, own))
<1> DEFINE closed == R \cap g.open
           left == g.open \ closed
           o == Cardinality(closed \cap own)
           p == Cardinality(closed \ own)
           v == resolve_at(g, R, own)
<1>1. /\ g \in Gauge /\ IsFiniteSet(g.open) /\ g.hi >= Unseen /\ (\A s \in g.open : s < g.hi)
      /\ g.det = g.orig + g.rep + g.aban + Cardinality(g.open) + g.over
  BY DEF Accounts
<1>2. v = [g EXCEPT !.open = @ \ closed, !.orig = @ + o, !.rep = @ + p]
  BY DEF resolve_at
<1>3. /\ IsFiniteSet(left) /\ Cardinality(g.open) = Cardinality(closed) + Cardinality(left)
      /\ IsFiniteSet(closed) /\ Cardinality(closed) \in Nat /\ Cardinality(left) \in Nat
  <2>1. g.open \cap R = closed /\ g.open \ R = left
    OBVIOUS
  <2>. HIDE DEF closed, left
  <2>. QED  BY <1>1, <2>1, SplitCount
<1>. HIDE DEF closed
<1>4. o \in Nat /\ p \in Nat /\ Cardinality(closed) = o + p
  BY <1>3, SplitCount
<1>. HIDE DEF o, p, v
<1>5. /\ v.open = left /\ v.hi = g.hi /\ v.det = g.det /\ v.orig = g.orig + o /\ v.rep = g.rep + p
      /\ v.aban = g.aban /\ v.over = g.over /\ v \in Gauge
  <2> DEFINE x == g.orig + o
             y == g.rep + p
  <2>1. x \in Int /\ y \in Int /\ left \in SUBSET Nat
    BY <1>1, <1>4 DEF Gauge
  <2>2. v = [g EXCEPT !.open = left, !.orig = x, !.rep = y]
    BY <1>2
  <2>. HIDE DEF left, x, y
  <2>3. v = [open |-> left, hi |-> g.hi, det |-> g.det, orig |-> x, rep |-> y,
             aban |-> g.aban, over |-> g.over]
    BY <1>1, <2>2 DEF Gauge
  <2>4. /\ v.open = left /\ v.hi = g.hi /\ v.det = g.det /\ v.orig = x /\ v.rep = y
        /\ v.aban = g.aban /\ v.over = g.over /\ v \in Gauge
    BY <1>1, <2>1, <2>3 DEF Gauge
  <2>. QED  BY <2>4 DEF x, y
<1>6. \A s \in left : s < g.hi
  BY <1>1
<1>. HIDE DEF left
<1>7. v.det = v.orig + v.rep + v.aban + Cardinality(v.open) + v.over
  BY <1>1, <1>3, <1>4, <1>5 DEF Gauge
<1>8. Accounts(v)
  BY <1>1, <1>3, <1>5, <1>6, <1>7 DEF Accounts
<1>. QED  BY <1>8 DEF v

(* The holes the frontier has passed are abandoned.                        *)
LEMMA AbandonAccounts ==
    ASSUME NEW g, Accounts(g), NEW frontier
    PROVE  Accounts(abandon_below(g, frontier))
<1> DEFINE gone == Abandoned(g, frontier)
           left == g.open \ gone
           a == Cardinality(gone)
           v == abandon_below(g, frontier)
<1>1. /\ g \in Gauge /\ IsFiniteSet(g.open) /\ g.hi >= Unseen /\ (\A s \in g.open : s < g.hi)
      /\ g.det = g.orig + g.rep + g.aban + Cardinality(g.open) + g.over
  BY DEF Accounts
<1>2. v = [g EXCEPT !.open = @ \ gone, !.aban = @ + a]
  BY DEF abandon_below
<1>3. /\ IsFiniteSet(left) /\ Cardinality(g.open) = a + Cardinality(left)
      /\ a \in Nat /\ Cardinality(left) \in Nat
  <2>1. g.open \cap gone = gone
    BY DEF Abandoned
  <2>. HIDE DEF gone
  <2>. QED  BY <1>1, <2>1, SplitCount
<1>. HIDE DEF gone, a, v
<1>5. /\ v.open = left /\ v.hi = g.hi /\ v.det = g.det /\ v.orig = g.orig /\ v.rep = g.rep
      /\ v.aban = g.aban + a /\ v.over = g.over /\ v \in Gauge
  <2>1. g.aban + a \in Int /\ left \in SUBSET Nat
    BY <1>1, <1>3 DEF Gauge
  <2>2. \A S \in SUBSET Nat, b \in Int :
           LET u == [g EXCEPT !.open = S, !.aban = b]
           IN  /\ u \in Gauge /\ u.open = S /\ u.hi = g.hi /\ u.det = g.det /\ u.orig = g.orig
               /\ u.rep = g.rep /\ u.aban = b /\ u.over = g.over
    BY <1>1 DEF Gauge
  <2>3. v = [g EXCEPT !.open = left, !.aban = g.aban + a]
    BY <1>2
  <2>. HIDE DEF left
  <2>. QED  BY <2>1, <2>2, <2>3, ZenonT(40)
<1>6. \A s \in left : s < g.hi
  BY <1>1
<1>. HIDE DEF left
<1>7. v.det = v.orig + v.rep + v.aban + Cardinality(v.open) + v.over
  BY <1>1, <1>3, <1>5 DEF Gauge
<1>8. Accounts(v)
  BY <1>1, <1>3, <1>5, <1>6, <1>7 DEF Accounts
<1>. QED  BY <1>8 DEF v

(***************************************************************************)
(* The holes an arrival exposes are open, or counted as over the bounds.   *)
(***************************************************************************)
LEMMA ObserveAccounts ==
    ASSUME NEW g, Accounts(g), NEW seq \in Nat
    PROVE  Accounts(observe_high_at(g, seq))
<1> DEFINE holes == g.hi + 1 .. seq - 1
           wide == Cardinality(holes) > MaxSpan
           room == IF wide THEN 0 ELSE MaxOpen - Cardinality(g.open)
           kept == {s \in holes : s - g.hi <= room}
           all == g.open \cup kept
           d == Cardinality(holes)
           e == Cardinality(holes \ kept)
           v == observe_high_at(g, seq)
<1>1. /\ g \in Gauge /\ IsFiniteSet(g.open) /\ g.hi >= Unseen /\ (\A s \in g.open : s < g.hi)
      /\ g.det = g.orig + g.rep + g.aban + Cardinality(g.open) + g.over /\ g.hi \in Int
      /\ g.open \in SUBSET Nat
  BY DEF Accounts, Gauge
<1>2. CASE g.hi = Unseen \/ seq <= g.hi
  <2> DEFINE m == Max({g.hi, seq})
  <2>1. v = [g EXCEPT !.hi = m]
    BY <1>2 DEF observe_high_at
  <2>2. m \in Int /\ g.hi <= m
    <3>1. CASE seq <= g.hi
      <4>1. {g.hi, seq} \in SUBSET Int /\ g.hi \in {g.hi, seq} /\ \A s \in {g.hi, seq} : s <= g.hi
        BY <1>1, <3>1
      <4>2. m = g.hi
        BY <4>1, MaxIs
      <4>. QED  BY <1>1, <4>2
    <3>2. CASE g.hi = Unseen
      <4>1. {g.hi, seq} \in SUBSET Int /\ seq \in {g.hi, seq} /\ (\A s \in {g.hi, seq} : s <= seq)
            /\ g.hi <= seq
        BY <1>1, <3>2 DEF Unseen
      <4>2. m = seq
        BY <4>1, MaxIs
      <4>. QED  BY <4>1, <4>2
    <3>. QED  BY <1>2, <3>1, <3>2
  <2>. HIDE DEF m, v
  <2>3. /\ v.open = g.open /\ v.hi = m /\ v.det = g.det /\ v.orig = g.orig /\ v.rep = g.rep
        /\ v.aban = g.aban /\ v.over = g.over /\ v \in Gauge
    BY <1>1, <2>1, <2>2 DEF Gauge
  <2>4. v.hi >= Unseen /\ \A s \in v.open : s < v.hi
    BY <1>1, <2>2, <2>3 DEF Unseen
  <2>5. Accounts(v)
    BY <1>1, <2>3, <2>4 DEF Accounts
  <2>. QED  BY <2>5 DEF v
<1>3. CASE ~(g.hi = Unseen \/ seq <= g.hi)
  <2>1. v = [g EXCEPT !.hi = seq, !.det = @ + d, !.over = @ + e, !.open = @ \cup kept]
    BY <1>3 DEF observe_high_at
  <2>2. /\ kept \in SUBSET holes /\ holes \in SUBSET Nat /\ (\A s \in holes : g.hi < s /\ s < seq)
        /\ g.hi < seq
    BY <1>1, <1>3 DEF Unseen
  <2>3. IsFiniteSet(holes)
    <3>1. g.hi + 1 \in Int /\ seq - 1 \in Int
      BY <1>1
    <3>. QED  BY <3>1, FS_Interval
  <2>. HIDE DEF kept, holes
  <2>4. IsFiniteSet(kept) /\ Cardinality(kept) \in Nat /\ e \in Nat /\ d = Cardinality(kept) + e
        /\ d \in Nat
    <3>1. holes \cap kept = kept
      BY <2>2
    <3>. QED  BY <2>3, <3>1, SplitCount
  <2>. HIDE DEF d, e, v
  <2>5. /\ IsFiniteSet(all) /\ Cardinality(all) = Cardinality(g.open) + Cardinality(kept)
        /\ Cardinality(g.open) \in Nat
    <3>1. g.open \cap kept = {}
      BY <1>1, <2>2
    <3>2. /\ IsFiniteSet(all)
          /\ Cardinality(all) = Cardinality(g.open) + Cardinality(kept) - Cardinality(g.open \cap kept)
      BY <1>1, <2>4, FS_Union
    <3>3. Cardinality(g.open \cap kept) = 0
      BY <3>1, FS_EmptySet
    <3>4. Cardinality(g.open) \in Nat
      BY <1>1, FS_CardinalityType
    <3>. QED  BY <2>4, <3>2, <3>3, <3>4
  <2>6. /\ v.open = all /\ v.hi = seq /\ v.det = g.det + d /\ v.orig = g.orig /\ v.rep = g.rep
        /\ v.aban = g.aban /\ v.over = g.over + e /\ v \in Gauge
    <3> DEFINE x == g.det + d
               y == g.over + e
    <3>1. x \in Int /\ y \in Int
      BY <1>1, <2>4 DEF Gauge
    <3>2. all \in SUBSET Nat /\ seq \in Int
      <4>1. g.open \in SUBSET Nat /\ kept \in SUBSET Nat
        BY <1>1, <2>2
      <4>2. all \in SUBSET Nat
        BY <4>1
      <4>3. seq \in Int
        OBVIOUS
      <4>. QED  BY <4>2, <4>3
    <3>3. v = [g EXCEPT !.hi = seq, !.det = x, !.over = y, !.open = all]
      BY <2>1
    <3>. HIDE DEF all, x, y
    <3>4. v = [open |-> all, hi |-> seq, det |-> x, orig |-> g.orig, rep |-> g.rep,
               aban |-> g.aban, over |-> y]
      BY <1>1, <3>3 DEF Gauge
    <3>5. /\ v.open = all /\ v.hi = seq /\ v.det = x /\ v.orig = g.orig /\ v.rep = g.rep
          /\ v.aban = g.aban /\ v.over = y /\ v \in Gauge
      BY <1>1, <3>1, <3>2, <3>4 DEF Gauge
    <3>. QED  BY <3>5 DEF x, y
  <2>7. v.hi >= Unseen /\ \A s \in v.open : s < v.hi
    <3>1. \A s \in all : s < seq
      <4>1. \A s \in g.open : s < g.hi /\ s \in Nat
        BY <1>1
      <4>2. \A s \in kept : s < seq
        BY <2>2
      <4>3. \A s \in g.open : s < seq
        BY <1>1, <2>2, <4>1
      <4>. QED  BY <4>2, <4>3
    <3>2. seq >= Unseen
      BY DEF Unseen
    <3>. QED  BY <2>6, <3>1, <3>2
  <2>. HIDE DEF all
  <2>8. v.det = v.orig + v.rep + v.aban + Cardinality(v.open) + v.over
    BY <1>1, <2>4, <2>5, <2>6 DEF Gauge
  <2>9. Accounts(v)
    BY <2>5, <2>6, <2>7, <2>8 DEF Accounts
  <2>. QED  BY <2>9 DEF v
<1>. QED  BY <1>2, <1>3

(* The arrivals of one message leave the account in order.                 *)
LEMMA ObservedAccounts ==
    ASSUME NEW g, Accounts(g), NEW order \in Seq(Nat)
    PROVE  Accounts(Observed(g, order))
<1> DEFINE n == Len(order)
<1>1. PICK st : /\ st[0] = g
                /\ \A k \in 1 .. n : st[k] = observe_high_at(st[k - 1], order[k])
                /\ Observed(g, order) = st[n]
  BY ObserveSteps
<1> DEFINE S == {k \in 0 .. n : Accounts(st[k])}
<1>2. n \in Nat /\ n \in 0 .. n /\ 0 \in 0 .. n /\ \A k \in 1 .. n : order[k] \in Nat
  OBVIOUS
<1>3. 0 \in S
  BY <1>1, <1>2
<1>4. ASSUME NEW k \in 0 .. n - 1, k \in S
      PROVE  k + 1 \in S
  <2>1. k + 1 \in 1 .. n /\ (k + 1) - 1 = k /\ k + 1 \in 0 .. n
    BY <1>2
  <2>2. st[k + 1] = observe_high_at(st[k], order[k + 1]) /\ order[k + 1] \in Nat
    BY <1>1, <1>2, <2>1
  <2>3. Accounts(st[k + 1])
    BY <1>4, <2>2, ObserveAccounts
  <2>. QED  BY <2>1, <2>3
<1>. HIDE DEF S
<1>5. n \in S
  BY <1>2, <1>3, <1>4, IntervalInduction
<1>. QED  BY <1>1, <1>5 DEF S

-----------------------------------------------------------------------------
(***************************************************************************)
(* The books of the loop: the seqs H are held or handed over once, the     *)
(* frontiers agree, the account of the holes adds up.                      *)
(***************************************************************************)
Books(w, H, shed) == Holds(w, H) /\ Leads(w, shed) /\ Accounts(w.g)

(* One recovered seq that is new keeps the account.                        *)
LEMMA PushAccounts ==
    ASSUME NEW w, NEW H, Holds(w, H), Accounts(w.g), NEW seq \in Nat, seq \notin H
    PROVE  Accounts(push_symbol(w, seq).g)
<1> DEFINE late == seq < w.rb.next
           pushed == push(w.rb, seq)
           passed == pushed.rb.next - w.rb.next
           next == [w EXCEPT !.rb = pushed.rb, !.ab = @ \ {seq},
                             !.fc = IF late THEN @ ELSE @ + passed - Len(pushed.out)]
           fed == Deliveries(next, pushed.out, late)
<1>1. push_symbol(w, seq) = Sweep(fed)
  BY DEF push_symbol
<1>2. /\ w.rb \in Buffers /\ OneToOne(w.rb.pending) /\ seq \notin ToSet(w.rb.pending)
      /\ w.out \in Seq(Nat) /\ DOMAIN w = Fields /\ w.ne \in Nat
  BY DEF Holds
<1>3. DOMAIN next = Fields /\ next.out = w.out /\ next.ne = w.ne /\ next.g = w.g
  BY <1>2 DEF Fields
<1>4. Moves(ToSet(w.rb.pending) \cup {seq}, pushed)
  BY <1>2, PushMoves
<1>5. pushed.out \in Seq(Nat)
  BY <1>4 DEF Moves
<1>. HIDE DEF next, pushed, late
<1>6. HandedOn(next, fed, pushed.out)
  BY <1>2, <1>3, <1>5, DeliveriesHand
<1>. HIDE DEF fed
<1>7. DOMAIN fed = Fields /\ fed.g = w.g
  BY <1>3, <1>6 DEF HandedOn
<1>8. Sweep(fed).g = abandon_below(fed.g, fed.rb.next)
  BY <1>7 DEF Sweep, Fields
<1>. QED  BY <1>1, <1>7, <1>8, AbandonAccounts

(***************************************************************************)
(* The recovered seqs of one message, each new and none twice.             *)
(***************************************************************************)
LEMMA PushesBooks ==
    ASSUME NEW w, NEW H, NEW shed, Books(w, H, shed),
           NEW order \in Seq(Nat), OneToOne(order), ToSet(order) \cap H = {}
    PROVE  Books(Pushes(w, order), H \cup ToSet(order), shed)
<1> DEFINE n == Len(order)
<1>1. PICK st : /\ st[0] = w
                /\ \A k \in 1 .. n : st[k] = push_symbol(st[k - 1], order[k])
                /\ Pushes(w, order) = st[n]
  BY PushSteps
<1> DEFINE Given(k) == H \cup {order[i] : i \in 1 .. k}
           S == {k \in 0 .. n : Books(st[k], Given(k), shed)}
<1>2. /\ n \in Nat /\ n \in 0 .. n /\ 0 \in 0 .. n /\ (\A k \in 1 .. n : order[k] \in Nat)
      /\ DOMAIN order = 1 .. n
  OBVIOUS
<1>3. 0 \in S
  <2>1. Given(0) = H
    OBVIOUS
  <2>. HIDE DEF Given
  <2>. QED  BY <1>1, <1>2, <2>1
<1>4. ASSUME NEW k \in 0 .. n - 1, k \in S
      PROVE  k + 1 \in S
  <2> DEFINE d == order[k + 1]
  <2>1. k + 1 \in 1 .. n /\ (k + 1) - 1 = k /\ k + 1 \in 0 .. n /\ \A i \in 1 .. k : i \in 1 .. n /\ i # k + 1
    BY <1>2
  <2>2. st[k + 1] = push_symbol(st[k], d) /\ d \in Nat
    BY <1>1, <1>2, <2>1
  <2>3. d \notin Given(k)
    <3>1. d \in ToSet(order)
      BY <1>2, <2>1 DEF ToSet
    <3>2. \A i \in 1 .. k : order[i] # d
      BY <1>2, <2>1 DEF OneToOne
    <3>. HIDE DEF d
    <3>. QED  BY <3>1, <3>2
  <2>4. Given(k + 1) = Given(k) \cup {d}
    <3>1. 1 .. k + 1 = (1 .. k) \cup {k + 1}
      BY <1>2
    <3>. QED  BY <3>1
  <2>. HIDE DEF Given, d
  <2>5. Books(st[k], Given(k), shed)
    BY <1>4
  <2>6. Books(st[k + 1], Given(k + 1), shed)
    <3>1. Holds(st[k], Given(k)) /\ Leads(st[k], shed) /\ Accounts(st[k].g)
      BY <2>5 DEF Books
    <3>2. Holds(push_symbol(st[k], d), Given(k) \cup {d})
      BY <2>2, <2>3, <3>1, PushHands
    <3>3. Leads(push_symbol(st[k], d), shed)
      BY <2>2, <2>3, <3>1, PushLeads
    <3>4. Accounts(push_symbol(st[k], d).g)
      BY <2>2, <2>3, <3>1, PushAccounts
    <3>. QED  BY <2>2, <2>4, <3>2, <3>3, <3>4 DEF Books
  <2>. QED  BY <2>1, <2>6
<1>. HIDE DEF S
<1>5. n \in S
  BY <1>2, <1>3, <1>4, IntervalInduction
<1>6. Given(n) = H \cup ToSet(order)
  BY <1>2 DEF ToSet
<1>. HIDE DEF Given
<1>. QED  BY <1>1, <1>5, <1>6 DEF S

(* An expiry.                                                              *)
LEMMA ExpireBooks ==
    ASSUME NEW w, NEW H, NEW shed, Books(w, H, shed), NEW j \in 0 .. Len(w.rb.pending)
    PROVE  Books(Expire(w, j), H, Shed(shed, w, Expire(w, j)))
<1>1. Holds(w, H) /\ Leads(w, shed) /\ Accounts(w.g) /\ DOMAIN w = Fields
  BY DEF Books, Holds
<1>2. Expire(w, j).g = w.g
  BY <1>1 DEF Expire, Fields
<1>. QED  BY <1>1, <1>2, ExpireHands, ExpireLeads DEF Books

(* The sweep.                                                              *)
LEMMA SweepBooks ==
    ASSUME NEW w, NEW H, NEW shed, Books(w, H, shed)
    PROVE  Books(Sweep(w), H, shed)
<1>1. Holds(w, H) /\ Leads(w, shed) /\ Accounts(w.g) /\ DOMAIN w = Fields
  BY DEF Books, Holds
<1>2. Sweep(w).g = abandon_below(w.g, w.rb.next)
  BY <1>1 DEF Sweep, Fields
<1>. QED  BY <1>1, <1>2, SweepHolds, SweepLeads, AbandonAccounts DEF Books

-----------------------------------------------------------------------------
(* What the receiver was entrusted with.                                   *)
Entrusted == ToSet(handed) \cup ToSet(reorder_buf.pending)

(***************************************************************************)
(* The inductive invariant: between messages the books are in order, and   *)
(* what the decoder would put out as new was never put out before.         *)
(***************************************************************************)
EvictInv ==
    /\ decoder_floor \in Int
    /\ decoded \subseteq Entrusted
    /\ \A s \in Entrusted : s \in decoded \/ s < decoder_floor
    /\ Books(Working(succ, lat_pending, parked), Entrusted, recv_shed_holes)

(* The books are about some of the fields only.                            *)
LEMMA BooksMatch ==
    ASSUME NEW w, NEW H, NEW shed, Books(w, H, shed), NEW v, DOMAIN v = Fields,
           v.rb = w.rb, v.g = w.g, v.o = w.o, v.ne = w.ne, v.out = w.out, v.fc = w.fc
    PROVE  Books(v, H, shed)
<1>1. Holds(v, H)
  BY DEF Books, Holds
<1>2. Leads(v, shed)
  BY DEF Books, Leads, Ahead
<1>. QED  BY <1>1, <1>2 DEF Books

(* It holds at the start.                                                  *)
LEMMA EvictInvInit == EvictInit => EvictInv
<1> SUFFICES ASSUME EvictInit
             PROVE  EvictInv
  OBVIOUS
<1> DEFINE w == Working(succ, lat_pending, parked)
<1>1. /\ decoded = {} /\ decoder_floor = 0 /\ reorder_buf = [pending |-> <<>>, next |-> 0]
      /\ next_expected = 0 /\ handed = <<>> /\ recv_shed_holes = 0 /\ forced = 0
      /\ succ = [open |-> {}, hi |-> -1, det |-> 0, orig |-> 0, rep |-> 0, aban |-> 0, over |-> 0]
      /\ once = [floor |-> 0, holes |-> {}, early |-> {}, ok |-> TRUE]
  BY DEF EvictInit, EmptyBuffer, EmptyGauge, NothingDelivered, Unseen
<1>2. /\ DOMAIN w = Fields /\ w.rb = reorder_buf /\ w.g = succ /\ w.o = once
      /\ w.ne = next_expected /\ w.out = handed /\ w.fc = forced
  BY DEF Working, Fields
<1>. HIDE DEF w
<1>3. <<>> \in Seq(Nat) /\ OneToOne(<<>>) /\ ToSet(<<>>) = {} /\ Records(<<>>) = {}
  BY DEF OneToOne, ToSet, Records
<1>4. reorder_buf \in Buffers /\ reorder_buf.pending = <<>> /\ reorder_buf.next = 0
  BY <1>1, <1>3 DEF Buffers
<1>5. Entrusted = {}
  BY <1>1, <1>3, <1>4 DEF Entrusted
<1>6. Holds(w, {})
  BY <1>1, <1>2, <1>3, <1>4 DEF Holds
<1>7. Told(w.o, w.out, 0)
  BY <1>1, <1>2, <1>3 DEF Told
<1>8. Cardinality({}) = 0
  BY FS_EmptySet
<1>9. Tally(0, w.out, 0, w.fc)
  <2>1. Cardinality(Records(w.out)) = 0 /\ w.fc = 0
    BY <1>1, <1>2, <1>3, <1>8
  <2>. QED  BY <2>1 DEF Tally
<1>10. Leads(w, 0)
  <2>1. Ahead(w)
    BY <1>1, <1>2, <1>3, <1>7 DEF Ahead
  <2>. QED  BY <1>1, <1>2, <1>3, <1>4, <1>9, <2>1 DEF Leads
<1>11. Accounts(w.g)
  <2>1. IsFiniteSet({})
    BY FS_EmptySet
  <2>. QED  BY <1>1, <1>2, <1>8, <2>1 DEF Accounts, Gauge, Unseen
<1>. QED  BY <1>1, <1>5, <1>6, <1>10, <1>11 DEF EvictInv, Books, w

(***************************************************************************)
(* A message whose recovered seqs are all new.                             *)
(***************************************************************************)
LEMMA MessageKeeps ==
    ASSUME EvictInv, NEW own, NEW order \in Seq(Nat), OneToOne(order),
           \A s \in ToSet(order) : fresh(s), Message(own, order)
    PROVE  EvictInv'
<1> DEFINE R == ToSet(order)
           src == own # {}
           s0 == CHOOSE x \in own : TRUE
           p == IF src THEN pending_insert(lat_pending, s0, TRUE).p ELSE lat_pending
           m == IF src THEN ParkedInsert(s0, lat_pending.order) ELSE parked
           g == resolve_at(succ, R, own)
           high == Observed(g, order)
           w0 == Working(succ, lat_pending, parked)
           w1 == Working(high, p, m)
           fed == Pushes(w1, order)
           H == Entrusted \cup R
<1>1. PICK j \in 0 .. Len(fed.rb.pending) :
         LET w == Expire(fed, j)
         IN  /\ reorder_buf' = w.rb /\ succ' = w.g /\ lat_pending' = w.p /\ parked' = w.m
             /\ once' = w.o /\ next_expected' = w.ne /\ abandoned_seqs' = w.ab /\ handed' = w.out
             /\ forced' = w.fc
             /\ recv_shed_holes' = GivenUp(fed.rb, w.rb, Len(w.out) - Len(fed.out))
  <2>1. \E f \in {fed} :
           \E j \in 0 .. Len(f.rb.pending) :
           \E w \in {Expire(f, j)} :
               /\ reorder_buf' = w.rb /\ succ' = w.g /\ lat_pending' = w.p /\ parked' = w.m
               /\ once' = w.o /\ next_expected' = w.ne /\ abandoned_seqs' = w.ab /\ handed' = w.out
               /\ forced' = w.fc
               /\ recv_shed_holes' = GivenUp(f.rb, w.rb, Len(w.out) - Len(f.out))
    BY ZenonT(40) DEF Message
  <2>. HIDE DEF fed
  <2>. QED  BY <2>1, Zenon
<1>2. decoded' = decoded \cup R /\ decoder_floor' = decoder_floor
  BY DEF Message
<1> DEFINE w2 == Expire(fed, j)
           wn == Working(succ, lat_pending, parked)'
<1>3. /\ decoder_floor \in Int /\ decoded \subseteq Entrusted
      /\ (\A s \in Entrusted : s \in decoded \/ s < decoder_floor)
      /\ Books(w0, Entrusted, recv_shed_holes)
  BY DEF EvictInv
<1>4. R \cap Entrusted = {}
  <2>1. \A s \in R : s >= decoder_floor /\ s \notin decoded /\ s \in Nat
    BY PendingFinite DEF fresh
  <2>. QED  BY <1>3, <2>1
<1>5. Accounts(high)
  <2>1. w0.g = succ
    BY DEF Working
  <2>2. Accounts(succ)
    BY <1>3, <2>1 DEF Books
  <2>. HIDE DEF R, w0
  <2>3. Accounts(g)
    BY <2>2, ResolveAccounts
  <2>. QED  BY <2>3, ObservedAccounts
<1>. HIDE DEF high, p, m, R
<1>6. Books(w1, Entrusted, recv_shed_holes)
  <2>1. /\ DOMAIN w1 = Fields /\ w1.rb = w0.rb /\ w1.g = high /\ w1.o = w0.o /\ w1.ne = w0.ne
        /\ w1.out = w0.out /\ w1.fc = w0.fc
    BY DEF Working, Fields
  <2>. HIDE DEF w0, w1
  <2>2. Holds(w1, Entrusted)
    BY <1>3, <2>1 DEF Books, Holds
  <2>3. Leads(w1, recv_shed_holes)
    BY <1>3, <2>1 DEF Books, Leads, Ahead
  <2>. QED  BY <1>5, <2>1, <2>2, <2>3 DEF Books
<1>. HIDE DEF w1
<1>7. Books(fed, H, recv_shed_holes)
  BY <1>4, <1>6, PushesBooks DEF R
<1>. HIDE DEF fed, H
<1>8. Books(w2, H, Shed(recv_shed_holes, fed, w2))
  BY <1>7, ExpireBooks
<1>9. /\ reorder_buf' = w2.rb /\ succ' = w2.g /\ once' = w2.o /\ next_expected' = w2.ne
      /\ handed' = w2.out /\ forced' = w2.fc
  BY <1>1
<1>10. recv_shed_holes' = Shed(recv_shed_holes, fed, w2)
  BY <1>1 DEF GivenUp, Shed
<1>. HIDE DEF w2
<1>11. /\ DOMAIN wn = Fields /\ wn.rb = w2.rb /\ wn.g = w2.g /\ wn.o = w2.o /\ wn.ne = w2.ne
       /\ wn.out = w2.out /\ wn.fc = w2.fc
  BY <1>9 DEF Working, Fields
<1>. HIDE DEF wn
<1>12. Books(wn, H, recv_shed_holes')
  BY <1>8, <1>10, <1>11, BooksMatch
<1>13. Entrusted' = H
  <2>1. ToSet(w2.out) \cup ToSet(w2.rb.pending) = H
    BY <1>8 DEF Books, Holds
  <2>. QED  BY <1>9, <2>1 DEF Entrusted
<1>14. /\ decoder_floor' \in Int /\ decoded' \subseteq Entrusted'
       /\ \A s \in Entrusted' : s \in decoded' \/ s < decoder_floor'
  BY <1>2, <1>3, <1>13 DEF H
<1>. QED  BY <1>12, <1>13, <1>14 DEF EvictInv, wn

(* An order of recovered seqs names each once.                             *)
LEMMA OrdersNameOnce ==
    ASSUME NEW C \in SUBSET SentSeqs, NEW order \in SetToSeqs(C)
    PROVE  order \in Seq(Nat) /\ OneToOne(order) /\ ToSet(order) \subseteq C
<1>1. IsFiniteSet(C)
  <2>1. 0 \in Int /\ Sent - 1 \in Int
    BY EvictAssumption
  <2>2. IsFiniteSet(0 .. Sent - 1)
    BY <2>1, FS_Interval
  <2>. QED  BY <2>2, FS_Subset DEF SentSeqs
<1>2. Cardinality(C) \in Nat
  BY <1>1, FS_CardinalityType
<1> DEFINE n == Cardinality(C)
<1>3. /\ order \in [1 .. n -> C]
      /\ \A i, k \in 1 .. n : i # k => order[i] # order[k]
  BY DEF SetToSeqs
<1>4. C \in SUBSET Nat
  BY EvictAssumption DEF SentSeqs
<1>. HIDE DEF n
<1>5. order \in [1 .. n -> Nat] /\ n \in Nat
  BY <1>2, <1>3, <1>4 DEF n
<1>6. \A k \in Nat : \A f \in [1 .. k -> Nat] : f \in Seq(Nat)
  OBVIOUS
<1>7. order \in Seq(Nat)
  BY <1>5, <1>6
<1>8. DOMAIN order = 1 .. n
  BY <1>3
<1>. QED  BY <1>3, <1>7, <1>8 DEF OneToOne, ToSet

(* Nothing is a new seq.                                                   *)
LEMMA NothingNew == <<>> \in Seq(Nat) /\ OneToOne(<<>>) /\ ToSet(<<>>) = {}
BY DEF OneToOne, ToSet

(***************************************************************************)
(* A source symbol arrives.                                                *)
(***************************************************************************)
LEMMA SourceKeeps ==
    ASSUME EvictInv, NEW s \in SentSeqs, NEW C \in SUBSET SentSeqs, SourceArrives(s, C)
    PROVE  EvictInv'
<1>1. CASE fresh(s)
  <2>1. /\ \A c \in C : fresh(c) /\ c # s
        /\ \E order \in SetToSeqs(C) : Message({s}, <<s>> \o order)
    BY <1>1 DEF SourceArrives
  <2>2. PICK order \in SetToSeqs(C) : Message({s}, <<s>> \o order)
    BY <2>1
  <2> DEFINE one == <<s>>
             all == one \o order
  <2>3. order \in Seq(Nat) /\ OneToOne(order) /\ ToSet(order) \subseteq C
    BY OrdersNameOnce
  <2>4. one \in Seq(Nat) /\ OneToOne(one) /\ ToSet(one) = {s}
    <3>1. s \in Nat
      BY EvictAssumption DEF SentSeqs
    <3>. QED  BY <3>1 DEF OneToOne, ToSet
  <2>5. Message({s}, all)
    BY <2>2
  <2>. HIDE DEF one
  <2>6. ToSet(one) \cap ToSet(order) = {}
    BY <2>1, <2>3, <2>4
  <2>7. all \in Seq(Nat) /\ OneToOne(all) /\ ToSet(all) = ToSet(one) \cup ToSet(order)
    BY <2>3, <2>4, <2>6, JoinedSets
  <2>8. \A d \in ToSet(all) : fresh(d)
    <3>. HIDE DEF all
    <3>. QED  BY <1>1, <2>1, <2>3, <2>4, <2>7
  <2>. HIDE DEF all
  <2>. QED  BY <2>5, <2>7, <2>8, MessageKeeps
<1>2. CASE ~fresh(s)
  <2>1. Message({s}, <<>>)
    BY <1>2 DEF SourceArrives
  <2>2. \A d \in ToSet(<<>>) : fresh(d)
    BY NothingNew
  <2>. QED  BY <2>1, <2>2, NothingNew, MessageKeeps
<1>. QED  BY <1>1, <1>2

(***************************************************************************)
(* A repair symbol arrives.                                                *)
(***************************************************************************)
LEMMA RepairKeeps ==
    ASSUME EvictInv, NEW C \in SUBSET SentSeqs, RepairArrives(C)
    PROVE  EvictInv'
<1>1. PICK order \in SetToSeqs(C) : Message({}, order)
  BY DEF RepairArrives
<1>2. \A c \in C : fresh(c)
  BY DEF RepairArrives
<1>3. order \in Seq(Nat) /\ OneToOne(order) /\ ToSet(order) \subseteq C
  BY OrdersNameOnce
<1>4. \A d \in ToSet(order) : fresh(d)
  BY <1>2, <1>3
<1>. QED  BY <1>1, <1>3, <1>4, MessageKeeps

(***************************************************************************)
(* The hold timer fires.                                                   *)
(***************************************************************************)
LEMMA TimerKeeps ==
    ASSUME EvictInv, NEW j \in 1 .. MaxBuffered, HoldTimer(j)
    PROVE  EvictInv'
<1> DEFINE w0 == Working(succ, lat_pending, parked)
           w1 == Expire(w0, j)
           w2 == Sweep(w1)
           wn == Working(succ, lat_pending, parked)'
           shed == recv_shed_holes
<1>1. /\ decoder_floor \in Int /\ decoded \subseteq Entrusted
      /\ (\A s \in Entrusted : s \in decoded \/ s < decoder_floor)
      /\ Books(w0, Entrusted, shed)
  BY DEF EvictInv
<1>2. /\ j \in 1 .. Len(reorder_buf.pending)
      /\ \E w \in {w2} :
            /\ reorder_buf' = w.rb /\ succ' = w.g /\ next_expected' = w.ne
            /\ abandoned_seqs' = w.ab /\ handed' = w.out
            /\ recv_shed_holes' = GivenUp(reorder_buf, w.rb, Len(w.out) - Len(handed))
      /\ UNCHANGED <<waiting, decoded, decoder_floor, lat_pending, once, parked, forced>>
  BY Zenon DEF HoldTimer
<1>3. /\ DOMAIN w0 = Fields /\ w0.rb = reorder_buf /\ w0.o = once /\ w0.out = handed /\ w0.fc = forced
  BY DEF Working, Fields
<1>4. w0.rb \in Buffers
  BY <1>1 DEF Books, Holds
<1>5. j \in 0 .. Len(w0.rb.pending)
  <2>1. reorder_buf.pending \in Seq(Nat)
    BY <1>3, <1>4 DEF Buffers
  <2>. QED  BY <1>2, <1>3, <2>1
<1>. HIDE DEF w0
<1>6. Books(w1, Entrusted, Shed(shed, w0, w1))
  BY <1>1, <1>5, ExpireBooks
<1>7. Books(w2, Entrusted, Shed(shed, w0, w1))
  BY <1>6, SweepBooks
<1>8. /\ DOMAIN w1 = Fields /\ w1.o = once /\ w1.fc = forced
  BY <1>3 DEF Expire, Fields
<1>9. /\ w2.rb = w1.rb /\ w2.out = w1.out /\ w2.o = once /\ w2.fc = forced
  <2>. HIDE DEF w1
  <2>. QED  BY <1>8 DEF Sweep, Fields
<1>. HIDE DEF w1, w2
<1>10. recv_shed_holes' = Shed(shed, w0, w1)
  BY <1>2, <1>3, <1>9 DEF GivenUp, Shed
<1>11. /\ reorder_buf' = w2.rb /\ succ' = w2.g /\ next_expected' = w2.ne /\ handed' = w2.out
       /\ once' = w2.o /\ forced' = w2.fc /\ decoded' = decoded /\ decoder_floor' = decoder_floor
  BY <1>2, <1>9
<1>12. /\ DOMAIN wn = Fields /\ wn.rb = w2.rb /\ wn.g = w2.g /\ wn.o = w2.o /\ wn.ne = w2.ne
       /\ wn.out = w2.out /\ wn.fc = w2.fc
  BY <1>11 DEF Working, Fields
<1>. HIDE DEF wn
<1>13. Books(wn, Entrusted, recv_shed_holes')
  BY <1>7, <1>10, <1>12, BooksMatch
<1>14. Entrusted' = Entrusted
  <2>1. ToSet(w2.out) \cup ToSet(w2.rb.pending) = Entrusted
    BY <1>7 DEF Books, Holds
  <2>. QED  BY <1>11, <2>1 DEF Entrusted
<1>. QED  BY <1>1, <1>11, <1>13, <1>14 DEF EvictInv, wn

(***************************************************************************)
(* The decoder forgets what lies below its new floor.                      *)
(***************************************************************************)
LEMMA WaitKeeps ==
    ASSUME EvictInv, Wait
    PROVE  EvictInv'
<1> DEFINE w0 == Working(succ, lat_pending, parked)
           wn == Working(succ, lat_pending, parked)'
<1>1. /\ decoder_floor \in Int /\ decoded \subseteq Entrusted
      /\ (\A s \in Entrusted : s \in decoded \/ s < decoder_floor)
      /\ Books(w0, Entrusted, recv_shed_holes)
  BY DEF EvictInv
<1>2. /\ decoder_floor' = InertFloor /\ decoded' = {s \in decoded : s >= InertFloor}
      /\ UNCHANGED <<reorder_buf, next_expected, succ, lat_pending, once, recv_shed_holes,
                     handed, parked, forced>>
  BY DEF Wait
<1>3. next_expected \in Nat /\ Entrusted \in SUBSET Nat
  <2>1. w0.ne = next_expected /\ w0.rb = reorder_buf /\ w0.out = handed
    BY DEF Working
  <2>. HIDE DEF w0
  <2>2. /\ next_expected \in Nat /\ handed \in Seq(Nat) /\ reorder_buf \in Buffers
    BY <1>1, <2>1 DEF Books, Holds
  <2>3. reorder_buf.pending \in Seq(Nat)
    BY <2>2 DEF Buffers
  <2>. QED  BY <2>2, <2>3, PendingFinite DEF Entrusted
<1>4. InertFloor \in Int /\ InertFloor >= decoder_floor
  BY <1>1, <1>3, EvictAssumption DEF InertFloor
<1>5. Entrusted' = Entrusted
  BY <1>2 DEF Entrusted
<1>6. /\ DOMAIN wn = Fields /\ wn.rb = w0.rb /\ wn.g = w0.g /\ wn.o = w0.o /\ wn.ne = w0.ne
      /\ wn.out = w0.out /\ wn.fc = w0.fc
  BY <1>2 DEF Working, Fields
<1>. HIDE DEF w0, wn
<1>7. Books(wn, Entrusted, recv_shed_holes')
  BY <1>1, <1>2, <1>6, BooksMatch
<1>8. \A s \in Entrusted : s \in decoded' \/ s < decoder_floor'
  BY <1>1, <1>2, <1>3, <1>4
<1>. QED  BY <1>1, <1>2, <1>4, <1>5, <1>7, <1>8 DEF EvictInv, wn

(***************************************************************************)
(* No step breaks the invariant.                                           *)
(***************************************************************************)
LEMMA EvictInvNext == EvictInv /\ [EvictNext]_evictVars => EvictInv'
<1> SUFFICES ASSUME EvictInv, [EvictNext]_evictVars
             PROVE  EvictInv'
  OBVIOUS
<1>1. CASE EvictSource
  BY <1>1, SourceKeeps DEF EvictSource
<1>2. CASE EvictRepair
  BY <1>2, RepairKeeps DEF EvictRepair
<1>3. CASE EvictTimer
  BY <1>3, TimerKeeps DEF EvictTimer
<1>4. CASE Wait
  BY <1>4, WaitKeeps
<1>5. CASE UNCHANGED evictVars
  <2>1. /\ Entrusted' = Entrusted /\ decoder_floor' = decoder_floor /\ decoded' = decoded
        /\ Working(succ, lat_pending, parked)' = Working(succ, lat_pending, parked)
        /\ recv_shed_holes' = recv_shed_holes
    BY <1>5 DEF evictVars, Entrusted, Working
  <2>. QED  BY <2>1 DEF EvictInv
<1>. QED  BY <1>1, <1>2, <1>3, <1>4, <1>5 DEF EvictNext

(* What the invariant says of the variables.                               *)
LEMMA EvictInvSays ==
    ASSUME EvictInv
    PROVE  HandedOnce /\ OnceHolds /\ FrontierAgrees /\ HolesAccounted
<1> DEFINE w == Working(succ, lat_pending, parked)
<1>1. /\ decoded \subseteq Entrusted
      /\ Holds(w, Entrusted) /\ Leads(w, recv_shed_holes) /\ Accounts(w.g)
  BY DEF EvictInv, Books
<1>2. /\ w.rb = reorder_buf /\ w.g = succ /\ w.o = once /\ w.ne = next_expected
      /\ w.out = handed /\ w.fc = forced
  BY DEF Working
<1>. HIDE DEF w
<1>3. HandedOnce
  BY <1>1, <1>2 DEF Holds, HandedOnce, OneToOne, Entrusted
<1>4. Told(once, handed, next_expected) /\ next_expected = reorder_buf.next
      /\ Tally(next_expected, handed, recv_shed_holes, forced)
  BY <1>1, <1>2 DEF Leads, Ahead
<1>5. OnceHolds
  BY <1>4 DEF Told, OnceHolds
<1>6. FrontierAgrees
  <2>1. HandedInOrder = Records(handed)
    BY DEF HandedInOrder, Records
  <2>. QED  BY <1>4, <2>1 DEF Told, Tally, FrontierAgrees
<1>7. HolesAccounted
  BY <1>1, <1>2 DEF Accounts, HolesAccounted
<1>. QED  BY <1>3, <1>5, <1>6, <1>7

-----------------------------------------------------------------------------
(* An arrival's record.                                                    *)
Stored == TRUE

(***************************************************************************)
(* The arrival records p and the plain map m that they stand for: the ring *)
(* is in shape and holds m, which spans less than PendingSpanMax, and every *)
(* key of it waits in the eviction order, which stays within PendingMax.   *)
(***************************************************************************)
Parks(p, m) ==
    /\ p = [ring |-> p.ring, order |-> p.order, floor |-> p.floor]
    /\ SoundRing({Stored}, p.ring)
    /\ RingKeys(p.ring) = m
    /\ p.order \in Seq(Nat)
    /\ Len(p.order) <= PendingMax
    /\ m \subseteq ToSet(p.order)
    /\ p.floor \in Nat
    /\ \A a, b \in m : a - b < PendingSpanMax

(* Records put together of their parts.                                    *)
LEMMA ParksOf ==
    ASSUME NEW ring, NEW order, NEW floor, NEW m, NEW p,
           p = [ring |-> ring, order |-> order, floor |-> floor],
           SoundRing({Stored}, ring), RingKeys(ring) = m, order \in Seq(Nat), Len(order) <= PendingMax,
           m \subseteq ToSet(order), floor \in Nat, \A a, b \in m : a - b < PendingSpanMax
    PROVE  Parks(p, m)
<1>1. p.ring = ring /\ p.order = order /\ p.floor = floor
  OBVIOUS
<1>2. p = [ring |-> p.ring, order |-> p.order, floor |-> p.floor]
  BY <1>1
<1>3. m \subseteq ToSet(p.order)
  BY <1>1
<1>. QED  BY <1>1, <1>2, <1>3, Zenon DEF Parks

(* Records with another ring, order or floor.                              *)
LEMMA Rebuilt ==
    ASSUME NEW p, p = [ring |-> p.ring, order |-> p.order, floor |-> p.floor], NEW x, NEW y
    PROVE  /\ [p EXCEPT !.ring = x, !.order = y] = [ring |-> x, order |-> y, floor |-> p.floor]
           /\ [p EXCEPT !.order = y, !.ring = x] = [ring |-> x, order |-> y, floor |-> p.floor]
           /\ [p EXCEPT !.ring = x, !.floor = y] = [ring |-> x, order |-> p.order, floor |-> y]
           /\ [p EXCEPT !.ring = x] = [ring |-> x, order |-> p.order, floor |-> p.floor]
<1> DEFINE a == p.ring
           b == p.order
           c == p.floor
<1>. HIDE DEF a, b, c
<1>1. p = [ring |-> a, order |-> b, floor |-> c]
  BY DEF a, b, c
<1>2. [p EXCEPT !.ring = x, !.order = y] = [ring |-> x, order |-> y, floor |-> c]
  <2> DEFINE r == [p EXCEPT !.ring = x]
  <2>1. r = [ring |-> x, order |-> b, floor |-> c]
    BY <1>1
  <2>2. [p EXCEPT !.ring = x, !.order = y] = [r EXCEPT !.order = y]
    OBVIOUS
  <2>. HIDE DEF r
  <2>3. [r EXCEPT !.order = y] = [ring |-> x, order |-> y, floor |-> c]
    BY <2>1
  <2>. QED  BY <2>2, <2>3
<1>3. [p EXCEPT !.order = y, !.ring = x] = [ring |-> x, order |-> y, floor |-> c]
  <2> DEFINE r == [p EXCEPT !.order = y]
  <2>1. r = [ring |-> a, order |-> y, floor |-> c]
    BY <1>1
  <2>2. [p EXCEPT !.order = y, !.ring = x] = [r EXCEPT !.ring = x]
    OBVIOUS
  <2>. HIDE DEF r
  <2>3. [r EXCEPT !.ring = x] = [ring |-> x, order |-> y, floor |-> c]
    BY <2>1
  <2>. QED  BY <2>2, <2>3
<1>4. [p EXCEPT !.ring = x, !.floor = y] = [ring |-> x, order |-> b, floor |-> y]
  <2> DEFINE r == [p EXCEPT !.ring = x]
  <2>1. r = [ring |-> x, order |-> b, floor |-> c]
    BY <1>1
  <2>2. [p EXCEPT !.ring = x, !.floor = y] = [r EXCEPT !.floor = y]
    OBVIOUS
  <2>. HIDE DEF r
  <2>3. [r EXCEPT !.floor = y] = [ring |-> x, order |-> b, floor |-> y]
    BY <2>1
  <2>. QED  BY <2>2, <2>3
<1>5. [p EXCEPT !.ring = x] = [ring |-> x, order |-> b, floor |-> c]
  BY <1>1
<1>. QED  BY <1>2, <1>3, <1>4, <1>5 DEF b, c

(* A jump sheds what it leaves too far behind, and nothing else.           *)
LEMMA ShedKeeps ==
    ASSUME NEW r, SoundRing({Stored}, r), NEW seq \in Nat
    PROVE  /\ SoundRing({Stored}, shed_span(r, seq).r)
           /\ RingKeys(shed_span(r, seq).r) = {s \in RingKeys(r) : seq - s < PendingSpanMax}
<1> DEFINE K == RingKeys(r)
           low == {s \in K : seq - s >= PendingSpanMax}
           kept == K \ low
           c == CHOOSE s \in kept : \A q \in kept : s <= q
           q == shed_span(r, seq).r
<1>1. K \in SUBSET Nat /\ RingEnd(r) \in Nat /\ \A s \in K : s < RingEnd(r)
  <2>1. r \in Rings({Stored})
    BY DEF SoundRing
  <2>. QED  BY <2>1, RingContents, RingEnds
<1>2. q = IF kept = {} THEN prune_below(r, RingEnd(r)) ELSE prune_below(r, c)
  BY DEF shed_span
<1>. HIDE DEF q, K
<1>3. kept = {s \in K : seq - s < PendingSpanMax}
  <2>1. \A s \in K : ~(seq - s >= PendingSpanMax) <=> seq - s < PendingSpanMax
    BY <1>1, PendingAssumption
  <2>. QED  BY <2>1
<1>4. CASE kept = {}
  <2>1. q = prune_below(r, RingEnd(r))
    BY <1>2, <1>4
  <2>2. SoundRing({Stored}, q) /\ RingKeys(q) = {s \in K : s >= RingEnd(r)}
    BY <1>1, <2>1, RingPrunes DEF K
  <2>3. RingKeys(q) = {}
    <3>1. \A s \in K : ~(s >= RingEnd(r))
      BY <1>1
    <3>. QED  BY <2>2, <3>1
  <2>. QED  BY <1>3, <1>4, <2>2, <2>3 DEF q, K
<1>5. CASE kept # {}
  <2>1. kept \in SUBSET Nat
    BY <1>1
  <2>. HIDE DEF kept
  <2>2. c \in kept /\ \A x \in kept : c <= x
    BY <1>5, <2>1, LeastMember
  <2>. HIDE DEF c
  <2>3. q = prune_below(r, c) /\ c \in Int
    BY <1>2, <1>5, <2>1, <2>2
  <2>4. SoundRing({Stored}, q) /\ RingKeys(q) = {s \in K : s >= c}
    BY <2>3, RingPrunes DEF K
  <2>5. {s \in K : s >= c} = kept
    <3>1. c \in Nat /\ seq - c < PendingSpanMax
      BY <1>3, <2>1, <2>2
    <3>2. \A s \in K : s >= c => seq - s < PendingSpanMax
      BY <1>1, <3>1, PendingAssumption
    <3>. QED  BY <1>1, <1>3, <2>1, <2>2, <3>2
  <2>. QED  BY <1>3, <2>4, <2>5 DEF q, K
<1>. QED  BY <1>4, <1>5

(* What an eviction queue with one key too many evicts.                    *)
LEMMA QueueTurns ==
    ASSUME NEW s \in Seq(Nat), NEW d \in Nat
    PROVE  /\ Append(s, d) \in Seq(Nat) /\ Len(Append(s, d)) = Len(s) + 1
           /\ ToSet(Append(s, d)) = ToSet(s) \cup {d}
           /\ Head(Append(s, d)) \in Nat
           /\ Tail(Append(s, d)) \in Seq(Nat) /\ Len(Tail(Append(s, d))) = Len(s)
           /\ ToSet(s) \cup {d} \subseteq ToSet(Tail(Append(s, d))) \cup {Head(Append(s, d))}
<1> DEFINE n == Len(s)
           t == Append(s, d)
           u == Tail(t)
<1>1. n \in Nat /\ DOMAIN s = 1 .. n
  OBVIOUS
<1>2. t \in Seq(Nat) /\ Len(t) = n + 1 /\ DOMAIN t = 1 .. n + 1
  OBVIOUS
<1>3. (\A i \in 1 .. n : t[i] = s[i]) /\ t[n + 1] = d
  OBVIOUS
<1>. HIDE DEF t, n
<1>4. ToSet(t) = ToSet(s) \cup {d}
  <2>1. 1 .. n + 1 = (1 .. n) \cup {n + 1}
    BY <1>1
  <2>. QED  BY <1>1, <1>2, <1>3, <2>1 DEF ToSet
<1>5. t # <<>> /\ Head(t) = t[1]
  BY <1>1, <1>2
<1>6. u \in Seq(Nat) /\ Len(u) = n /\ \A i \in 1 .. n : u[i] = t[i + 1]
  BY <1>1, <1>2, <1>5
<1>7. Head(t) \in Nat
  BY <1>1, <1>2, <1>5
<1>. HIDE DEF u
<1>8. ToSet(t) \subseteq ToSet(u) \cup {Head(t)}
  <2> SUFFICES ASSUME NEW i \in 1 .. n + 1, t[i] # Head(t)
               PROVE  t[i] \in ToSet(u)
    BY <1>2 DEF ToSet
  <2>1. i # 1 /\ i - 1 \in 1 .. n /\ (i - 1) + 1 = i
    BY <1>1, <1>5
  <2>2. t[i] = u[i - 1]
    BY <1>6, <2>1
  <2>3. DOMAIN u = 1 .. n
    BY <1>6
  <2>. QED  BY <2>1, <2>2, <2>3 DEF ToSet
<1>. QED  BY <1>2, <1>4, <1>6, <1>7, <1>8 DEF t, u, n

(* What the records are while one is put in: f the ring with what it spans  *)
(* too far shed, K its keys.                                               *)
Fitted(p, m, seq, f, K) ==
    /\ SoundRing({Stored}, f) /\ RingKeys(f) = K
    /\ K = {s \in m : seq - s < PendingSpanMax}
    /\ \A a, b \in K \cup {seq} : a - b < PendingSpanMax

(***************************************************************************)
(* A record is refused, or put in after what it leaves too far behind is   *)
(* shed, taking out the oldest key when there are too many: in the ring as *)
(* in the map.                                                             *)
(***************************************************************************)
LEMMA InsertParks ==
    ASSUME Parks(lat_pending, parked), NEW seq \in Nat
    PROVE  Parks(pending_insert(lat_pending, seq, Stored).p, ParkedInsert(seq, lat_pending.order))
<1> DEFINE p == lat_pending
           m == parked
           lo == first_key(p.ring)
           hi == last_key(p.ring)
           fit == IF lo = -1 \/ seq < lo THEN [r |-> p.ring, lost |-> 0] ELSE shed_span(p.ring, seq)
           f == fit.r
           new == ring_get(f, seq) = None
           one == [p EXCEPT !.ring = ring_insert(f, seq, Stored),
                            !.order = IF new THEN Append(@, seq) ELSE @]
           far == seq < p.floor \/ (lo # -1 /\ seq < lo /\ hi - seq >= PendingSpanMax)
           K == {s \in m : seq - s < PendingSpanMax}
           next == Append(p.order, seq)
           q == pending_insert(p, seq, Stored).p
           n == ParkedInsert(seq, p.order)
<1>1. /\ p = [ring |-> p.ring, order |-> p.order, floor |-> p.floor]
      /\ SoundRing({Stored}, p.ring) /\ RingKeys(p.ring) = m
      /\ p.order \in Seq(Nat) /\ Len(p.order) <= PendingMax /\ m \subseteq ToSet(p.order)
      /\ p.floor \in Nat /\ \A a, b \in m : a - b < PendingSpanMax
  BY DEF Parks
<1>2. m \in SUBSET Nat /\ IsFiniteSet(m)
  <2>1. p.ring \in Rings({Stored})
    BY <1>1 DEF SoundRing
  <2>. QED  BY <1>1, <2>1, RingContents
<1>3. /\ m = {} => lo = -1 /\ hi = -1
      /\ m # {} => /\ lo \in m /\ (\A s \in m : lo <= s) /\ lo # -1
                   /\ hi \in m /\ \A s \in m : s <= hi
  <2>1. /\ m = {} => lo = -1 /\ hi = -1
        /\ m # {} => /\ lo \in m /\ (\A s \in m : lo <= s)
                     /\ hi \in m /\ \A s \in m : s <= hi
    BY <1>1, RingEnds
  <2>. HIDE DEF lo, hi
  <2>2. m # {} => lo # -1
    BY <1>2, <2>1
  <2>. QED  BY <2>1, <2>2
<1>4. m # {} => Min(m) = lo /\ Max(m) = hi
  <2> SUFFICES ASSUME m # {}
               PROVE  Min(m) = lo /\ Max(m) = hi
    OBVIOUS
  <2>1. Min(m) \in m /\ \A s \in m : Min(m) <= s
    BY <1>2, LeastMember DEF Min
  <2>2. Max(m) \in m /\ \A s \in m : s <= Max(m)
    <3>1. m \in SUBSET Int
      BY <1>2
    <3>. QED  BY <1>2, <3>1, MaxMember
  <2>. HIDE DEF lo, hi
  <2>3. lo \in Nat /\ hi \in Nat /\ Min(m) \in Nat /\ Max(m) \in Nat
    BY <1>2, <1>3, <2>1, <2>2
  <2>4. lo <= Min(m) /\ Min(m) <= lo /\ hi <= Max(m) /\ Max(m) <= hi
    BY <1>3, <2>1, <2>2
  <2>. QED  BY <2>3, <2>4
<1>5. q = IF far THEN p ELSE evict(one).p
  BY DEF pending_insert, Counted
<1>6. n = IF far THEN m
          ELSE IF seq \in K \/ Len(p.order) < PendingMax THEN K \cup {seq}
          ELSE (K \cup {seq}) \ {Head(next)}
  <2>1. K = IF m = {} THEN {} ELSE {s \in m : seq - s < PendingSpanMax}
    OBVIOUS
  <2>. HIDE DEF lo, hi, K
  <2>2. far <=> seq < p.floor \/ (m # {} /\ seq < Min(m) /\ Max(m) - seq >= PendingSpanMax)
    BY <1>3, <1>4
  <2>. HIDE DEF far
  <2>. QED  BY <2>1, <2>2 DEF ParkedInsert
<1>7. CASE far
  BY <1>5, <1>6, <1>7
<1>8. CASE ~far
  <2>1. Fitted(p, m, seq, f, K)
    <3>1. CASE m = {} \/ seq < lo
      <4>1. f = p.ring
        BY <1>3, <3>1
      <4>. HIDE DEF f, lo, hi
      <4>2. \A s \in m : seq < s /\ s - seq < PendingSpanMax
        <5> SUFFICES ASSUME NEW s \in m
                     PROVE  seq < s /\ s - seq < PendingSpanMax
          OBVIOUS
        <5>1. lo \in Nat /\ hi \in Nat /\ s \in Nat /\ lo <= s /\ s <= hi /\ seq < lo /\ lo # -1
          BY <1>2, <1>3, <3>1
        <5>2. hi - seq < PendingSpanMax
          BY <1>8, <5>1, PendingAssumption
        <5>. QED  BY <5>1, <5>2, PendingAssumption
      <4>3. \A s \in m : seq - s < PendingSpanMax
        BY <1>2, <4>2, PendingAssumption
      <4>4. K = m
        BY <4>3
      <4>5. \A a, b \in m \cup {seq} : a - b < PendingSpanMax
        BY <1>1, <1>2, <4>2, <4>3, PendingAssumption
      <4>. HIDE DEF K
      <4>. QED  BY <1>1, <4>1, <4>3, <4>4, <4>5 DEF Fitted, K
    <3>2. CASE m # {} /\ ~(seq < lo)
      <4>1. f = shed_span(p.ring, seq).r
        BY <1>3, <3>2
      <4>. HIDE DEF f
      <4>2. SoundRing({Stored}, f) /\ RingKeys(f) = K
        BY <1>1, <4>1, ShedKeeps
      <4>3. \A a, b \in K \cup {seq} : a - b < PendingSpanMax
        <5> HIDE DEF lo, hi
        <5> SUFFICES ASSUME NEW a \in K \cup {seq}, NEW b \in K \cup {seq}
                     PROVE  a - b < PendingSpanMax
          OBVIOUS
        <5>1. CASE a = seq /\ b = seq
          BY <5>1, PendingAssumption
        <5>2. CASE a = seq /\ b \in K
          BY <5>2
        <5>3. CASE a \in K /\ b \in K
          BY <1>1, <5>3
        <5>4. CASE a \in K /\ b = seq
          <6>1. a - lo < PendingSpanMax /\ lo \in Nat /\ a \in Nat
            BY <1>1, <1>2, <1>3, <3>2, <5>4
          <6>. QED  BY <3>2, <5>4, <6>1, PendingAssumption
        <5>. QED  BY <5>1, <5>2, <5>3, <5>4
      <4>. QED  BY <4>2, <4>3 DEF Fitted
    <3>. QED  BY <3>1, <3>2
  <2> DEFINE big == ring_insert(f, seq, Stored)
             order == IF new THEN next ELSE p.order
  <2>2. one = [ring |-> big, order |-> order, floor |-> p.floor]
    <3>1. one = [p EXCEPT !.ring = big, !.order = order]
      OBVIOUS
    <3>. HIDE DEF big, p, new, order, one
    <3>. QED  BY <1>1, <3>1, Rebuilt
  <2>. HIDE DEF f, far, one
  <2>3. f \in Rings({Stored}) /\ SoundRing({Stored}, f) /\ RingKeys(f) = K
    BY <2>1 DEF Fitted, SoundRing
  <2>4. SoundRing({Stored}, big) /\ RingKeys(big) = K \cup {seq}
    <3>1. Stored # None /\ Stored \in {Stored}
      BY EvictAssumption DEF Stored
    <3>. QED  BY <2>3, <3>1, RingInserts
  <2>5. new <=> seq \notin K
    <3>1. RingKeys(f) = {s \in Int : ring_get(f, s) # None}
      BY <2>3, RingContents
    <3>. HIDE DEF K
    <3>. QED  BY <2>3, <3>1
  <2>. HIDE DEF big, new, p
  <2>6. /\ next \in Seq(Nat) /\ Len(next) = Len(p.order) + 1 /\ ToSet(next) = ToSet(p.order) \cup {seq}
        /\ Head(next) \in Nat /\ Tail(next) \in Seq(Nat) /\ Len(Tail(next)) = Len(p.order)
        /\ ToSet(p.order) \cup {seq} \subseteq ToSet(Tail(next)) \cup {Head(next)}
    BY <1>1, QueueTurns
  <2>. HIDE DEF next, q, n, m
  <2>7. \A a, b \in K \cup {seq} : a - b < PendingSpanMax
    BY <2>1 DEF Fitted
  <2>8. Len(p.order) \in Nat /\ K \subseteq ToSet(p.order)
    BY <1>1
  <2>. HIDE DEF K
  <2>9. q = evict(one).p
    BY <1>5, <1>8
  <2>10. CASE seq \in K
    <3>1. order = p.order /\ n = K \cup {seq}
      BY <1>6, <1>8, <2>5, <2>10
    <3>2. q = [ring |-> big, order |-> p.order, floor |-> p.floor]
      <4>1. one.order = p.order /\ Len(one.order) <= PendingMax
        BY <1>1, <2>2, <3>1
      <4>2. evict(one) = Counted(one, 0)
        BY <4>1 DEF evict
      <4>. QED  BY <2>2, <2>9, <3>1, <4>2 DEF Counted
    <3>4. K \cup {seq} \subseteq ToSet(p.order)
      BY <2>8, <2>10
    <3>9. Parks(q, n)
      BY <1>1, <2>4, <2>7, <3>1, <3>2, <3>4, ParksOf
    <3>. QED  BY <3>9 DEF p, q, n
  <2>11. CASE seq \notin K /\ Len(p.order) < PendingMax
    <3>1. order = next /\ n = K \cup {seq}
      BY <1>6, <1>8, <2>5, <2>11
    <3>2. Len(next) <= PendingMax
      BY <2>6, <2>8, <2>11, PendingAssumption
    <3>3. q = [ring |-> big, order |-> next, floor |-> p.floor]
      <4>1. one.order = next
        BY <2>2, <3>1
      <4>2. evict(one) = Counted(one, 0)
        BY <3>2, <4>1 DEF evict
      <4>. QED  BY <2>2, <2>9, <3>1, <4>2 DEF Counted
    <3>5. K \cup {seq} \subseteq ToSet(next)
      BY <2>6, <2>8
    <3>9. Parks(q, n)
      BY <1>1, <2>4, <2>6, <2>7, <3>1, <3>2, <3>3, <3>5, ParksOf
    <3>. QED  BY <3>9 DEF p, q, n
  <2>12. CASE seq \notin K /\ ~(Len(p.order) < PendingMax)
    <3> DEFINE small == ring_remove(big, Head(next))
    <3>1. order = next /\ n = (K \cup {seq}) \ {Head(next)}
      BY <1>6, <1>8, <2>5, <2>12
    <3>2. ~(Len(next) <= PendingMax) /\ Len(Tail(next)) <= PendingMax
      BY <1>1, <2>6, <2>8, <2>12, PendingAssumption
    <3>3. q = [ring |-> small, order |-> Tail(next), floor |-> p.floor]
      <4>1. one = [ring |-> big, order |-> next, floor |-> p.floor]
        BY <2>2, <3>1
      <4>2. one.order = next /\ one.ring = big
        BY <4>1
      <4>3. evict(one).p = [one EXCEPT !.order = Tail(@), !.ring = ring_remove(@, Head(next))]
        BY <3>2, <4>2 DEF evict, Counted
      <4>. QED  BY <2>9, <4>1, <4>3
    <3>. HIDE DEF small
    <3>5. SoundRing({Stored}, small) /\ RingKeys(small) = (K \cup {seq}) \ {Head(next)}
      <4>1. Head(next) \in Int
        BY <2>6
      <4>. QED  BY <2>4, <4>1, RingRemoves DEF small
    <3>6. (K \cup {seq}) \ {Head(next)} \subseteq ToSet(Tail(next))
      BY <2>6, <2>8
    <3>7. \A a, b \in (K \cup {seq}) \ {Head(next)} : a - b < PendingSpanMax
      BY <2>7
    <3>9. Parks(q, n)
      BY <1>1, <2>6, <3>1, <3>2, <3>3, <3>5, <3>6, <3>7, ParksOf
    <3>. QED  BY <3>9 DEF p, q, n
  <2>. QED  BY <2>10, <2>11, <2>12 DEF p, q, n
<1>. QED  BY <1>7, <1>8 DEF p, q, n

(***************************************************************************)
(* A delivery takes the record of its seq, and one at or above the floor   *)
(* those below it.                                                         *)
(***************************************************************************)
LEMMA DeliverParks ==
    ASSUME NEW p, NEW m, Parks(p, m), NEW d \in Nat
    PROVE  Parks(pending_deliver(p, d).p, ParkedDeliver(m, d, p.floor))
<1> DEFINE taken == ring_remove(p.ring, d)
           above == prune_below(taken, d + 1)
           q == pending_deliver(p, d).p
           n == ParkedDeliver(m, d, p.floor)
<1>1. /\ p = [ring |-> p.ring, order |-> p.order, floor |-> p.floor]
      /\ SoundRing({Stored}, p.ring) /\ RingKeys(p.ring) = m
      /\ p.order \in Seq(Nat) /\ Len(p.order) <= PendingMax /\ m \subseteq ToSet(p.order)
      /\ p.floor \in Nat /\ \A a, b \in m : a - b < PendingSpanMax
  BY DEF Parks
<1>2. m \in SUBSET Nat
  <2>1. p.ring \in Rings({Stored})
    BY <1>1 DEF SoundRing
  <2>. QED  BY <1>1, <2>1, RingContents
<1>3. SoundRing({Stored}, taken) /\ RingKeys(taken) = m \ {d}
  BY <1>1, RingRemoves
<1>4. SoundRing({Stored}, above) /\ RingKeys(above) = {s \in m : s > d}
  <2>1. d + 1 \in Int
    OBVIOUS
  <2>. HIDE DEF taken
  <2>2. SoundRing({Stored}, above) /\ RingKeys(above) = {s \in m \ {d} : s >= d + 1}
    BY <1>3, <2>1, RingPrunes
  <2>3. {s \in m \ {d} : s >= d + 1} = {s \in m : s > d}
    <3>1. \A s \in m : s > d <=> s # d /\ s >= d + 1
      BY <1>2
    <3>. QED  BY <3>1
  <2>. QED  BY <2>2, <2>3
<1>5. CASE d >= p.floor
  <2>1. q = [p EXCEPT !.ring = above, !.floor = d + 1] /\ n = {s \in m : s > d}
    BY <1>5 DEF pending_deliver, Counted, ParkedDeliver
  <2>. HIDE DEF taken, above, q, n
  <2>2. q = [ring |-> above, order |-> p.order, floor |-> d + 1]
    BY <1>1, <2>1, Rebuilt
  <2>3. d + 1 \in Nat /\ n \subseteq ToSet(p.order) /\ \A a, b \in n : a - b < PendingSpanMax
    BY <1>1, <2>1
  <2>4. Parks(q, n)
    BY <1>1, <1>4, <2>1, <2>2, <2>3, ParksOf
  <2>. QED  BY <2>4 DEF q, n
<1>6. CASE ~(d >= p.floor)
  <2>1. q = [p EXCEPT !.ring = taken] /\ n = m \ {d}
    BY <1>6 DEF pending_deliver, Counted, ParkedDeliver
  <2>. HIDE DEF taken, above, q, n
  <2>2. q = [ring |-> taken, order |-> p.order, floor |-> p.floor]
    BY <1>1, <2>1, Rebuilt
  <2>3. n \subseteq ToSet(p.order) /\ \A a, b \in n : a - b < PendingSpanMax
    BY <1>1, <2>1
  <2>4. Parks(q, n)
    BY <1>1, <1>3, <2>1, <2>2, <2>3, ParksOf
  <2>. QED  BY <2>4 DEF q, n
<1>. QED  BY <1>5, <1>6

(* What a working state's records do through a delivery.                   *)
Keeping(w) == DOMAIN w = Fields /\ Parks(w.p, w.m)

(* The records through the deliveries of a push.                           *)
LEMMA DeliveriesPark ==
    ASSUME NEW w, Keeping(w), NEW out \in Seq(Nat), NEW late
    PROVE  Keeping(Deliveries(w, out, late))
<1> DEFINE n == Len(out)
<1>st. PICK st : Stages(st, w, out, late)
  BY DeliverySteps
<1>1. /\ st[0] = w
      /\ \A k \in 1 .. n : st[k] = Deliver(st[k - 1], out[k], late)
      /\ Deliveries(w, out, late) = st[n]
  BY <1>st DEF Stages
<1> DEFINE S == {k \in 0 .. n : Keeping(st[k])}
<1>2. n \in Nat /\ n \in 0 .. n /\ 0 \in 0 .. n /\ \A k \in 1 .. n : out[k] \in Nat
  OBVIOUS
<1>3. 0 \in S
  BY <1>1, <1>2
<1>4. ASSUME NEW k \in 0 .. n - 1, k \in S
      PROVE  k + 1 \in S
  <2> DEFINE d == out[k + 1]
             u == st[k]
             v == st[k + 1]
  <2>1. k + 1 \in 1 .. n /\ (k + 1) - 1 = k /\ k + 1 \in 0 .. n
    BY <1>2
  <2>2. v = Deliver(u, d, late) /\ d \in Nat
    BY <1>1, <1>2, <2>1
  <2>3. DOMAIN u = Fields /\ Parks(u.p, u.m)
    BY <1>4 DEF Keeping
  <2>. HIDE DEF d, u, v
  <2>4. /\ DOMAIN v = Fields /\ v.p = pending_deliver(u.p, d).p
        /\ v.m = ParkedDeliver(u.m, d, u.p.floor)
    BY <2>2, <2>3 DEF Deliver, Fields
  <2>5. Keeping(v)
    BY <2>2, <2>3, <2>4, DeliverParks DEF Keeping
  <2>. QED  BY <2>1, <2>5 DEF v
<1>. HIDE DEF S
<1>5. n \in S
  BY <1>2, <1>3, <1>4, IntervalInduction
<1>. QED  BY <1>1, <1>5 DEF S

(* The records through the push of one new seq.                            *)
LEMMA PushParks ==
    ASSUME NEW w, NEW H, Holds(w, H), Keeping(w), NEW seq \in Nat, seq \notin H
    PROVE  Keeping(push_symbol(w, seq))
<1> DEFINE late == seq < w.rb.next
           pushed == push(w.rb, seq)
           passed == pushed.rb.next - w.rb.next
           next == [w EXCEPT !.rb = pushed.rb, !.ab = @ \ {seq},
                             !.fc = IF late THEN @ ELSE @ + passed - Len(pushed.out)]
           fed == Deliveries(next, pushed.out, late)
<1>1. push_symbol(w, seq) = Sweep(fed)
  BY DEF push_symbol
<1>2. /\ w.rb \in Buffers /\ OneToOne(w.rb.pending) /\ seq \notin ToSet(w.rb.pending)
      /\ DOMAIN w = Fields
  BY DEF Holds
<1>3. DOMAIN next = Fields /\ next.p = w.p /\ next.m = w.m
  BY <1>2 DEF Fields
<1>4. Moves(ToSet(w.rb.pending) \cup {seq}, pushed)
  BY <1>2, PushMoves
<1>5. pushed.out \in Seq(Nat)
  BY <1>4 DEF Moves
<1>. HIDE DEF next, pushed, late
<1>6. Keeping(next)
  BY <1>3 DEF Keeping
<1>7. Keeping(fed)
  BY <1>5, <1>6, DeliveriesPark
<1>. HIDE DEF fed
<1>8. DOMAIN Sweep(fed) = Fields /\ Sweep(fed).p = fed.p /\ Sweep(fed).m = fed.m
  BY <1>7 DEF Keeping, Sweep, Fields
<1>. QED  BY <1>1, <1>7, <1>8 DEF Keeping

(* The records through the pushes of a message.                            *)
LEMMA PushesPark ==
    ASSUME NEW w, NEW H, Holds(w, H), Keeping(w),
           NEW order \in Seq(Nat), OneToOne(order), ToSet(order) \cap H = {}
    PROVE  Keeping(Pushes(w, order))
<1> DEFINE n == Len(order)
<1>1. PICK st : /\ st[0] = w
                /\ \A k \in 1 .. n : st[k] = push_symbol(st[k - 1], order[k])
                /\ Pushes(w, order) = st[n]
  BY PushSteps
<1> DEFINE Given(k) == H \cup {order[i] : i \in 1 .. k}
           S == {k \in 0 .. n : Holds(st[k], Given(k)) /\ Keeping(st[k])}
<1>2. /\ n \in Nat /\ n \in 0 .. n /\ 0 \in 0 .. n /\ (\A k \in 1 .. n : order[k] \in Nat)
      /\ DOMAIN order = 1 .. n
  OBVIOUS
<1>3. 0 \in S
  <2>1. Given(0) = H
    OBVIOUS
  <2>. HIDE DEF Given
  <2>. QED  BY <1>1, <1>2, <2>1
<1>4. ASSUME NEW k \in 0 .. n - 1, k \in S
      PROVE  k + 1 \in S
  <2> DEFINE d == order[k + 1]
  <2>1. k + 1 \in 1 .. n /\ (k + 1) - 1 = k /\ k + 1 \in 0 .. n /\ \A i \in 1 .. k : i \in 1 .. n /\ i # k + 1
    BY <1>2
  <2>2. st[k + 1] = push_symbol(st[k], d) /\ d \in Nat
    BY <1>1, <1>2, <2>1
  <2>3. d \notin Given(k)
    <3>1. d \in ToSet(order)
      BY <1>2, <2>1 DEF ToSet
    <3>2. \A i \in 1 .. k : order[i] # d
      BY <1>2, <2>1 DEF OneToOne
    <3>. HIDE DEF d
    <3>. QED  BY <3>1, <3>2
  <2>4. Given(k + 1) = Given(k) \cup {d}
    <3>1. 1 .. k + 1 = (1 .. k) \cup {k + 1}
      BY <1>2
    <3>. QED  BY <3>1
  <2>. HIDE DEF Given, d
  <2>5. Holds(st[k], Given(k)) /\ Keeping(st[k])
    BY <1>4
  <2>6. Holds(st[k + 1], Given(k + 1))
    BY <2>2, <2>3, <2>4, <2>5, PushHands
  <2>7. Keeping(st[k + 1])
    BY <2>2, <2>3, <2>5, PushParks
  <2>. QED  BY <2>1, <2>6, <2>7
<1>. HIDE DEF S
<1>5. n \in S
  BY <1>2, <1>3, <1>4, IntervalInduction
<1>. QED  BY <1>1, <1>5 DEF S

(***************************************************************************)
(* A message, its own arrival put on record first.                         *)
(***************************************************************************)
LEMMA MessageParks ==
    ASSUME EvictInv, Parks(lat_pending, parked), NEW own \in SUBSET Nat,
           NEW order \in Seq(Nat), OneToOne(order),
           \A s \in ToSet(order) : fresh(s), Message(own, order)
    PROVE  Parks(lat_pending', parked')
<1> DEFINE R == ToSet(order)
           src == own # {}
           s0 == CHOOSE x \in own : TRUE
           p == IF src THEN pending_insert(lat_pending, s0, TRUE).p ELSE lat_pending
           m == IF src THEN ParkedInsert(s0, lat_pending.order) ELSE parked
           high == Observed(resolve_at(succ, R, own), order)
           w0 == Working(succ, lat_pending, parked)
           w1 == Working(high, p, m)
           fed == Pushes(w1, order)
<1>1. PICK j \in 0 .. Len(fed.rb.pending) :
         lat_pending' = Expire(fed, j).p /\ parked' = Expire(fed, j).m
  <2>1. \E f \in {fed} :
           \E j \in 0 .. Len(f.rb.pending) :
           \E w \in {Expire(f, j)} : lat_pending' = w.p /\ parked' = w.m
    BY ZenonT(40) DEF Message
  <2>. HIDE DEF fed
  <2>. QED  BY <2>1, Zenon
<1>2. /\ decoded \subseteq Entrusted
      /\ (\A s \in Entrusted : s \in decoded \/ s < decoder_floor)
      /\ Holds(w0, Entrusted) /\ decoder_floor \in Int
  BY DEF EvictInv, Books
<1>3. R \cap Entrusted = {}
  <2>1. \A s \in R : s >= decoder_floor /\ s \notin decoded /\ s \in Nat
    BY PendingFinite DEF fresh
  <2>. QED  BY <1>2, <2>1
<1>4. Parks(p, m)
  <2>1. CASE src
    <3>1. s0 \in Nat
      BY <2>1
    <3>2. p = pending_insert(lat_pending, s0, Stored).p /\ m = ParkedInsert(s0, lat_pending.order)
      BY <2>1 DEF Stored
    <3>. HIDE DEF s0, p, m
    <3>. QED  BY <3>1, <3>2, InsertParks
  <2>2. CASE ~src
    BY <2>2
  <2>. QED  BY <2>1, <2>2
<1>. HIDE DEF high, p, m, R
<1>5. Holds(w1, Entrusted) /\ Keeping(w1)
  <2>1. /\ DOMAIN w1 = Fields /\ w1.rb = w0.rb /\ w1.ne = w0.ne /\ w1.out = w0.out
        /\ w1.p = p /\ w1.m = m
    BY DEF Working, Fields
  <2>. HIDE DEF w0, w1
  <2>. QED  BY <1>2, <1>4, <2>1 DEF Holds, Keeping
<1>. HIDE DEF w1
<1>6. Keeping(fed)
  BY <1>3, <1>5, PushesPark DEF R
<1>. HIDE DEF fed
<1>7. Expire(fed, j).p = fed.p /\ Expire(fed, j).m = fed.m
  BY <1>6 DEF Keeping, Expire, Fields
<1>. QED  BY <1>1, <1>6, <1>7 DEF Keeping

(***************************************************************************)
(* The books with the arrival records among them.                          *)
(***************************************************************************)
RecordInv == EvictInv /\ Parks(lat_pending, parked)

(* They hold at the start.                                                 *)
LEMMA RecordInvInit == EvictInit => RecordInv
<1> SUFFICES ASSUME EvictInit
             PROVE  RecordInv
  OBVIOUS
<1> DEFINE r == [base |-> 0, slots |-> <<>>, len |-> 0]
<1>1. lat_pending = [ring |-> r, order |-> <<>>, floor |-> 0] /\ parked = {}
  BY DEF EvictInit, EmptyPending, EmptyRing
<1>2. r \in Rings({Stored}) /\ r.slots = <<>> /\ r.len = 0
  BY DEF Rings
<1>. HIDE DEF r
<1>3. RingKeys(r) = {}
  <2>1. RingEnd(r) = r.base /\ r.base \in Nat
    BY <1>2 DEF RingEnd, Rings
  <2>. QED  BY <2>1 DEF RingKeys
<1>4. SoundRing({Stored}, r)
  BY <1>2, <1>3, FS_EmptySet DEF SoundRing, WellFormed
<1>5. <<>> \in Seq(Nat) /\ Len(<<>>) <= PendingMax /\ 0 \in Nat
  BY PendingAssumption
<1>6. Parks(lat_pending, parked)
  BY <1>1, <1>3, <1>4, <1>5, ParksOf
<1>. QED  BY <1>6, EvictInvInit DEF RecordInv

(* No step breaks them.                                                    *)
LEMMA RecordInvNext == RecordInv /\ [EvictNext]_evictVars => RecordInv'
<1> SUFFICES ASSUME RecordInv, [EvictNext]_evictVars
             PROVE  RecordInv'
  OBVIOUS
<1>1. EvictInv /\ Parks(lat_pending, parked)
  BY DEF RecordInv
<1>2. EvictInv'
  BY <1>1, EvictInvNext
<1>3. Parks(lat_pending', parked')
  <2>1. ASSUME NEW s \in SentSeqs, NEW C \in SUBSET SentSeqs, SourceArrives(s, C)
        PROVE  Parks(lat_pending', parked')
    <3>1. s \in Nat /\ {s} \in SUBSET Nat
      BY EvictAssumption DEF SentSeqs
    <3>2. CASE fresh(s)
      <4>1. /\ \A c \in C : fresh(c) /\ c # s
            /\ \E order \in SetToSeqs(C) : Message({s}, <<s>> \o order)
        BY <2>1, <3>2 DEF SourceArrives
      <4>2. PICK order \in SetToSeqs(C) : Message({s}, <<s>> \o order)
        BY <4>1
      <4> DEFINE one == <<s>>
                 all == one \o order
      <4>3. order \in Seq(Nat) /\ OneToOne(order) /\ ToSet(order) \subseteq C
        BY OrdersNameOnce
      <4>4. one \in Seq(Nat) /\ OneToOne(one) /\ ToSet(one) = {s}
        BY <3>1 DEF OneToOne, ToSet
      <4>5. Message({s}, all)
        BY <4>2
      <4>. HIDE DEF one
      <4>6. ToSet(one) \cap ToSet(order) = {}
        BY <4>1, <4>3, <4>4
      <4>7. all \in Seq(Nat) /\ OneToOne(all) /\ ToSet(all) = ToSet(one) \cup ToSet(order)
        BY <4>3, <4>4, <4>6, JoinedSets
      <4>. HIDE DEF all
      <4>8. \A d \in ToSet(all) : fresh(d)
        BY <3>2, <4>1, <4>3, <4>4, <4>7
      <4>. QED  BY <1>1, <3>1, <4>5, <4>7, <4>8, MessageParks
    <3>3. CASE ~fresh(s)
      <4>1. Message({s}, <<>>)
        BY <2>1, <3>3 DEF SourceArrives
      <4>2. \A d \in ToSet(<<>>) : fresh(d)
        BY NothingNew
      <4>. QED  BY <1>1, <3>1, <4>1, <4>2, NothingNew, MessageParks
    <3>. QED  BY <3>2, <3>3
  <2>2. ASSUME NEW C \in SUBSET SentSeqs, RepairArrives(C)
        PROVE  Parks(lat_pending', parked')
    <3>1. PICK order \in SetToSeqs(C) : Message({}, order)
      BY <2>2 DEF RepairArrives
    <3>2. \A c \in C : fresh(c)
      BY <2>2 DEF RepairArrives
    <3>3. order \in Seq(Nat) /\ OneToOne(order) /\ ToSet(order) \subseteq C
      BY OrdersNameOnce
    <3>4. \A d \in ToSet(order) : fresh(d)
      BY <3>2, <3>3
    <3>5. {} \in SUBSET Nat
      OBVIOUS
    <3>. QED  BY <1>1, <3>1, <3>3, <3>4, <3>5, MessageParks
  <2>3. CASE lat_pending' = lat_pending /\ parked' = parked
    BY <1>1, <2>3
  <2>4. CASE EvictSource
    BY <2>1, <2>4 DEF EvictSource
  <2>5. CASE EvictRepair
    BY <2>2, <2>5 DEF EvictRepair
  <2>6. CASE EvictTimer
    BY <2>3, <2>6 DEF EvictTimer, HoldTimer
  <2>7. CASE Wait
    BY <2>3, <2>7 DEF Wait
  <2>8. CASE UNCHANGED evictVars
    BY <2>3, <2>8 DEF evictVars
  <2>. QED  BY <2>4, <2>5, <2>6, <2>7, <2>8 DEF EvictNext
<1>. QED  BY <1>2, <1>3 DEF RecordInv

(* The records are those of the plain map, within both bounds.             *)
LEMMA ParksExact ==
    ASSUME Parks(lat_pending, parked)
    PROVE  ParkedExact
<1> DEFINE p == lat_pending
           r == p.ring
           m == parked
<1>1. /\ SoundRing({Stored}, r) /\ RingKeys(r) = m /\ p.order \in Seq(Nat)
      /\ Len(p.order) <= PendingMax /\ m \subseteq ToSet(p.order)
      /\ \A a, b \in m : a - b < PendingSpanMax
  BY DEF Parks
<1>2. WellFormed(r) /\ r \in Rings({Stored})
  BY <1>1 DEF SoundRing
<1>3. m \in SUBSET Nat /\ Cardinality(m) \in Nat
  BY <1>1, <1>2, RingContents
<1>. HIDE DEF p, r, m
<1>4. Len(r.slots) <= PendingSpanMax
  <2>1. Len(r.slots) = IF m = {} THEN 0 ELSE last_key(r) - first_key(r) + 1
    BY <1>1, RingEnds
  <2>2. m # {} => last_key(r) \in m /\ first_key(r) \in m
    BY <1>1, RingEnds
  <2>3. m # {} => last_key(r) - first_key(r) < PendingSpanMax /\ last_key(r) \in Nat /\ first_key(r) \in Nat
    BY <1>1, <1>3, <2>2
  <2>. QED  BY <2>1, <2>3, PendingAssumption
<1>5. r.len <= PendingMax
  <2>1. r.len = Cardinality(m)
    BY <1>1, <1>2 DEF WellFormed
  <2>2. DOMAIN p.order = 1 .. Len(p.order) /\ Len(p.order) \in Nat
    BY <1>1
  <2>3. p.order \in Surjection(DOMAIN p.order, ToSet(p.order))
    BY <1>1, <2>2 DEF ToSet, Surjection
  <2>4. IsFiniteSet(DOMAIN p.order) /\ Cardinality(DOMAIN p.order) = Len(p.order)
    BY <2>2, FS_Interval
  <2>5. IsFiniteSet(ToSet(p.order)) /\ Cardinality(ToSet(p.order)) <= Len(p.order)
    BY <2>3, <2>4, FS_Surjection
  <2>6. Cardinality(m) <= Cardinality(ToSet(p.order)) /\ Cardinality(ToSet(p.order)) \in Nat
    BY <1>1, <2>5, FS_Subset, FS_CardinalityType
  <2>. QED  BY <1>1, <1>3, <2>1, <2>2, <2>5, <2>6, PendingAssumption
<1>6. \A f \in 0 .. Sent + 1 :
         /\ count_below(r, f) = Cardinality({s \in m : s < f})
         /\ \A hi \in 0 .. Sent : ring_range(r, f, hi) = {s \in m : f <= s /\ s <= hi}
  <2>1. \A f \in 0 .. Sent + 1 : f \in Int
    BY EvictAssumption
  <2>2. \A hi \in 0 .. Sent : hi \in Int
    BY EvictAssumption
  <2>3. \A f \in 0 .. Sent + 1 : count_below(r, f) = Cardinality({s \in m : s < f})
    BY <1>1, <2>1, RingCounts
  <2>4. \A f \in 0 .. Sent + 1, hi \in 0 .. Sent : ring_range(r, f, hi) = {s \in m : f <= s /\ s <= hi}
    BY <1>1, <2>1, <2>2, RingRanges
  <2>. QED  BY <2>3, <2>4
<1>. QED  BY <1>1, <1>2, <1>4, <1>5, <1>6 DEF ParkedExact, p, r, m

-----------------------------------------------------------------------------
(***************************************************************************)
(* The books of an EVICT receiver are in order at every step.              *)
(***************************************************************************)
THEOREM EvictInvariance == EvictSpec => []EvictInv
BY EvictInvInit, EvictInvNext, PTL DEF EvictSpec

(***************************************************************************)
(* Each recovered symbol is handed over once or held still, whichever site *)
(* releases it and however often its copies arrive.                        *)
(***************************************************************************)
THEOREM HandsOnce == EvictSpec => []HandedOnce
BY EvictInvariance, EvictInvSays, PTL

(***************************************************************************)
(* The debug build's assertions on the delivery order never fail.          *)
(***************************************************************************)
THEOREM NoFalseAlarm == EvictSpec => []OnceHolds
BY EvictInvariance, EvictInvSays, PTL

(***************************************************************************)
(* The acknowledged frontier is the hold's, and each seq below it came in  *)
(* order or is counted among the holes given up.                           *)
(***************************************************************************)
THEOREM FrontiersAgree == EvictSpec => []FrontierAgrees
BY EvictInvariance, EvictInvSays, PTL

(***************************************************************************)
(* Every hole detected was filled by its original or by repair, abandoned, *)
(* is open, or is counted as beyond the bounds.                            *)
(***************************************************************************)
THEOREM HoleAccountCloses == EvictSpec => []HolesAccounted
BY EvictInvariance, EvictInvSays, PTL

(***************************************************************************)
(* The ring of arrival records stays the plain map it stands for, within   *)
(* both its bounds, whatever arrives and is delivered and in any order.    *)
(***************************************************************************)
THEOREM ParkedStaysExact == EvictSpec => []ParkedExact
<1>1. EvictSpec => []RecordInv
  BY RecordInvInit, RecordInvNext, PTL DEF EvictSpec
<1>2. RecordInv => ParkedExact
  BY ParksExact DEF RecordInv
<1>. QED  BY <1>1, <1>2, PTL
=============================================================================
