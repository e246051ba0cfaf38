--------------------------- MODULE LedgerProofs ---------------------------
(***************************************************************************)
(* Theorems about the sender's books.  What it reads off the gap reports   *)
(* is true, for any number of seqs, paths and reports, however late,       *)
(* truncated or overtaken these are, and with the tail sweep's own batches *)
(* among them.  The receiver's totals count what is missing, and what the  *)
(* sender's loss estimator is fed adds up, for any number of batches and   *)
(* of acks in flight.  The bitmap, the memo and the accounts of a reliable *)
(* window are the sets they stand for, whatever becomes of the reports.    *)
(***************************************************************************)
EXTENDS GapServer, PathLedger, SentLedger, DataLemmas, SequenceTheorems

-----------------------------------------------------------------------------
(***************************************************************************)
(* The gap reports.                                                        *)
(***************************************************************************)
(***************************************************************************)
(* What a batch of gaps may be read for: up to its last gap it leaves out  *)
(* only what is received, and the seq after that is received or the gap is *)
(* the lowest hole.                                                        *)
(***************************************************************************)
Honest(gaps, received) ==
    /\ gaps \in SUBSET Nat
    /\ \E m \in gaps :
          /\ \A s \in gaps : s <= m
          /\ \A s \in 0 .. m : s \in gaps \/ s \in received
          /\ m + 1 \in received \/ 0 .. m - 1 \subseteq received

(* The evidence of a path: ascending, of the path, between what is pruned  *)
(* and the watermark, and honest.                                          *)
Evidence(seq, p, pruned, top, received) ==
    /\ seq \in Seq(GapSeqs)
    /\ \A i \in 1 .. Len(seq) :
          /\ source_path_map[seq[i]] = p
          /\ pruned <= seq[i] /\ seq[i] <= top
          /\ \A j \in 1 .. i - 1 : seq[j] < seq[i]
          /\ seq[i] \in received \/ 0 .. seq[i] - 2 \subseteq received

-----------------------------------------------------------------------------
(***************************************************************************)
(* The inductive invariant.                                                *)
(***************************************************************************)
GapTyped ==
    /\ gap_received \in SUBSET GapSeqs
    /\ first_report \in SUBSET Nat
    /\ gap_next \in 0 .. GapCount
    /\ gap_acked \in Nat /\ gap_pruned \in Nat /\ mp_evid_max \in Nat
    /\ gap_rx \in Seq([reported : BOOLEAN, gaps : SUBSET Nat])

(* What is acknowledged is received, at the sender and on the wire.        *)
PointsTrue ==
    /\ 0 .. gap_acked - 1 \subseteq gap_received
    /\ 0 .. gap_pruned - 1 \subseteq gap_received

AcksTrue ==
    \A a \in gap_acks :
        /\ a.next_expected \in Nat
        /\ 0 .. a.next_expected - 1 \subseteq gap_received
        /\ a.sacked \subseteq gap_received

(* The batches that wait to be served.                                     *)
ReportsTrue ==
    /\ \A i \in 1 .. Len(gap_rx) : Honest(gap_rx[i].gaps, gap_received)
    /\ pending_gaps # NoReport => Honest(pending_gaps.gaps, gap_received)

EvidenceTrue ==
    /\ mp_delivered = [p \in GapPaths |-> mp_delivered[p]]
    /\ \A p \in GapPaths :
          Evidence(mp_delivered[p], p, gap_pruned, mp_evid_max, gap_received)

GapInv == GapTyped /\ PointsTrue /\ AcksTrue /\ ReportsTrue /\ EvidenceTrue

-----------------------------------------------------------------------------
(***************************************************************************)
(* What a list of gaps says.                                               *)
(***************************************************************************)

(* The last of a set's members.                                            *)
LEMMA LastMember ==
    ASSUME NEW S \in SUBSET Int, NEW m \in S, \A s \in S : s <= m
    PROVE  last_seq(S) = m
<1>1. last_seq(S) \in S /\ \A s \in S : s <= last_seq(S)
  BY DEF last_seq
<1>2. last_seq(S) <= m /\ m <= last_seq(S)
  BY <1>1
<1>3. last_seq(S) \in Int /\ m \in Int
  BY <1>1
<1>. QED  BY <1>2, <1>3

(* Honest, at the last gap.                                                *)
LEMMA HonestLast ==
    ASSUME NEW gaps, NEW received, Honest(gaps, received)
    PROVE  /\ gaps \in SUBSET Nat /\ last_seq(gaps) \in gaps /\ last_seq(gaps) \in Nat
           /\ \A s \in 0 .. last_seq(gaps) : s \in gaps \/ s \in received
           /\ last_seq(gaps) + 1 \in received \/ 0 .. last_seq(gaps) - 1 \subseteq received
<1>1. gaps \in SUBSET Nat
  BY DEF Honest
<1>2. PICK m \in gaps :
         /\ \A s \in gaps : s <= m
         /\ \A s \in 0 .. m : s \in gaps \/ s \in received
         /\ m + 1 \in received \/ 0 .. m - 1 \subseteq received
  BY DEF Honest
<1>3. last_seq(gaps) = m
  BY <1>1, <1>2, LastMember
<1>. QED  BY <1>1, <1>2, <1>3

(* What was honest stays so as more is received.                           *)
LEMMA HonestGrows ==
    ASSUME NEW gaps, NEW received, NEW more, Honest(gaps, received), received \subseteq more
    PROVE  Honest(gaps, more)
BY DEF Honest

(* The tail sweep's batch is honest: below its blocker all is received.    *)
LEMMA SweepHonest ==
    ASSUME NEW f \in Nat, NEW received, 0 .. f - 1 \subseteq received
    PROVE  Honest({f}, received)
<1>1. \A s \in 0 .. f : s \in {f} \/ s \in received
  <2>1. TAKE s \in 0 .. f
  <2>2. CASE s = f
    BY <2>2
  <2>3. CASE s # f
    BY <2>3
  <2>. QED  BY <2>2, <2>3
<1>2. \A s \in {f} : s <= f
  OBVIOUS
<1>. QED  BY <1>1, <1>2 DEF Honest

(***************************************************************************)
(* The first runs of a set keep everything up to their last member, and    *)
(* the seq after that is not in the set.                                   *)
(***************************************************************************)
LEMMA FirstRunsClosed ==
    ASSUME NEW H \in SUBSET Nat, IsFiniteSet(H), NEW limit \in Nat,
           NEW m \in FirstRuns(H, limit), \A s \in FirstRuns(H, limit) : s <= m
    PROVE  /\ \A s \in H : s <= m => s \in FirstRuns(H, limit)
           /\ m + 1 \notin H
<1> DEFINE Up(s) == {b \in RunStarts(H) : b <= s}
<1>1. m \in H /\ m \in Nat /\ Cardinality(Up(m)) <= limit
  BY DEF FirstRuns
<1>2. RunStarts(H) \subseteq H
  BY DEF RunStarts
<1>3. \A s : IsFiniteSet(Up(s)) /\ Cardinality(Up(s)) \in Nat
  <2>1. \A s : Up(s) \subseteq H
    BY <1>2
  <2>. QED  BY <2>1, FS_Subset, FS_CardinalityType
<1>4. ASSUME NEW s \in H, Up(s) \subseteq Up(m)
      PROVE  s \in FirstRuns(H, limit)
  <2>1. Cardinality(Up(s)) <= Cardinality(Up(m))
    BY <1>3, <1>4, FS_Subset
  <2>2. Cardinality(Up(s)) <= limit
    BY <1>1, <1>3, <2>1
  <2>. QED  BY <1>4, <2>2 DEF FirstRuns
<1>5. ASSUME NEW s \in H, s <= m
      PROVE  s \in FirstRuns(H, limit)
  <2>1. \A b \in RunStarts(H) : b <= s => b <= m
    <3>1. s \in Nat /\ m \in Nat /\ s <= m /\ \A b \in RunStarts(H) : b \in Nat
      BY <1>1, <1>2, <1>5
    <3>. QED  BY <3>1
  <2>2. Up(s) \subseteq Up(m)
    BY <2>1
  <2>. QED  BY <1>4, <2>2
<1>6. ASSUME m + 1 \in H
      PROVE  FALSE
  <2>1. \A b \in RunStarts(H) : b <= m + 1 => b <= m
    <3>1. SUFFICES ASSUME NEW b \in RunStarts(H), b <= m + 1, ~ (b <= m)
                   PROVE  FALSE
      OBVIOUS
    <3>2. b \in Nat
      BY <1>2
    <3>3. b - 1 = m
      BY <3>1, <3>2, <1>1
    <3>4. b - 1 \notin H
      BY DEF RunStarts
    <3>. QED  BY <3>3, <3>4, <1>1
  <2>2. Up(m + 1) \subseteq Up(m)
    BY <2>1
  <2>3. m + 1 \in FirstRuns(H, limit)
    BY <1>4, <1>6, <2>2
  <2>. QED  BY <2>3, <1>1
<1>. QED  BY <1>5, <1>6

(***************************************************************************)
(* The holes the sender reads off an ack are an honest batch, cut short or *)
(* not.                                                                    *)
(***************************************************************************)
LEMMA GapsHonest ==
    ASSUME NEW received \in SUBSET Nat, IsFiniteSet(received), NEW f \in Nat,
           0 .. f - 1 \subseteq received, NEW sacked \in SUBSET received, NEW limit \in Nat,
           sack_to_gaps(f, sacked, limit) # {}
    PROVE  Honest(sack_to_gaps(f, sacked, limit), received)
<1> DEFINE L == last_seq(sacked)
           H == (f .. L) \ sacked
           G == FirstRuns(H, limit)
<1>1. sacked # {} /\ sack_to_gaps(f, sacked, limit) = G
  BY DEF sack_to_gaps
<1>2. sacked \in SUBSET Int /\ IsFiniteSet(sacked)
  <2>1. IsFiniteSet(sacked)
    BY FS_Subset, Zenon
  <2>. QED  BY <2>1
<1>3. PICK top \in sacked : \A s \in sacked : s <= top
  BY <1>1, <1>2, FiniteGreatest
<1>4. L \in sacked /\ L \in Nat
  BY <1>2, <1>3, LastMember
<1>5. H \in SUBSET Nat /\ IsFiniteSet(H)
  <2>1. IsFiniteSet(f .. L)
    <3>1. f \in Int /\ L \in Int
      BY <1>4
    <3>. QED  BY <3>1, FS_Interval, Zenon
  <2>2. H \in SUBSET (f .. L)
    OBVIOUS
  <2>3. IsFiniteSet(H)
    BY <2>1, <2>2, FS_Subset, Zenon
  <2>4. f .. L \subseteq Nat
    BY <1>4
  <2>. QED  BY <2>2, <2>3, <2>4
<1>6. G \subseteq H
  BY DEF FirstRuns
<1>7. G \in SUBSET Int /\ IsFiniteSet(G) /\ G # {}
  <2>1. IsFiniteSet(G)
    BY <1>5, <1>6, FS_Subset, Zenon
  <2>2. G \in SUBSET Int
    BY <1>5, <1>6
  <2>. QED  BY <2>1, <2>2, <1>1
<1>8. PICK m \in G : \A s \in G : s <= m
  BY <1>7, FiniteGreatest
<1>9. /\ \A s \in H : s <= m => s \in G
      /\ m + 1 \notin H
  BY <1>5, <1>8, FirstRunsClosed
<1>10. m \in Nat /\ f <= m /\ m <= L /\ m \notin sacked
  BY <1>5, <1>6
<1>11. m + 1 \in f .. L
  BY <1>4, <1>10
<1>12. m + 1 \in received
  BY <1>9, <1>11
<1>13. ASSUME NEW s \in 0 .. m
       PROVE  s \in G \/ s \in received
  <2>1. CASE s < f
    BY <2>1
  <2>2. CASE s >= f
    <3>1. s \in f .. L
      BY <2>2, <1>4, <1>10
    <3>. QED  BY <3>1, <1>9, <1>13
  <2>. QED  BY <2>1, <2>2
<1>14. G \in SUBSET Nat
  BY <1>5, <1>6
<1>15. Honest(G, received)
  BY <1>8, <1>12, <1>13, <1>14 DEF Honest
<1>. QED  BY <1>1, <1>15

(* The receiver's cumulative point exists: all below it is received.       *)
LEMMA FrontierExists ==
    ASSUME gap_received \in SUBSET GapSeqs
    PROVE  GapFrontier \in Nat /\ 0 .. GapFrontier - 1 \subseteq gap_received
<1> DEFINE U == {f \in 0 .. GapCount : f \notin gap_received}
<1>1. GapCount \in Nat
  BY GapAssumption
<1>2. GapCount \in U /\ U \in SUBSET Nat
  BY <1>1 DEF GapSeqs
<1>3. PICK f \in U : \A u \in U : f <= u
  BY <1>2, LeastMember
<1>4. \A s \in 0 .. f - 1 : s \in gap_received
  BY <1>1, <1>3
<1>5. \E g \in 0 .. GapCount : g \notin gap_received /\ 0 .. g - 1 \subseteq gap_received
  BY <1>3, <1>4
<1>6. /\ GapFrontier \in 0 .. GapCount
      /\ 0 .. GapFrontier - 1 \subseteq gap_received
  BY <1>5 DEF GapFrontier
<1>. QED  BY <1>1, <1>6

-----------------------------------------------------------------------------
(***************************************************************************)
(* What is read off an honest batch.                                       *)
(***************************************************************************)

(* Each new piece of evidence was received, or all below its predecessor.  *)
LEMMA IntervalsHonest ==
    ASSUME NEW gaps, Honest(gaps, gap_received), NEW s \in delivered_intervals(gaps)
    PROVE  /\ s \in Nat /\ s <= last_seq(gaps) + 1
           /\ s \in gap_received \/ 0 .. s - 2 \subseteq gap_received
<1> DEFINE m == last_seq(gaps)
<1>1. /\ m \in Nat
      /\ \A t \in 0 .. m : t \in gaps \/ t \in gap_received
      /\ m + 1 \in gap_received \/ 0 .. m - 1 \subseteq gap_received
  BY HonestLast
<1>2. s \in 1 .. m + 1 /\ s \notin gaps
  BY DEF delivered_intervals
<1>3. CASE s = m + 1
  BY <1>1, <1>3
<1>4. CASE s <= m
  BY <1>1, <1>2, <1>4
<1>. QED  BY <1>1, <1>2, <1>3, <1>4

(* A hole the batch speaks of and does not list is received.               *)
LEMMA ResolvedReceived ==
    ASSUME NEW gaps, Honest(gaps, gap_received), first_report \in SUBSET Nat
    PROVE  resolved(gaps) \subseteq gap_received
<1>1. /\ last_seq(gaps) \in Nat
      /\ \A t \in 0 .. last_seq(gaps) : t \in gaps \/ t \in gap_received
  BY HonestLast
<1>2. \A s \in resolved(gaps) : s \in Nat /\ s <= last_seq(gaps) /\ s \notin gaps
  BY DEF resolved
<1>. QED  BY <1>1, <1>2

(***************************************************************************)
(* The evidence of a path, as it grows and is pruned.                      *)
(***************************************************************************)
LEMMA EvidenceGrows ==
    ASSUME NEW seq, NEW p, NEW pruned, NEW top, NEW received, NEW more,
           Evidence(seq, p, pruned, top, received), received \subseteq more
    PROVE  Evidence(seq, p, pruned, top, more)
BY DEF Evidence

(* What is pruned keeps its order; what is left is above the point.        *)
LEMMA EvidenceKept ==
    ASSUME NEW seq, NEW p, NEW pruned, NEW top, NEW received, NEW point \in Nat,
           Evidence(seq, p, pruned, top, received)
    PROVE  Evidence(Kept(seq, {s \in GapSeqs : s >= point}), p, point, top, received)
<1> DEFINE S == {s \in GapSeqs : s >= point}
           kept == Kept(seq, S)
           n == Len(kept)
<1>1. seq \in Seq(GapSeqs)
  BY DEF Evidence
<1>. HIDE DEF S
<1>2. kept \in Seq(GapSeqs)
  BY <1>1, KeptElements
<1>3. PICK at \in [1 .. n -> {i \in 1 .. Len(seq) : seq[i] \in S}] :
         /\ \A i, k \in 1 .. n : i < k => at[i] < at[k]
         /\ \A k \in 1 .. n : kept[k] = seq[at[k]]
  BY <1>1, KeptElements, SMTT(20)
<1>4. ASSUME NEW k \in 1 .. n
      PROVE  /\ source_path_map[kept[k]] = p
             /\ point <= kept[k] /\ kept[k] <= top
             /\ \A j \in 1 .. k - 1 : kept[j] < kept[k]
             /\ kept[k] \in received \/ 0 .. kept[k] - 2 \subseteq received
  <2>1. at[k] \in 1 .. Len(seq) /\ seq[at[k]] \in S /\ kept[k] = seq[at[k]]
    BY <1>3, <1>4, Zenon
  <2>2. /\ source_path_map[seq[at[k]]] = p
        /\ seq[at[k]] <= top
        /\ \A j \in 1 .. at[k] - 1 : seq[j] < seq[at[k]]
        /\ seq[at[k]] \in received \/ 0 .. seq[at[k]] - 2 \subseteq received
    BY <2>1 DEF Evidence
  <2>3. ASSUME NEW j \in 1 .. k - 1
        PROVE  kept[j] < kept[k]
    <3>1. j \in 1 .. n /\ j < k
      <4>1. n \in Nat
        BY <1>2
      <4>. QED  BY <4>1, <1>4, <2>3
    <3>2. at[j] < at[k] /\ at[j] \in 1 .. Len(seq) /\ kept[j] = seq[at[j]]
      BY <1>3, <1>4, <3>1
    <3>3. at[j] \in 1 .. at[k] - 1
      <4>1. Len(seq) \in Nat
        BY <1>1
      <4>. QED  BY <4>1, <2>1, <3>2
    <3>. QED  BY <2>1, <2>2, <3>2, <3>3
  <2>4. point <= seq[at[k]]
    BY <2>1 DEF S
  <2>. QED  BY <2>1, <2>2, <2>3, <2>4
<1>. QED  BY <1>2, <1>4 DEF Evidence, S

(* A batch adds to the evidence of each path what is above the watermark,  *)
(* in order.                                                               *)
LEMMA EvidenceJoined ==
    ASSUME NEW seq, NEW p, NEW pruned, NEW top \in Nat, NEW more \in Nat, NEW received,
           Evidence(seq, p, pruned, top, received),
           NEW S \in SUBSET GapSeqs,
           \A s \in S : /\ source_path_map[s] = p
                        /\ pruned <= s /\ top < s /\ s <= more
                        /\ s \in received \/ 0 .. s - 2 \subseteq received
    PROVE  Evidence(seq \o Ascending(S), p, pruned, Larger(top, more), received)
<1> DEFINE new == Ascending(S)
           m == Len(seq)
           n == Cardinality(S)
           all == seq \o new
<1>1. GapSeqs \in SUBSET Nat /\ IsFiniteSet(GapSeqs)
  <2>1. GapCount \in Nat
    BY GapAssumption
  <2>2. 0 \in Int /\ GapCount - 1 \in Int
    BY <2>1
  <2>3. IsFiniteSet(0 .. GapCount - 1)
    BY <2>2, FS_Interval, Zenon
  <2>. QED  BY <2>1, <2>3 DEF GapSeqs
<1>2. S \in SUBSET Int /\ IsFiniteSet(S)
  <2>1. IsFiniteSet(S)
    BY <1>1, FS_Subset, Zenon
  <2>. QED  BY <1>1, <2>1
<1>3. /\ n \in Nat /\ new \in [1 .. n -> S]
      /\ \A i, k \in 1 .. n : i < k => new[i] < new[k]
  BY <1>2, AscendingEnumerates
<1>4. new \in Seq(S) /\ Len(new) = n
  BY <1>2, AscendingSeq
<1>5. seq \in Seq(GapSeqs) /\ m \in Nat /\ new \in Seq(GapSeqs)
  <2>1. seq \in Seq(GapSeqs)
    BY DEF Evidence
  <2>. QED  BY <1>4, <2>1
<1>6. /\ all \in Seq(GapSeqs) /\ Len(all) = m + n
      /\ \A i \in 1 .. m + n : all[i] = IF i <= m THEN seq[i] ELSE new[i - m]
  BY <1>3, <1>4, <1>5
<1>. HIDE DEF new, m, n, all
<1>7. Larger(top, more) \in Nat /\ Larger(top, more) >= top /\ Larger(top, more) >= more
  BY DEF Larger
<1>8. ASSUME NEW i \in 1 .. m + n
      PROVE  /\ source_path_map[all[i]] = p
             /\ pruned <= all[i] /\ all[i] <= Larger(top, more)
             /\ \A j \in 1 .. i - 1 : all[j] < all[i]
             /\ all[i] \in received \/ 0 .. all[i] - 2 \subseteq received
  <2>1. CASE i <= m
    <3>1. i \in 1 .. m /\ all[i] = seq[i] /\ all[i] \in Nat
      <4>1. i \in 1 .. m /\ all[i] = seq[i]
        BY <1>3, <1>5, <1>6, <1>8, <2>1
      <4>2. seq[i] \in GapSeqs
        BY <1>5, <4>1 DEF m
      <4>. QED  BY <1>1, <4>1, <4>2
    <3>2. /\ source_path_map[seq[i]] = p
          /\ pruned <= seq[i] /\ seq[i] <= top
          /\ \A j \in 1 .. i - 1 : seq[j] < seq[i]
          /\ seq[i] \in received \/ 0 .. seq[i] - 2 \subseteq received
      BY <3>1 DEF Evidence, m
    <3>3. \A j \in 1 .. i - 1 : all[j] = seq[j]
      BY <1>3, <1>5, <1>6, <3>1
    <3>4. all[i] <= Larger(top, more)
      BY <1>7, <3>1, <3>2
    <3>. QED  BY <3>1, <3>2, <3>3, <3>4
  <2>2. CASE i > m
    <3>1. i - m \in 1 .. n /\ all[i] = new[i - m]
      BY <1>3, <1>5, <1>6, <1>8, <2>2
    <3>2. all[i] \in S /\ all[i] \in Nat
      BY <1>1, <1>3, <3>1
    <3>3. all[i] <= Larger(top, more)
      BY <1>7, <3>2
    <3>4. ASSUME NEW j \in 1 .. i - 1
          PROVE  all[j] < all[i]
      <4>1. CASE j <= m
        <5>1. j \in 1 .. m /\ all[j] = seq[j] /\ seq[j] \in GapSeqs
          BY <1>3, <1>5, <1>6, <1>8, <3>4, <4>1
        <5>2. seq[j] <= top /\ seq[j] \in Nat
          BY <1>1, <5>1 DEF Evidence, m
        <5>3. top < all[i]
          BY <3>2
        <5>. QED  BY <3>2, <5>1, <5>2, <5>3
      <4>2. CASE j > m
        <5>1. j - m \in 1 .. n /\ all[j] = new[j - m] /\ j - m < i - m
          BY <1>3, <1>5, <1>6, <1>8, <3>4, <4>2
        <5>. QED  BY <1>3, <3>1, <5>1
      <4>. QED
        <5>1. j \in Int /\ m \in Int
          BY <1>5, <3>4
        <5>. QED  BY <4>1, <4>2, <5>1
    <3>. QED  BY <3>2, <3>3, <3>4
  <2>. QED
    <3>1. i \in Int /\ m \in Int
      BY <1>5
    <3>. QED  BY <2>1, <2>2, <3>1
<1>. QED
  <2>1. \A i \in 1 .. Len(all) : i \in 1 .. m + n
    BY <1>6
  <2>2. Evidence(all, p, pruned, Larger(top, more), received)
    BY <1>6, <1>8, <2>1 DEF Evidence
  <2>. QED  BY <2>2 DEF all, new

(* The evidence a batch leaves, of every path.                             *)
LEMMA IngestedTrue ==
    ASSUME GapTyped, EvidenceTrue, NEW gaps, Honest(gaps, gap_received), NEW p \in GapPaths
    PROVE  Evidence(Ingested(gaps)[p], p, gap_pruned,
                    Larger(mp_evid_max, last_seq(gaps) + 1), gap_received)
<1> DEFINE S == {s \in Fresh(gaps) : source_path_map[s] = p}
           more == last_seq(gaps) + 1
<1>1. more \in Nat /\ mp_evid_max \in Nat
  <2>1. last_seq(gaps) \in Nat
    BY HonestLast
  <2>. QED  BY <2>1 DEF GapTyped
<1>2. ASSUME NEW s \in S
      PROVE  /\ s \in GapSeqs /\ source_path_map[s] = p
             /\ gap_pruned <= s /\ mp_evid_max < s /\ s <= more
             /\ s \in gap_received \/ 0 .. s - 2 \subseteq gap_received
  <2>1. s \in delivered_intervals(gaps) /\ s \in Retained /\ s > mp_evid_max
        /\ source_path_map[s] = p
    BY DEF Fresh
  <2>2. /\ s \in Nat /\ s <= more
        /\ s \in gap_received \/ 0 .. s - 2 \subseteq gap_received
    BY <2>1, IntervalsHonest
  <2>3. gap_pruned \in Nat /\ gap_next \in Nat /\ gap_next <= GapCount /\ GapCount \in Nat
    BY GapAssumption DEF GapTyped
  <2>4. gap_pruned <= s /\ s \in GapSeqs
    BY <2>1, <2>2, <2>3 DEF Retained, GapSeqs
  <2>. QED  BY <1>1, <2>1, <2>2, <2>4
<1>3. Evidence(mp_delivered[p], p, gap_pruned, mp_evid_max, gap_received)
  BY DEF EvidenceTrue
<1>. HIDE DEF S, more
<1>4. S \in SUBSET GapSeqs
  BY <1>2
<1>5. Evidence(mp_delivered[p] \o Ascending(S), p, gap_pruned, Larger(mp_evid_max, more),
               gap_received)
  BY <1>1, <1>2, <1>3, <1>4, EvidenceJoined
<1>6. Ingested(gaps)[p] = mp_delivered[p] \o Ascending(S)
  BY DEF Ingested, S
<1>. QED  BY <1>5, <1>6 DEF more

(***************************************************************************)
(* An honest batch is answered: the evidence stays true, and only records  *)
(* of received seqs are closed.                                            *)
(***************************************************************************)
Healing == \A s \in first_report \ first_report' : s \in gap_received

Answered ==
    /\ mp_evid_max' \in Nat
    /\ first_report' \in SUBSET Nat
    /\ mp_delivered' = [p \in GapPaths |-> mp_delivered'[p]]
    /\ \A p \in GapPaths :
          Evidence(mp_delivered'[p], p, gap_pruned, mp_evid_max', gap_received)
    /\ Healing

(* Answering an honest batch leaves the evidence true, and closes only records *)
(* of sequences that were received.                                        *)
LEMMA AnswerTrue ==
    ASSUME GapTyped, EvidenceTrue, NEW report, Honest(report.gaps, gap_received),
           Answer(report)
    PROVE  Answered
<1> DEFINE gaps == report.gaps
           top == Larger(mp_evid_max, last_seq(gaps) + 1)
<1>1. PICK visited :
         /\ visited \subseteq gaps
         /\ mp_delivered' = IF law = "several" THEN Ingested(gaps) ELSE mp_delivered
         /\ mp_evid_max' = IF law = "several" THEN top ELSE mp_evid_max
         /\ first_report' = (first_report \ resolved(gaps))
                              \cup (IF report.reported THEN visited ELSE {})
  BY DEF Answer
<1>2. gaps \in SUBSET Nat /\ last_seq(gaps) \in Nat
  BY HonestLast
<1>3. mp_evid_max \in Nat /\ top \in Nat
  BY <1>2 DEF GapTyped, Larger
<1>4. first_report \in SUBSET Nat
  BY DEF GapTyped
<1>5. resolved(gaps) \subseteq gap_received
  BY <1>4, ResolvedReceived
<1>6. Healing
  BY <1>1, <1>5 DEF Healing
<1>7. CASE law = "several"
  <2>1. mp_delivered' = Ingested(gaps) /\ mp_evid_max' = top
    BY <1>1, <1>7
  <2>2. Ingested(gaps) = [p \in GapPaths |-> Ingested(gaps)[p]]
    BY DEF Ingested
  <2>3. \A p \in GapPaths :
           Evidence(Ingested(gaps)[p], p, gap_pruned, top, gap_received)
    BY IngestedTrue
  <2>. QED  BY <1>1, <1>2, <1>3, <1>4, <1>6, <2>1, <2>2, <2>3 DEF Answered
<1>8. CASE law # "several"
  <2>1. mp_delivered' = mp_delivered /\ mp_evid_max' = mp_evid_max
    BY <1>1, <1>8
  <2>2. /\ mp_delivered = [p \in GapPaths |-> mp_delivered[p]]
        /\ \A p \in GapPaths :
              Evidence(mp_delivered[p], p, gap_pruned, mp_evid_max, gap_received)
    BY DEF EvidenceTrue
  <2>. QED  BY <1>1, <1>2, <1>3, <1>4, <1>6, <2>1, <2>2 DEF Answered
<1>. QED  BY <1>7, <1>8

-----------------------------------------------------------------------------
(***************************************************************************)
(* One step per action.                                                    *)
(***************************************************************************)

(* Every queued batch, and what is left of the queue when one is taken.    *)
LEMMA QueueHonest ==
    ASSUME GapTyped, ReportsTrue, gap_rx # <<>>
    PROVE  /\ Honest(Head(gap_rx).gaps, gap_received)
           /\ Honest(Last(gap_rx).gaps, gap_received)
           /\ Tail(gap_rx) \in Seq([reported : BOOLEAN, gaps : SUBSET Nat])
           /\ \A i \in 1 .. Len(Tail(gap_rx)) : Honest(Tail(gap_rx)[i].gaps, gap_received)
<1> DEFINE R == [reported : BOOLEAN, gaps : SUBSET Nat]
<1>1. gap_rx \in Seq(R) /\ \A i \in 1 .. Len(gap_rx) : Honest(gap_rx[i].gaps, gap_received)
  BY DEF GapTyped, ReportsTrue
<1>. HIDE DEF R
<1>2. Len(gap_rx) \in Nat /\ Len(gap_rx) >= 1
  BY <1>1
<1>3. 1 \in 1 .. Len(gap_rx) /\ Len(gap_rx) \in 1 .. Len(gap_rx)
  BY <1>2
<1>4. Head(gap_rx) = gap_rx[1] /\ Last(gap_rx) = gap_rx[Len(gap_rx)]
  BY <1>1 DEF Last
<1>5. /\ Tail(gap_rx) \in Seq(R) /\ Len(Tail(gap_rx)) = Len(gap_rx) - 1
      /\ \A i \in 1 .. Len(Tail(gap_rx)) : Tail(gap_rx)[i] = gap_rx[i + 1]
  BY <1>1
<1>6. ASSUME NEW i \in 1 .. Len(Tail(gap_rx))
      PROVE  Honest(Tail(gap_rx)[i].gaps, gap_received)
  <2>1. i + 1 \in 1 .. Len(gap_rx)
    BY <1>2, <1>5
  <2>2. Honest(gap_rx[i + 1].gaps, gap_received)
    BY <1>1, <2>1
  <2>3. Tail(gap_rx)[i] = gap_rx[i + 1]
    BY <1>5
  <2>. QED  BY <2>2, <2>3
<1>. QED  BY <1>1, <1>3, <1>4, <1>5, <1>6 DEF R

(* One turn of serve_gaps.                                                 *)
LEMMA ServeStep ==
    ASSUME GapInv, ServeReport
    PROVE  GapInv' /\ Healing
<1>1. GapTyped /\ PointsTrue /\ AcksTrue /\ ReportsTrue /\ EvidenceTrue
  BY DEF GapInv
<1>2. Answered
  <2>1. CASE allowed = 0 \/ nack_budget = 0
    <3>1. UNCHANGED <<mp_delivered, mp_evid_max, first_report>>
      BY <2>1 DEF ServeReport
    <3>2. mp_evid_max \in Nat /\ first_report \in SUBSET Nat
      BY <1>1 DEF GapTyped
    <3>3. Healing
      BY <3>1 DEF Healing
    <3>. QED  BY <1>1, <3>1, <3>2, <3>3 DEF Answered, EvidenceTrue
  <2>2. CASE ~ (allowed = 0 \/ nack_budget = 0)
    <3>1. Answer(NextReport)
      BY <2>2 DEF ServeReport
    <3>2. Honest(NextReport.gaps, gap_received)
      <4>1. CASE pending_gaps # NoReport
        BY <1>1, <4>1 DEF NextReport, ReportsTrue
      <4>2. CASE pending_gaps = NoReport
        <5>1. gap_rx # <<>>
          BY <4>2 DEF ServeReport
        <5>2. NextReport = Last(gap_rx) \/ NextReport = Head(gap_rx)
          BY <4>2 DEF NextReport
        <5>. QED  BY <1>1, <5>1, <5>2, QueueHonest
      <4>. QED  BY <4>1, <4>2
    <3>. QED  BY <1>1, <3>1, <3>2, AnswerTrue
  <2>. QED  BY <2>1, <2>2
<1>3. /\ gap_rx' \in Seq([reported : BOOLEAN, gaps : SUBSET Nat])
      /\ \A i \in 1 .. Len(gap_rx') : Honest(gap_rx'[i].gaps, gap_received)
  <2>1. gap_rx' = gap_rx \/ gap_rx' = <<>> \/ (gap_rx # <<>> /\ gap_rx' = Tail(gap_rx))
    BY DEF ServeReport
  <2>2. CASE gap_rx' = gap_rx
    BY <1>1, <2>2 DEF GapTyped, ReportsTrue
  <2>3. CASE gap_rx' = <<>>
    BY <2>3
  <2>4. CASE gap_rx # <<>> /\ gap_rx' = Tail(gap_rx)
    BY <1>1, <2>4, QueueHonest
  <2>. QED  BY <2>1, <2>2, <2>3, <2>4
<1>4. /\ UNCHANGED <<gap_next, gap_acked, gap_pruned, gap_received, gap_acks>>
      /\ pending_gaps' = NoReport
  BY DEF ServeReport
<1>5. GapTyped'
  BY <1>1, <1>2, <1>3, <1>4 DEF GapTyped, Answered
<1>6. PointsTrue' /\ AcksTrue'
  BY <1>1, <1>4 DEF PointsTrue, AcksTrue
<1>7. ReportsTrue'
  BY <1>3, <1>4 DEF ReportsTrue
<1>8. EvidenceTrue'
  BY <1>2, <1>4 DEF EvidenceTrue, Answered
<1>. QED  BY <1>2, <1>5, <1>6, <1>7, <1>8 DEF GapInv, Answered

(* The cumulative ack: what is forgotten is received.                      *)
LEMMA AdvanceStep ==
    ASSUME GapInv, AdvanceAck
    PROVE  GapInv' /\ Healing
<1>1. GapTyped /\ PointsTrue /\ AcksTrue /\ ReportsTrue /\ EvidenceTrue
  BY DEF GapInv
<1>2. /\ UNCHANGED <<pending_gaps, gap_rx, gap_next, gap_acked, mp_evid_max, gap_received,
                     gap_acks>>
      /\ gap_pruned' = gap_acked
      /\ first_report' \subseteq first_report
      /\ \A s \in first_report \ first_report' : ~ (s >= gap_acked)
      /\ mp_delivered' = [p \in GapPaths |->
                            Kept(mp_delivered[p], {s \in GapSeqs : s >= gap_acked})]
  BY DEF AdvanceAck
<1>3. GapTyped'
  BY <1>1, <1>2 DEF GapTyped
<1>4. PointsTrue' /\ AcksTrue' /\ ReportsTrue'
  BY <1>1, <1>2 DEF PointsTrue, AcksTrue, ReportsTrue
<1>5. ASSUME NEW p \in GapPaths
      PROVE  Evidence(mp_delivered'[p], p, gap_acked, mp_evid_max, gap_received)
  <2>1. Evidence(mp_delivered[p], p, gap_pruned, mp_evid_max, gap_received)
    BY <1>1 DEF EvidenceTrue
  <2>2. gap_acked \in Nat
    BY <1>1 DEF GapTyped
  <2>. QED  BY <1>2, <2>1, <2>2, EvidenceKept
<1>6. mp_delivered' = [p \in GapPaths |-> mp_delivered'[p]]
  BY <1>2
<1>7. EvidenceTrue'
  BY <1>2, <1>5, <1>6 DEF EvidenceTrue
<1>8. Healing
  <2>1. ASSUME NEW s \in first_report \ first_report'
        PROVE  s \in gap_received
    <3>1. s \in Nat /\ gap_acked \in Nat /\ ~ (s >= gap_acked)
      BY <1>1, <1>2 DEF GapTyped
    <3>2. s \in 0 .. gap_acked - 1
      BY <3>1
    <3>. QED  BY <1>1, <3>2 DEF PointsTrue
  <2>. QED  BY <2>1 DEF Healing
<1>. QED  BY <1>3, <1>4, <1>7, <1>8 DEF GapInv

(* The loop wakes with an honest batch, or none.                           *)
LEMMA WakeStep ==
    ASSUME GapInv, NEW report, NEW room, Wake(report, room),
           report # NoReport => Honest(report.gaps, gap_received),
           gap_rx' \in Seq([reported : BOOLEAN, gaps : SUBSET Nat]),
           \A i \in 1 .. Len(gap_rx') : Honest(gap_rx'[i].gaps, gap_received),
           gap_next' \in 0 .. GapCount
    PROVE  GapInv' /\ Healing
<1>1. GapTyped /\ PointsTrue /\ AcksTrue /\ EvidenceTrue
  BY DEF GapInv
<1>2. /\ UNCHANGED <<gap_acked, gap_pruned, mp_delivered, mp_evid_max, first_report,
                     gap_received, gap_acks>>
      /\ pending_gaps' = report
  BY DEF Wake
<1>3. GapTyped' /\ PointsTrue' /\ AcksTrue' /\ EvidenceTrue'
  BY <1>1, <1>2 DEF GapTyped, PointsTrue, AcksTrue, EvidenceTrue
<1>4. ReportsTrue'
  BY <1>2 DEF ReportsTrue
<1>. QED  BY <1>2, <1>3, <1>4 DEF GapInv, Healing

(* More is received: by a copy, or solved for.                             *)
LEMMA ReceiveStep ==
    ASSUME GapInv, NEW s \in GapSeqs, gap_received' = gap_received \cup {s},
           UNCHANGED <<senderGapVars, gap_acks>>
    PROVE  GapInv' /\ Healing
<1>1. GapTyped /\ PointsTrue /\ AcksTrue /\ ReportsTrue /\ EvidenceTrue
  BY DEF GapInv
<1>2. /\ UNCHANGED <<pending_gaps, gap_rx, gap_next, gap_acked, gap_pruned, mp_delivered,
                     mp_evid_max, first_report, gap_acks>>
      /\ gap_received \subseteq gap_received'
  BY DEF senderGapVars
<1>3. GapTyped'
  BY <1>1, <1>2 DEF GapTyped
<1>4. PointsTrue' /\ AcksTrue'
  BY <1>1, <1>2 DEF PointsTrue, AcksTrue
<1>5. ReportsTrue'
  <2>1. \A i \in 1 .. Len(gap_rx) : Honest(gap_rx[i].gaps, gap_received')
    BY <1>1, <1>2, HonestGrows DEF ReportsTrue
  <2>2. pending_gaps # NoReport => Honest(pending_gaps.gaps, gap_received')
    BY <1>1, <1>2, HonestGrows DEF ReportsTrue
  <2>. QED  BY <1>2, <2>1, <2>2 DEF ReportsTrue
<1>6. EvidenceTrue'
  <2>1. \A p \in GapPaths :
           Evidence(mp_delivered[p], p, gap_pruned, mp_evid_max, gap_received')
    BY <1>1, <1>2, EvidenceGrows DEF EvidenceTrue
  <2>2. mp_delivered = [p \in GapPaths |-> mp_delivered[p]]
    BY <1>1 DEF EvidenceTrue
  <2>. QED  BY <1>2, <2>1, <2>2 DEF EvidenceTrue
<1>7. Healing
  BY <1>2 DEF Healing
<1>. QED  BY <1>3, <1>4, <1>5, <1>6, <1>7 DEF GapInv

(* An ack leaves with what the receiver has.                               *)
LEMMA SendStep ==
    ASSUME GapInv, SendWindowAck
    PROVE  GapInv' /\ Healing
<1>1. GapTyped /\ PointsTrue /\ AcksTrue /\ ReportsTrue /\ EvidenceTrue
  BY DEF GapInv
<1>2. UNCHANGED <<pending_gaps, gap_rx, gap_next, gap_acked, gap_pruned, mp_delivered,
                  mp_evid_max, first_report, gap_received>>
  BY DEF SendWindowAck, senderGapVars
<1>3. GapTyped' /\ PointsTrue' /\ ReportsTrue' /\ EvidenceTrue'
  BY <1>1, <1>2 DEF GapTyped, PointsTrue, ReportsTrue, EvidenceTrue
<1>4. GapFrontier \in Nat /\ 0 .. GapFrontier - 1 \subseteq gap_received
  BY <1>1, FrontierExists DEF GapTyped
<1>5. received_sack_ranges(gap_received, GapFrontier, GapCount, GapRanges)
         \subseteq gap_received
  BY DEF received_sack_ranges, FirstRuns
<1>6. AcksTrue'
  <2>1. gap_acks' = gap_acks \cup
           {[next_expected |-> GapFrontier,
             sacked |-> received_sack_ranges(gap_received, GapFrontier, GapCount, GapRanges)]}
    BY DEF SendWindowAck
  <2>. QED  BY <1>1, <1>2, <1>4, <1>5, <2>1 DEF AcksTrue
<1>7. Healing
  BY <1>2 DEF Healing
<1>. QED  BY <1>3, <1>6, <1>7 DEF GapInv

(* An ack arrives, and its holes are queued when there is room.            *)
LEMMA AckStep ==
    ASSUME GapInv, NEW a \in gap_acks, OnWindowAck(a)
    PROVE  GapInv' /\ Healing
<1> DEFINE gaps == sack_to_gaps(a.next_expected, a.sacked, GapRanges)
           R == [reported : BOOLEAN, gaps : SUBSET Nat]
           report == [reported |-> TRUE, gaps |-> gaps]
<1>1. GapTyped /\ PointsTrue /\ AcksTrue /\ ReportsTrue /\ EvidenceTrue
  BY DEF GapInv
<1>2. /\ UNCHANGED <<pending_gaps, gap_next, gap_pruned, mp_delivered, mp_evid_max,
                     first_report, gap_received>>
      /\ gap_acks' \subseteq gap_acks
      /\ gap_acked' = Larger(gap_acked, a.next_expected)
      /\ gap_rx' = gap_rx \/ (gaps # {} /\ gap_rx' = Append(gap_rx, report))
  BY DEF OnWindowAck
<1>3. /\ a.next_expected \in Nat
      /\ 0 .. a.next_expected - 1 \subseteq gap_received
      /\ a.sacked \subseteq gap_received
  BY <1>1 DEF AcksTrue
<1>4. ASSUME gaps # {}
      PROVE  Honest(gaps, gap_received)
  <2>1. gap_received \in SUBSET Nat /\ IsFiniteSet(gap_received)
    <3>1. GapCount \in Nat /\ 0 \in Int /\ GapCount - 1 \in Int
      BY GapAssumption
    <3>2. IsFiniteSet(0 .. GapCount - 1)
      BY <3>1, FS_Interval, Zenon
    <3>3. gap_received \subseteq 0 .. GapCount - 1
      BY <1>1 DEF GapTyped, GapSeqs
    <3>4. IsFiniteSet(gap_received)
      BY <3>2, <3>3, FS_Subset, Zenon
    <3>. QED  BY <3>1, <3>3, <3>4
  <2>2. GapRanges \in Nat
    BY GapAssumption
  <2>. QED  BY <1>3, <1>4, <2>1, <2>2, GapsHonest
<1>. HIDE DEF gaps
<1>5. gap_rx \in Seq(R) /\ \A i \in 1 .. Len(gap_rx) : Honest(gap_rx[i].gaps, gap_received)
  BY <1>1 DEF GapTyped, ReportsTrue
<1>6. gap_rx' \in Seq(R) /\ \A i \in 1 .. Len(gap_rx') : Honest(gap_rx'[i].gaps, gap_received)
  <2>1. CASE gap_rx' = gap_rx
    BY <1>5, <2>1
  <2>2. CASE gaps # {} /\ gap_rx' = Append(gap_rx, report)
    <3>1. Honest(gaps, gap_received) /\ report \in R /\ report.gaps = gaps
      <4>1. Honest(gaps, gap_received)
        BY <1>4, <2>2
      <4>2. gaps \in SUBSET Nat
        BY <4>1 DEF Honest
      <4>. QED  BY <4>1, <4>2
    <3>. HIDE DEF report, R
    <3>2. /\ gap_rx' \in Seq(R) /\ Len(gap_rx) \in Nat /\ Len(gap_rx') = Len(gap_rx) + 1
          /\ \A i \in 1 .. Len(gap_rx) : gap_rx'[i] = gap_rx[i]
          /\ gap_rx'[Len(gap_rx) + 1] = report
      BY <1>5, <2>2, <3>1
    <3>3. ASSUME NEW i \in 1 .. Len(gap_rx')
          PROVE  Honest(gap_rx'[i].gaps, gap_received)
      <4>1. CASE i \in 1 .. Len(gap_rx)
        <5>1. Honest(gap_rx[i].gaps, gap_received) /\ gap_rx'[i] = gap_rx[i]
          BY <1>5, <3>2, <4>1
        <5>. QED  BY <5>1
      <4>2. CASE i = Len(gap_rx) + 1
        <5>1. gap_rx'[i] = report
          BY <3>2, <4>2
        <5>. QED  BY <3>1, <5>1
      <4>3. i \in 1 .. Len(gap_rx) \/ i = Len(gap_rx) + 1
        BY <3>2, <3>3
      <4>. QED  BY <4>1, <4>2, <4>3
    <3>. QED  BY <3>2, <3>3
  <2>. QED  BY <1>2, <2>1, <2>2
<1>7. gap_acked' \in Nat /\ 0 .. gap_acked' - 1 \subseteq gap_received
  <2>1. gap_acked' = gap_acked \/ gap_acked' = a.next_expected
    BY <1>2 DEF Larger
  <2>2. gap_acked \in Nat /\ 0 .. gap_acked - 1 \subseteq gap_received
    BY <1>1 DEF GapTyped, PointsTrue
  <2>. QED  BY <1>3, <2>1, <2>2
<1>8. GapTyped'
  BY <1>1, <1>2, <1>6, <1>7 DEF GapTyped
<1>9. PointsTrue' /\ AcksTrue' /\ EvidenceTrue'
  BY <1>1, <1>2, <1>7 DEF PointsTrue, AcksTrue, EvidenceTrue
<1>10. ReportsTrue'
  BY <1>1, <1>2, <1>6 DEF ReportsTrue
<1>11. Healing
  BY <1>2 DEF Healing
<1>. QED  BY <1>8, <1>9, <1>10, <1>11 DEF GapInv

(* What touches neither the reports, the points nor the evidence.          *)
LEMMA OtherStep ==
    ASSUME GapInv,
           UNCHANGED <<pending_gaps, gap_rx, gap_next, gap_acked, gap_pruned, mp_delivered,
                       mp_evid_max, first_report, gap_received>>,
           gap_acks' \subseteq gap_acks
    PROVE  GapInv' /\ Healing
<1>1. GapTyped /\ PointsTrue /\ AcksTrue /\ ReportsTrue /\ EvidenceTrue
  BY DEF GapInv
<1>2. GapTyped' /\ PointsTrue' /\ AcksTrue' /\ ReportsTrue' /\ EvidenceTrue'
  BY <1>1 DEF GapTyped, PointsTrue, AcksTrue, ReportsTrue, EvidenceTrue
<1>. QED  BY <1>2 DEF GapInv, Healing

(***************************************************************************)
(* The invariant holds at first and is preserved; every step heals.        *)
(***************************************************************************)
LEMMA FirstState == GapInit => GapInv
<1>1. SUFFICES ASSUME GapInit
               PROVE  GapInv
  OBVIOUS
<1>2. GapTyped
  <2>1. GapCount \in Nat
    BY GapAssumption
  <2>2. gap_next = 0 /\ gap_acked = 0 /\ gap_pruned = 0 /\ mp_evid_max = 0
        /\ gap_rx = <<>> /\ gap_received = {} /\ first_report = {}
    BY <1>1 DEF GapInit
  <2>. QED  BY <2>1, <2>2 DEF GapTyped
<1>3. PointsTrue /\ AcksTrue /\ ReportsTrue
  BY <1>1 DEF GapInit, PointsTrue, AcksTrue, ReportsTrue
<1>4. EvidenceTrue
  <2>1. mp_delivered = [p \in GapPaths |-> <<>>]
    BY <1>1 DEF GapInit
  <2>2. \A p, pruned, top, received : Evidence(<<>>, p, pruned, top, received)
    BY DEF Evidence
  <2>. QED  BY <2>1, <2>2 DEF EvidenceTrue
<1>. QED  BY <1>2, <1>3, <1>4 DEF GapInv

(* Every step keeps the invariant.                                         *)
LEMMA EveryStep ==
    ASSUME GapInv, [GapNext]_gapVars
    PROVE  GapInv' /\ Healing
<1>1. GapTyped /\ PointsTrue /\ ReportsTrue
  BY DEF GapInv
<1>2. CASE ServeReport
  BY <1>2, ServeStep
<1>3. CASE AdvanceAck
  BY <1>3, AdvanceStep
<1>4. ASSUME NEW room \in Rooms, GapArm(room)
      PROVE  GapInv' /\ Healing
  <2>1. /\ gap_rx # <<>> /\ gap_rx' = Tail(gap_rx) /\ gap_next' = gap_next
        /\ Wake(Head(gap_rx), room)
    BY <1>4 DEF GapArm
  <2>2. /\ Honest(Head(gap_rx).gaps, gap_received)
        /\ gap_rx' \in Seq([reported : BOOLEAN, gaps : SUBSET Nat])
        /\ \A i \in 1 .. Len(gap_rx') : Honest(gap_rx'[i].gaps, gap_received)
    BY <1>1, <2>1, QueueHonest
  <2>3. gap_next' \in 0 .. GapCount
    BY <1>1, <2>1 DEF GapTyped
  <2>. QED  BY <2>1, <2>2, <2>3, WakeStep
<1>5. ASSUME NEW room \in Rooms, SweepArm(room)
      PROVE  GapInv' /\ Healing
  <2> DEFINE report == [reported |-> FALSE, gaps |-> {gap_pruned}]
  <2>1. gap_rx' = gap_rx /\ gap_next' = gap_next /\ Wake(report, room)
    BY <1>5 DEF SweepArm
  <2>2. Honest(report.gaps, gap_received)
    <3>1. gap_pruned \in Nat /\ 0 .. gap_pruned - 1 \subseteq gap_received
      BY <1>1 DEF GapTyped, PointsTrue
    <3>. QED  BY <3>1, SweepHonest
  <2>. HIDE DEF report
  <2>3. /\ gap_rx' \in Seq([reported : BOOLEAN, gaps : SUBSET Nat])
        /\ \A i \in 1 .. Len(gap_rx') : Honest(gap_rx'[i].gaps, gap_received)
        /\ gap_next' \in 0 .. GapCount
    BY <1>1, <2>1 DEF GapTyped, ReportsTrue
  <2>. QED  BY <2>1, <2>2, <2>3, WakeStep
<1>6. ASSUME NEW n \in 0 .. 1, NEW room \in Rooms, OtherArm(n, room)
      PROVE  GapInv' /\ Healing
  <2>1. gap_rx' = gap_rx /\ gap_next' = gap_next + n /\ gap_next + n <= GapCount
        /\ Wake(NoReport, room)
    BY <1>6 DEF OtherArm
  <2>2. /\ gap_rx' \in Seq([reported : BOOLEAN, gaps : SUBSET Nat])
        /\ \A i \in 1 .. Len(gap_rx') : Honest(gap_rx'[i].gaps, gap_received)
    BY <1>1, <2>1 DEF GapTyped, ReportsTrue
  <2>3. gap_next' \in 0 .. GapCount
    <3>1. gap_next \in Nat /\ GapCount \in Nat
      BY <1>1, GapAssumption DEF GapTyped
    <3>. QED  BY <2>1, <3>1
  <2>. QED  BY <2>1, <2>2, <2>3, WakeStep
<1>7. ASSUME NEW s \in GapSeqs, Ripens(s) \/ Cools(s) \/ CopyLost(s)
      PROVE  GapInv' /\ Healing
  <2>1. UNCHANGED <<pending_gaps, gap_rx, gap_next, gap_acked, gap_pruned, mp_delivered,
                    mp_evid_max, first_report, gap_received, gap_acks>>
    BY <1>7 DEF Ripens, Cools, CopyLost, senderGapVars
  <2>. QED  BY <2>1, OtherStep
<1>8. ASSUME NEW s \in GapSeqs, CopyArrives(s) \/ SymbolSolved(s)
      PROVE  GapInv' /\ Healing
  <2>1. gap_received' = gap_received \cup {s} /\ UNCHANGED <<senderGapVars, gap_acks>>
    BY <1>8 DEF CopyArrives, SymbolSolved
  <2>. QED  BY <2>1, ReceiveStep
<1>9. CASE SendWindowAck
  BY <1>9, SendStep
<1>10. ASSUME NEW a \in gap_acks, GapAckLost(a)
       PROVE  GapInv' /\ Healing
  <2>1. /\ UNCHANGED <<pending_gaps, gap_rx, gap_next, gap_acked, gap_pruned, mp_delivered,
                       mp_evid_max, first_report, gap_received>>
        /\ gap_acks' \subseteq gap_acks
    BY <1>10 DEF GapAckLost, senderGapVars
  <2>. QED  BY <2>1, OtherStep
<1>11. ASSUME NEW a \in gap_acks, OnWindowAck(a)
       PROVE  GapInv' /\ Healing
  BY <1>11, AckStep
<1>12. CASE UNCHANGED gapVars
  <2>1. UNCHANGED <<pending_gaps, gap_rx, gap_next, gap_acked, gap_pruned, mp_delivered,
                    mp_evid_max, first_report, gap_received, gap_acks>>
    BY <1>12 DEF gapVars, senderGapVars
  <2>. QED  BY <2>1, OtherStep
<1>. QED
  BY <1>2, <1>3, <1>4, <1>5, <1>6, <1>7, <1>8, <1>9, <1>10, <1>11, <1>12 DEF GapNext

(***************************************************************************)
(* GapInvariance: whatever is queued, on the wire or taken for evidence    *)
(* says nothing false of the receiver.                                     *)
(***************************************************************************)
THEOREM GapInvariance == GapSpec => []GapInv
<1>1. GapInv /\ [GapNext]_gapVars => GapInv'
  BY EveryStep
<1>. QED  BY FirstState, <1>1, PTL DEF GapSpec

(***************************************************************************)
(* EvidenceIsSound: the evidence of each path is in ascending order, of    *)
(* that path, not yet acknowledged, and was delivered or follows a sweep's *)
(* blocker, for any number of seqs, paths, ranges and reports.             *)
(***************************************************************************)
THEOREM EvidenceIsSound == GapSpec => []EvidenceSound
<1>1. GapInv => EvidenceSound
  <2>1. SUFFICES ASSUME GapInv, NEW p \in GapPaths, NEW i \in DOMAIN mp_delivered[p]
                 PROVE  /\ source_path_map[mp_delivered[p][i]] = p
                        /\ gap_pruned <= mp_delivered[p][i]
                        /\ mp_delivered[p][i] <= mp_evid_max
                        /\ \A j \in 1 .. i - 1 : mp_delivered[p][j] < mp_delivered[p][i]
                        /\ \/ mp_delivered[p][i] \in gap_received
                           \/ 0 .. mp_delivered[p][i] - 2 \subseteq gap_received
    BY DEF EvidenceSound
  <2>2. Evidence(mp_delivered[p], p, gap_pruned, mp_evid_max, gap_received)
    BY <2>1 DEF GapInv, EvidenceTrue
  <2>3. i \in 1 .. Len(mp_delivered[p])
    BY <2>1, <2>2 DEF Evidence
  <2>. QED  BY <2>2, <2>3 DEF Evidence
<1>. QED  BY <1>1, GapInvariance, PTL

(***************************************************************************)
(* HealingIsTrue: a hole's record is closed only when the receiver has the *)
(* symbol, by whatever report, sweep or ack it is closed.                  *)
(***************************************************************************)
THEOREM HealingIsTrue == GapSpec => HealsTrue
<1>1. GapInv /\ [GapNext]_gapVars
        => [\A s \in first_report \ first_report' : s \in gap_received]_gapVars
  BY EveryStep DEF Healing
<1>. QED  BY <1>1, GapInvariance, PTL DEF GapSpec, HealsTrue

-----------------------------------------------------------------------------
(***************************************************************************)
(* The ledgers of the paths.                                               *)
(***************************************************************************)
(* The types of the counters, and of the totals on the wire.               *)
CountersTyped ==
    /\ tracker \in [highest_seq : Int, expected : Nat, received : Nat]
    /\ ack_cum \in [expected : Nat, received : Nat]
    /\ fed \in [expected : Nat, received : Nat]
    /\ held \in Nat
    /\ batches \subseteq Int
    /\ path_seq \in Int

(* A total on the wire is one the tracker has had, or less.                *)
CountersPast ==
    \A c \in counters :
        /\ c \in Nat \X Nat
        /\ c[1] <= tracker.expected
        /\ c[2] <= tracker.received

IInv == CountersTyped /\ CountersPast /\ FedExactly

-----------------------------------------------------------------------------
(***************************************************************************)
(* The credit law of LossCredit::apply: what a pair feeds as lost, with    *)
(* the change of the credit held, is its gap, of either sign; and no more  *)
(* is lost than expected.                                                  *)
(***************************************************************************)
LEMMA CreditLaw ==
    ASSUME NEW e \in Nat, NEW r \in Nat, held \in Nat
    PROVE  /\ credit(e, r).held \in Nat
           /\ credit(e, r).lost \in Nat
           /\ credit(e, r).lost <= e
           /\ credit(e, r).lost - credit(e, r).held = e - r - held
<1>1. CASE e >= r
  BY <1>1 DEF credit, Less
<1>2. CASE ~(e >= r)
  BY <1>2 DEF credit, Less
<1> QED
  BY <1>1, <1>2

(***************************************************************************)
(* A batch only raises the totals.                                         *)
(***************************************************************************)
LEMMA TotalsRise ==
    ASSUME NEW t \in [highest_seq : Int, expected : Nat, received : Nat], NEW s \in Int
    PROVE  /\ record_batch(t, s) \in [highest_seq : Int, expected : Nat, received : Nat]
           /\ record_batch(t, s).expected >= t.expected
           /\ record_batch(t, s).received >= t.received
BY DEF record_batch, AtLeast, Less

(***************************************************************************)
(* The cursors move forward by the deltas, to a total the ack carries.     *)
(***************************************************************************)
LEMMA CursorMoves ==
    ASSUME ack_cum \in [expected : Nat, received : Nat], NEW e \in Nat, NEW r \in Nat
    PROVE  /\ counter_cursor(e, r) \in [expected : Nat, received : Nat]
           /\ counter_cursor(e, r).expected = ack_cum.expected + Less(e, ack_cum.expected)
           /\ counter_cursor(e, r).received = ack_cum.received + Less(r, ack_cum.received)
           /\ counter_cursor(e, r).expected \in {ack_cum.expected, e}
           /\ counter_cursor(e, r).received \in {ack_cum.received, r}
           /\ Less(e, ack_cum.expected) \in Nat
           /\ Less(r, ack_cum.received) \in Nat
BY DEF counter_cursor, Totals, AtLeast, Less

-----------------------------------------------------------------------------
(* Nothing was sent, fed or expected.                                      *)
LEMMA InitInv == PathInit => IInv
BY DEF PathInit, IInv, CountersTyped, CountersPast, FedExactly, Totals, NoSeq

(***************************************************************************)
(* Every step keeps the invariant.                                         *)
(***************************************************************************)
LEMMA StepInv == IInv /\ [PathNext]_pathVars => IInv'
<1> SUFFICES ASSUME IInv, [PathNext]_pathVars
             PROVE  IInv'
  OBVIOUS
<1> USE DEF IInv
<1>0. CASE SendUncharged
  BY <1>0 DEF SendUncharged, Leaves, CountersTyped, CountersPast, FedExactly
<1>1. CASE SendBatch
  BY <1>1 DEF SendBatch, Leaves, CountersTyped, CountersPast, FedExactly
<1>2. ASSUME NEW s \in batches, BatchLost(s)
      PROVE  IInv'
  BY <1>2 DEF BatchLost, CountersTyped, CountersPast, FedExactly
<1>3. ASSUME NEW s \in batches, BatchArrives(s)
      PROVE  IInv'
  <2>1. s \in Int
    BY DEF CountersTyped
  <2>2. /\ tracker' \in [highest_seq : Int, expected : Nat, received : Nat]
        /\ tracker'.expected >= tracker.expected
        /\ tracker'.received >= tracker.received
    BY <1>3, <2>1, TotalsRise DEF BatchArrives, CountersTyped
  <2>3. CountersTyped'
    BY <1>3, <2>2 DEF BatchArrives, CountersTyped
  <2>4. CountersPast'
    <3> SUFFICES ASSUME NEW c \in counters'
                 PROVE  /\ c \in Nat \X Nat
                        /\ c[1] <= tracker'.expected
                        /\ c[2] <= tracker'.received
      BY DEF CountersPast
    <3>1. CASE c \in counters
      BY <3>1, <2>2 DEF CountersPast, CountersTyped
    <3>2. CASE c = <<tracker'.expected, tracker'.received>>
      BY <3>2, <2>2
    <3> QED
      BY <1>3, <3>1, <3>2 DEF BatchArrives
  <2>5. FedExactly'
    BY <1>3, <2>2 DEF BatchArrives, FedExactly, CountersTyped
  <2> QED
    BY <2>3, <2>4, <2>5
<1>4. ASSUME NEW c \in counters, AckLost(c)
      PROVE  IInv'
  BY <1>4 DEF AckLost, CountersTyped, CountersPast, FedExactly
<1>5. ASSUME NEW c \in counters, NEW repeated \in BOOLEAN, WindowAck(c, repeated)
      PROVE  IInv'
  <2> DEFINE dE == Less(c[1], ack_cum.expected)
             dR == Less(c[2], ack_cum.received)
             w  == credit(dE, dR)
  <2>1. /\ c[1] \in Nat
        /\ c[2] \in Nat
        /\ c[1] <= tracker.expected
        /\ c[2] <= tracker.received
    BY DEF CountersPast
  <2>2. CountersPast'
    BY <1>5 DEF WindowAck, CountersPast
  <2>3. CASE c[2] = 0 \/ (dE = 0 /\ dR = 0)
    BY <1>5, <2>2, <2>3 DEF WindowAck, CountersTyped, FedExactly
  <2>4. CASE ~(c[2] = 0 \/ (dE = 0 /\ dR = 0))
    <3>1. /\ ack_cum' = counter_cursor(c[1], c[2])
          /\ held' = w.held
          /\ fed' = Totals(fed.expected + dE, fed.received + dE - w.lost)
          /\ UNCHANGED <<path_seq, batches, tracker>>
      BY <1>5, <2>4 DEF WindowAck
    <3>2. /\ dE \in Nat
          /\ dR \in Nat
          /\ ack_cum' \in [expected : Nat, received : Nat]
          /\ ack_cum'.expected = ack_cum.expected + dE
          /\ ack_cum'.received = ack_cum.received + dR
          /\ ack_cum'.expected \in {ack_cum.expected, c[1]}
          /\ ack_cum'.received \in {ack_cum.received, c[2]}
      BY <2>1, <3>1, CursorMoves DEF CountersTyped
    <3>3. /\ w.held \in Nat
          /\ w.lost \in Nat
          /\ w.lost <= dE
          /\ w.lost - w.held = dE - dR - held
      BY <3>2, CreditLaw DEF CountersTyped
    <3>4. /\ fed' \in [expected : Nat, received : Nat]
          /\ fed'.expected = fed.expected + dE
          /\ fed'.received = fed.received + dE - w.lost
      <4> HIDE DEF dE, w
      <4> QED
        BY <3>1, <3>2, <3>3 DEF Totals, CountersTyped
    <3>5. CountersTyped'
      BY <3>1, <3>2, <3>3, <3>4 DEF CountersTyped
    <3>6. FedExactly'
      <4> HIDE DEF dE, dR, w
      <4>1. /\ fed'.expected = ack_cum'.expected
            /\ fed'.expected - fed'.received = ack_cum'.expected - ack_cum'.received + held'
            /\ fed'.received <= fed'.expected
        BY <3>1, <3>2, <3>3, <3>4 DEF FedExactly, CountersTyped
      <4>2. /\ ack_cum'.expected <= tracker'.expected
            /\ ack_cum'.received <= tracker'.received
        BY <2>1, <3>1, <3>2 DEF FedExactly
      <4> QED
        BY <4>1, <4>2 DEF FedExactly
    <3> QED
      BY <2>2, <3>5, <3>6
  <2> QED
    BY <2>3, <2>4
<1>6. ASSUME HeardOf
      PROVE  IInv'
  BY <1>6 DEF HeardOf, CountersTyped, CountersPast, FedExactly
<1>7. ASSUME NEW j \in DOMAIN in_flight_log, ExpireInFlight(j)
      PROVE  IInv'
  BY <1>7 DEF ExpireInFlight, CountersTyped, CountersPast, FedExactly
<1>8. ASSUME PathDies
      PROVE  IInv'
  BY <1>8 DEF PathDies, CountersTyped, CountersPast, FedExactly
<1>9. ASSUME UNCHANGED pathVars
      PROVE  IInv'
  BY <1>9 DEF pathVars, CountersTyped, CountersPast, FedExactly
<1> QED
  BY <1>0, <1>1, <1>2, <1>3, <1>4, <1>5, <1>6, <1>7, <1>8, <1>9 DEF PathNext

(***************************************************************************)
(* FedAddsUp: what the estimator was fed is the totals the sender has seen *)
(* but for the credit it holds, in every behaviour.                        *)
(***************************************************************************)
THEOREM FedAddsUp == PathSpec => []FedExactly
<1>1. PathSpec => []IInv
  BY InitInv, StepInv, PTL DEF PathSpec
<1>2. IInv => FedExactly
  BY DEF IInv
<1> QED
  BY <1>1, <1>2, PTL

-----------------------------------------------------------------------------
(***************************************************************************)
(* What has arrived, and the tracker's mark and first batch.               *)
(***************************************************************************)
Late == {s \in arrived : s < first_seq}

ArrivalsTyped ==
    /\ path_seq \in Nat
    /\ batches \subseteq 0 .. path_seq - 1
    /\ arrived \subseteq 0 .. path_seq - 1
    /\ batches \cap arrived = {}
    /\ tracker \in [highest_seq : Int, expected : Nat, received : Nat]
    /\ arrived = {} => tracker.highest_seq = NoSeq /\ tracker.expected = 0 /\ first_seq = NoSeq
    /\ arrived # {} => /\ first_seq \in arrived
                       /\ tracker.highest_seq \in arrived
    /\ \A s \in arrived : s <= tracker.highest_seq

ArrivalsInv == ArrivalsTyped /\ LossCounted

(***************************************************************************)
(* The sets counted are finite.                                            *)
(***************************************************************************)
LEMMA CountedFinite ==
    ASSUME ArrivalsTyped
    PROVE  /\ IsFiniteSet(arrived)
           /\ IsFiniteSet(Late)
           /\ arrived # {} => IsFiniteSet(Missing(first_seq))
<1>1. IsFiniteSet(0 .. path_seq - 1)
  BY FS_Interval DEF ArrivalsTyped
<1>2. IsFiniteSet(arrived)
  BY <1>1, FS_Subset DEF ArrivalsTyped
<1>3. IsFiniteSet(Late)
  BY <1>2, FS_Subset DEF Late
<1>4. ASSUME arrived # {}
      PROVE  IsFiniteSet(Missing(first_seq))
  <2> DEFINE a == first_seq
             b == tracker.highest_seq
  <2>1. a \in Int /\ b \in Int
    <3>1. a \in arrived /\ b \in arrived
      BY <1>4 DEF ArrivalsTyped
    <3>2. \A i \in arrived : i \in Int
      BY DEF ArrivalsTyped
    <3> QED
      BY <3>1, <3>2
  <2>2. Missing(first_seq) \subseteq a .. b
    BY DEF Missing
  <2> HIDE DEF a, b
  <2>3. IsFiniteSet(a .. b)
    BY <2>1, FS_Interval
  <2> QED
    BY <2>2, <2>3, FS_Subset
<1> QED
  BY <1>2, <1>3, <1>4

(***************************************************************************)
(* Nothing has arrived.                                                    *)
(***************************************************************************)
LEMMA ArrivalsInit == PathInit => ArrivalsInv
BY FS_EmptySet DEF PathInit, ArrivalsInv, ArrivalsTyped, LossCounted, NoSeq

(***************************************************************************)
(* The arrival of a batch keeps the count: the first one, one beyond the   *)
(* highest, a late one, one from before the first.                         *)
(***************************************************************************)
LEMMA ArrivalCounted ==
    ASSUME ArrivalsInv, NEW s \in batches, BatchArrives(s)
    PROVE  ArrivalsInv'
<1> USE DEF ArrivalsInv
<1>1. /\ s \in 0 .. path_seq - 1
      /\ s \notin arrived
      /\ path_seq' = path_seq
      /\ batches' = batches \ {s}
      /\ arrived' = arrived \cup {s}
      /\ first_seq' = IF first_seq = NoSeq THEN s ELSE first_seq
      /\ tracker' = record_batch(tracker, s)
  BY DEF ArrivalsTyped, BatchArrives
<1>2. /\ tracker' \in [highest_seq : Int, expected : Nat, received : Nat]
      /\ tracker'.highest_seq = IF tracker.highest_seq >= s THEN tracker.highest_seq ELSE s
      /\ tracker'.expected = tracker.expected + (IF tracker.highest_seq = NoSeq THEN 1
                                 ELSE IF s >= tracker.highest_seq THEN s - tracker.highest_seq ELSE 0)
      /\ tracker'.received = tracker.received + 1
  BY <1>1 DEF ArrivalsTyped, record_batch, AtLeast, Less
<1>3. ArrivalsTyped'
  BY <1>1, <1>2 DEF ArrivalsTyped, NoSeq
<1>4. tracker'.received = Cardinality(arrived')
  <2>1. Cardinality(arrived \cup {s}) = Cardinality(arrived) + 1
    BY <1>1, CountedFinite, FS_AddElement
  <2> QED
    BY <1>1, <1>2, <2>1 DEF LossCounted
<1>5. CASE arrived = {}
  <2>1. /\ Missing(first_seq)' = {}
        /\ Late' = {}
    BY <1>1, <1>2, <1>5 DEF ArrivalsTyped, Missing, Late, NoSeq
  <2>2. tracker'.expected = 1 /\ tracker'.received = 1
    BY <1>2, <1>5, FS_EmptySet DEF ArrivalsTyped, LossCounted
  <2> QED
    BY <1>3, <1>4, <2>1, <2>2, FS_EmptySet DEF LossCounted, Late
<1>6. CASE arrived # {} /\ s > tracker.highest_seq
  <2> DEFINE gap == tracker.highest_seq + 1 .. s - 1
  <2>1. /\ first_seq' = first_seq
        /\ first_seq <= tracker.highest_seq
        /\ tracker.highest_seq \in Nat
        /\ tracker'.highest_seq = s
    BY <1>1, <1>2, <1>6 DEF ArrivalsTyped, NoSeq
  <2>2. /\ Missing(first_seq)' = Missing(first_seq) \cup gap
        /\ Missing(first_seq) \cap gap = {}
    BY <1>1, <1>6, <2>1 DEF Missing, ArrivalsTyped
  <2>3. Late' = Late
    BY <1>1, <1>6, <2>1 DEF Late, ArrivalsTyped
  <2>4. /\ IsFiniteSet(gap)
        /\ Cardinality(gap) = s - 1 - tracker.highest_seq
    <3>1. /\ tracker.highest_seq + 1 \in Int
          /\ s - 1 \in Int
          /\ (IF tracker.highest_seq + 1 > s - 1 THEN 0
                ELSE s - 1 - (tracker.highest_seq + 1) + 1) = s - 1 - tracker.highest_seq
      BY <1>1, <1>6, <2>1
    <3> QED
      BY <3>1, FS_Interval
  <2>5. /\ Cardinality(Missing(first_seq)') = Cardinality(Missing(first_seq)) + Cardinality(gap)
        /\ Cardinality(Missing(first_seq)) \in Nat
        /\ Cardinality(Late) \in Nat
    <3> HIDE DEF gap
    <3>1. /\ IsFiniteSet(Missing(first_seq))
          /\ IsFiniteSet(Late)
      BY <1>6, CountedFinite
    <3>2. /\ Cardinality(Missing(first_seq)) \in Nat
          /\ Cardinality(Late) \in Nat
          /\ Cardinality(gap) \in Nat
      BY <2>4, <3>1, FS_CardinalityType
    <3>3. Cardinality(Missing(first_seq) \cup gap)
              = Cardinality(Missing(first_seq)) + Cardinality(gap)
                    - Cardinality(Missing(first_seq) \cap gap)
      BY <2>4, <3>1, FS_Union
    <3>4. Cardinality(Missing(first_seq) \cap gap) = 0
      BY <2>2, FS_EmptySet
    <3> QED
      BY <2>2, <3>2, <3>3, <3>4
  <2>6. tracker'.expected - tracker'.received
            = tracker.expected - tracker.received + (s - 1 - tracker.highest_seq)
    BY <1>1, <1>2, <1>6, <2>1 DEF ArrivalsTyped, NoSeq
  <2>7. tracker.expected - tracker.received = Cardinality(Missing(first_seq)) - Cardinality(Late)
    BY <1>6 DEF LossCounted, Late
  <2>8. tracker'.expected - tracker'.received
            = Cardinality(Missing(first_seq)') - Cardinality(Late')
    BY <1>1, <2>1, <2>3, <2>4, <2>5, <2>6, <2>7
  <2> QED
    BY <1>3, <1>4, <2>8 DEF LossCounted, Late
<1>7. CASE arrived # {} /\ s < tracker.highest_seq
  <2>1. /\ first_seq' = first_seq
        /\ first_seq \in Nat
        /\ s # first_seq
        /\ tracker.highest_seq \in Nat
        /\ tracker'.highest_seq = tracker.highest_seq
        /\ tracker'.expected = tracker.expected
        /\ tracker'.received = tracker.received + 1
    BY <1>1, <1>2, <1>7 DEF ArrivalsTyped, NoSeq
  <2>2. /\ tracker.expected - tracker.received = Cardinality(Missing(first_seq)) - Cardinality(Late)
        /\ Cardinality(Missing(first_seq)) \in Nat
        /\ Cardinality(Late) \in Nat
    BY <1>7, CountedFinite, FS_CardinalityType DEF LossCounted, Late
  <2>3. CASE s > first_seq
    <3>1. /\ Missing(first_seq)' = Missing(first_seq) \ {s}
          /\ s \in Missing(first_seq)
          /\ Late' = Late
      BY <1>1, <1>7, <2>1, <2>3 DEF Missing, Late, ArrivalsTyped
    <3>2. Cardinality(Missing(first_seq)') = Cardinality(Missing(first_seq)) - 1
      BY <1>7, <3>1, CountedFinite, FS_RemoveElement
    <3>3. tracker'.expected - tracker'.received
              = Cardinality(Missing(first_seq)') - Cardinality(Late')
      BY <1>2, <2>1, <2>2, <3>1, <3>2 DEF ArrivalsTyped
    <3> QED
      BY <1>3, <1>4, <3>3 DEF LossCounted, Late
  <2>4. CASE s < first_seq
    <3>1. /\ Missing(first_seq)' = Missing(first_seq)
          /\ Late' = Late \cup {s}
          /\ s \notin Late
      BY <1>1, <1>7, <2>1, <2>4 DEF Missing, Late, ArrivalsTyped
    <3>2. Cardinality(Late') = Cardinality(Late) + 1
      BY <3>1, CountedFinite, FS_AddElement
    <3>3. tracker'.expected - tracker'.received
              = Cardinality(Missing(first_seq)') - Cardinality(Late')
      BY <1>2, <2>1, <2>2, <3>1, <3>2 DEF ArrivalsTyped
    <3> QED
      BY <1>3, <1>4, <3>3 DEF LossCounted, Late
  <2> QED
    BY <1>1, <2>1, <2>3, <2>4
<1>8. arrived # {} => s # tracker.highest_seq
  BY <1>1 DEF ArrivalsTyped
<1>9. s \in Int /\ tracker.highest_seq \in Int
  BY <1>1 DEF ArrivalsTyped
<1> QED
  BY <1>5, <1>6, <1>7, <1>8, <1>9

(***************************************************************************)
(* Every step keeps it: only arrivals touch the tracker.                   *)
(***************************************************************************)
LEMMA ArrivalsStep == ArrivalsInv /\ [PathNext]_pathVars => ArrivalsInv'
<1> SUFFICES ASSUME ArrivalsInv, [PathNext]_pathVars
             PROVE  ArrivalsInv'
  OBVIOUS
<1>0. ASSUME Leaves, UNCHANGED <<arrived, first_seq, tracker>>
      PROVE  ArrivalsInv'
  BY <1>0 DEF Leaves, ArrivalsInv, ArrivalsTyped, LossCounted, Missing
<1>1. CASE SendBatch \/ SendUncharged
  BY <1>0, <1>1 DEF SendBatch, SendUncharged
<1>2. ASSUME NEW s \in batches, BatchLost(s)
      PROVE  ArrivalsInv'
  BY <1>2 DEF BatchLost, ArrivalsInv, ArrivalsTyped, LossCounted, Missing
<1>3. ASSUME NEW s \in batches, BatchArrives(s)
      PROVE  ArrivalsInv'
  BY <1>3, ArrivalCounted
<1>4. ASSUME UNCHANGED <<path_seq, batches, arrived, first_seq, tracker>>
      PROVE  ArrivalsInv'
  BY <1>4 DEF ArrivalsInv, ArrivalsTyped, LossCounted, Missing
<1>5. ASSUME NEW c \in counters, AckLost(c)
      PROVE  ArrivalsInv'
  BY <1>4, <1>5 DEF AckLost
<1>6. ASSUME NEW c \in counters, NEW repeated \in BOOLEAN, WindowAck(c, repeated)
      PROVE  ArrivalsInv'
  BY <1>4, <1>6 DEF WindowAck
<1>7. ASSUME HeardOf
      PROVE  ArrivalsInv'
  BY <1>4, <1>7 DEF HeardOf
<1>8. ASSUME NEW j \in DOMAIN in_flight_log, ExpireInFlight(j)
      PROVE  ArrivalsInv'
  BY <1>4, <1>8 DEF ExpireInFlight
<1>9. ASSUME PathDies
      PROVE  ArrivalsInv'
  BY <1>4, <1>9 DEF PathDies
<1>10. ASSUME UNCHANGED pathVars
       PROVE  ArrivalsInv'
  BY <1>4, <1>10 DEF pathVars
<1> QED
  BY <1>1, <1>2, <1>3, <1>5, <1>6, <1>7, <1>8, <1>9, <1>10 DEF PathNext

(***************************************************************************)
(* ReorderIsNotLoss: the totals differ by what is missing above the first  *)
(* batch, less what came late from below it, in every behaviour.           *)
(***************************************************************************)
THEOREM ReorderIsNotLoss == PathSpec => []LossCounted
<1>1. PathSpec => []ArrivalsInv
  BY ArrivalsInit, ArrivalsStep, PTL DEF PathSpec
<1>2. ArrivalsInv => LossCounted
  BY DEF ArrivalsInv
<1> QED
  BY <1>1, <1>2, PTL

-----------------------------------------------------------------------------
(***************************************************************************)
(* The charge log.  The sums of a log are those of its first k charges.    *)
(***************************************************************************)
Sums(log, sum) ==
    /\ sum \in [0 .. Len(log) -> Nat]
    /\ sum[0] = 0
    /\ \A k \in 1 .. Len(log) : sum[k] = sum[k - 1] + log[k]

(***************************************************************************)
(* Charges is the last of the sums.                                        *)
(***************************************************************************)
LEMMA ChargesAreSums ==
    ASSUME NEW log \in Seq(Nat)
    PROVE  \E sum : Sums(log, sum) /\ Charges(log) = sum[Len(log)]
<1> DEFINE n == Len(log)
           Eq(f) == f = [s \in SUBSET (1 .. n) |-> IF s = {} THEN 0
                                                  ELSE f[s \ {Max(s)}] + log[Max(s)]]
           iter == CHOOSE f : Eq(f)
           step == [p \in Nat \X (1 .. n) |-> p[1] + log[p[2]]]
           sum == [k \in 0 .. n |-> iter[1 .. k]]
<1>1. n \in Nat /\ DOMAIN log = 1 .. n /\ log \in [1 .. n -> Nat]
  BY LenProperties
<1>2. Charges(log) = (CHOOSE f : f = [s \in SUBSET (DOMAIN log) |->
                                       IF s = {} THEN 0
                                       ELSE f[s \ {Max(s)}] + log[Max(s)]])[DOMAIN log]
  BY DEF Charges, FoldLeft, MapThenFoldSet
<1>. HIDE DEF n
<1>3. Charges(log) = iter[1 .. n]
  BY <1>1, <1>2
<1>4. \A s : Max(s) = Greatest(s)
  BY DEF Max, Greatest
<1>5. \E f : Eq(f)
  <2>1. step \in [Nat \X (1 .. n) -> Nat]
    BY <1>1
  <2>2. PICK h \in [SUBSET (1 .. n) -> Nat] : FoldBy(h, n, 0, step)
    BY <1>1, <2>1, FoldExists
  <2>3. ASSUME NEW s \in SUBSET (1 .. n), s # {}
        PROVE  step[<<h[s \ {Greatest(s)}], Greatest(s)>>]
                  = h[s \ {Greatest(s)}] + log[Greatest(s)]
    BY <1>1, <2>3, PositionsCount
  <2>4. Eq(h)
    BY <2>2, <2>3, <1>4 DEF FoldBy
  <2>. QED  BY <2>4
<1>6. Eq(iter)
  BY <1>5
<1>. HIDE DEF iter
<1>7. iter[1 .. 0] = 0
  BY <1>6
<1>8. ASSUME NEW k \in 1 .. n
      PROVE  iter[1 .. k] = iter[1 .. k - 1] + log[k]
  <2>1. /\ 1 .. k \in SUBSET (1 .. n) /\ 1 .. k # {}
        /\ Greatest(1 .. k) = k /\ (1 .. k) \ {k} = 1 .. k - 1
    BY <1>1, IntervalTop
  <2>2. Max(1 .. k) = k
    BY <2>1, <1>4
  <2>. QED  BY <1>6, <2>1, <2>2
<1>9. \A k \in 0 .. n : iter[1 .. k] \in Nat
  <2> DEFINE S == {k \in 0 .. n : iter[1 .. k] \in Nat}
  <2>1. 0 \in S
    BY <1>1, <1>7
  <2>2. ASSUME NEW k \in 0 .. n - 1, k \in S
        PROVE  k + 1 \in S
    <3>1. k + 1 \in 1 .. n /\ (k + 1) - 1 = k
      BY <1>1
    <3>2. iter[1 .. k + 1] = iter[1 .. k] + log[k + 1] /\ log[k + 1] \in Nat
      BY <1>1, <1>8, <3>1
    <3>. QED  BY <2>2, <3>1, <3>2
  <2>. HIDE DEF S
  <2>3. 0 .. n \subseteq S
    BY <1>1, <2>1, <2>2, IntervalInduction
  <2>. QED  BY <2>3 DEF S
<1>10. Sums(log, sum) /\ Charges(log) = sum[n]
  BY <1>1, <1>3, <1>7, <1>8, <1>9 DEF Sums, n
<1>. QED  BY <1>10 DEF n

(* A log that continues another one at position a, its first charge less d. *)
Continues(part, log, a, d) ==
    /\ a + Len(part) <= Len(log)
    /\ \A k \in 1 .. Len(part) : part[k] = log[a + k] - (IF k = 1 THEN d ELSE 0)

(***************************************************************************)
(* Its sums are those of the other log from there on, less d.              *)
(***************************************************************************)
LEMMA ShiftedSums ==
    ASSUME NEW log \in Seq(Nat), NEW sum, Sums(log, sum),
           NEW part \in Seq(Nat), NEW psum, Sums(part, psum),
           NEW a \in Nat, NEW d \in Int, Continues(part, log, a, d)
    PROVE  \A k \in 0 .. Len(part) :
              psum[k] = sum[a + k] - sum[a] - (IF k = 0 THEN 0 ELSE d)
<1> DEFINE m == Len(part)
           n == Len(log)
           Fit(k) == psum[k] = sum[a + k] - sum[a] - (IF k = 0 THEN 0 ELSE d)
           S == {k \in 0 .. m : Fit(k)}
<1>1. /\ m \in Nat /\ n \in Nat /\ a + m <= n
      /\ \A k \in 0 .. n : sum[k] \in Nat
      /\ \A k \in 0 .. m : psum[k] \in Nat
      /\ psum[0] = 0
      /\ \A k \in 1 .. n : sum[k] = sum[k - 1] + log[k]
      /\ \A k \in 1 .. m : psum[k] = psum[k - 1] + part[k]
      /\ \A k \in 1 .. m : part[k] = log[a + k] - (IF k = 1 THEN d ELSE 0)
      /\ \A k \in 1 .. n : log[k] \in Nat
  BY LenProperties DEF Sums, Continues
<1>. HIDE DEF m, n
<1>2. 0 \in S
  <2>1. a + 0 = a /\ a \in 0 .. n
    BY <1>1
  <2>. QED  BY <1>1, <2>1
<1>3. ASSUME NEW k \in 0 .. m - 1, k \in S
      PROVE  k + 1 \in S
  <2>1. /\ k + 1 \in 1 .. m /\ (k + 1) - 1 = k /\ k \in 0 .. m
        /\ a + (k + 1) \in 1 .. n /\ (a + (k + 1)) - 1 = a + k /\ a + k \in 0 .. n /\ a \in 0 .. n
    BY <1>1
  <2>2. psum[k + 1] = psum[k] + part[k + 1] /\ sum[a + (k + 1)] = sum[a + k] + log[a + (k + 1)]
    BY <1>1, <2>1
  <2>3. part[k + 1] = log[a + (k + 1)] - (IF k + 1 = 1 THEN d ELSE 0)
    BY <1>1, <2>1
  <2>4. Fit(k)
    BY <1>3
  <2>5. /\ psum[k] \in Int /\ sum[a + k] \in Int /\ sum[a] \in Int /\ log[a + (k + 1)] \in Int
        /\ k \in Int /\ (k + 1 = 1 <=> k = 0)
    BY <1>1, <2>1
  <2>6. Fit(k + 1)
    <3>1. CASE k = 0
      BY <3>1, <2>2, <2>3, <2>4, <2>5, SMTT(20)
    <3>2. CASE k # 0
      <4>1. psum[k] = sum[a + k] - sum[a] - d
        BY <3>2, <2>4
      <4>2. part[k + 1] = log[a + (k + 1)] /\ k + 1 # 0
        <5>1. part[k + 1] = log[a + (k + 1)] - 0
          BY <3>2, <2>3, <2>5
        <5>. QED  BY <5>1, <2>1, <2>5
      <4>3. \A x, y, z \in Int : \A u, v, w :
               u = x - y - d /\ v = u + z /\ w = x + z => v = w - y - d
        OBVIOUS
      <4>4. psum[k + 1] = psum[k] + log[a + (k + 1)]
        BY <4>2, <2>2, Zenon
      <4>5. psum[k + 1] = sum[a + (k + 1)] - sum[a] - d
        <5>1. \A u, v, w :
                 u = sum[a + k] - sum[a] - d /\ v = u + log[a + (k + 1)]
                    /\ w = sum[a + k] + log[a + (k + 1)] => v = w - sum[a] - d
          BY <4>3, <2>5, ZenonT(40)
        <5>. QED  BY <5>1, <4>1, <4>4, <2>2, Zenon
      <4>. QED  BY <4>2, <4>5, Zenon
    <3>. QED  BY <3>1, <3>2
  <2>. QED  BY <2>1, <2>6
<1>. HIDE DEF S, Fit
<1>4. 0 .. m \subseteq S
  BY <1>1, <1>2, <1>3, IntervalInduction
<1>. QED  BY <1>4 DEF S, Fit, m

(* The sums of a log rise.                                                 *)
LEMMA SumsRise ==
    ASSUME NEW log \in Seq(Nat), NEW sum, Sums(log, sum), NEW j \in 0 .. Len(log)
    PROVE  \A k \in j .. Len(log) : sum[j] <= sum[k]
<1> DEFINE n == Len(log)
           S == {k \in 0 .. n : j <= k => sum[j] <= sum[k]}
<1>1. /\ n \in Nat /\ j \in 0 .. n
      /\ \A k \in 0 .. n : sum[k] \in Nat
      /\ \A k \in 1 .. n : sum[k] = sum[k - 1] + log[k] /\ log[k] \in Nat
  BY LenProperties DEF Sums
<1>. HIDE DEF n
<1>2. 0 \in S
  BY <1>1
<1>3. ASSUME NEW k \in 0 .. n - 1, k \in S
      PROVE  k + 1 \in S
  <2>1. k + 1 \in 1 .. n /\ (k + 1) - 1 = k /\ k \in 0 .. n /\ k \in Int
    BY <1>1
  <2>2. sum[k + 1] = sum[k] + log[k + 1] /\ log[k + 1] \in Nat /\ sum[k] \in Nat
    BY <1>1, <2>1
  <2>3. CASE j <= k
    BY <1>1, <1>3, <2>1, <2>2, <2>3
  <2>4. CASE ~(j <= k)
    <3>1. j <= k + 1 => j = k + 1
      BY <1>1, <2>1, <2>4
    <3>. QED  BY <1>1, <2>1, <3>1
  <2>. QED  BY <2>3, <2>4
<1>. HIDE DEF S
<1>4. 0 .. n \subseteq S
  BY <1>1, <1>2, <1>3, IntervalInduction
<1>5. \A k \in j .. n : k \in S /\ j <= k
  BY <1>1, <1>4
<1>. QED  BY <1>5 DEF S, n

(***************************************************************************)
(* What a part of the log charges is a difference of two sums.             *)
(***************************************************************************)
LEMMA PartCharges ==
    ASSUME NEW log \in Seq(Nat), NEW sum, Sums(log, sum),
           NEW a \in 0 .. Len(log), NEW b \in a .. Len(log)
    PROVE  /\ SubSeq(log, a + 1, b) \in Seq(Nat)
           /\ Charges(SubSeq(log, a + 1, b)) = sum[b] - sum[a]
<1> DEFINE part == SubSeq(log, a + 1, b)
<1>1. /\ Len(log) \in Nat /\ a \in Nat /\ b \in Nat /\ a <= b /\ b <= Len(log)
      /\ \A k \in 1 .. Len(log) : log[k] \in Nat
      /\ \A k \in 0 .. Len(log) : sum[k] \in Nat
  <2>1. Len(log) \in Nat /\ \A k \in 1 .. Len(log) : log[k] \in Nat
    BY LenProperties
  <2>2. \A k \in 0 .. Len(log) : sum[k] \in Nat
    BY DEF Sums
  <2>. QED  BY <2>1, <2>2
<1>2. /\ part \in Seq(Nat) /\ Len(part) = b - a
      /\ \A k \in 1 .. b - a : part[k] = log[a + k]
  <2>1. /\ part \in Seq(Nat)
        /\ Len(part) = IF a + 1 <= b THEN b - (a + 1) + 1 ELSE 0
        /\ \A k \in 1 .. b - (a + 1) + 1 : part[k] = log[(a + 1) + k - 1]
    BY <1>1, SubSeqProperties, a + 1 \in Int, b \in Int, \A k \in a + 1 .. b : log[k] \in Nat
  <2>2. b - (a + 1) + 1 = b - a /\ \A k \in 1 .. b - a : (a + 1) + k - 1 = a + k
    BY <1>1
  <2>. QED  BY <1>1, <2>1, <2>2
<1>. HIDE DEF part
<1>3. PICK psum : Sums(part, psum) /\ Charges(part) = psum[Len(part)]
  BY <1>2, ChargesAreSums
<1>0. PICK d \in Int : d = 0
  OBVIOUS
<1>4. Continues(part, log, a, d)
  BY <1>0, <1>1, <1>2, SMTT(20) DEF Continues
<1>6. \A k \in 0 .. Len(part) : psum[k] = sum[a + k] - sum[a] - (IF k = 0 THEN 0 ELSE d)
  BY <1>1, <1>2, <1>3, <1>4, ShiftedSums
<1>7. psum[b - a] = sum[b] - sum[a]
  <2>1. b - a \in 0 .. Len(part) /\ a + (b - a) = b
    BY <1>1, <1>2
  <2>2. psum[b - a] = sum[b] - sum[a] - 0
    BY <1>0, <1>6, <2>1
  <2>3. sum[b] - sum[a] - 0 = sum[b] - sum[a]
    BY <1>1
  <2>. QED  BY <2>2, <2>3
<1>. QED  BY <1>2, <1>3, <1>7 DEF part

(* What the first charges sum to.                                          *)
LEMMA FirstCharges ==
    ASSUME NEW log \in Seq(Nat), NEW sum, Sums(log, sum), NEW b \in 0 .. Len(log)
    PROVE  Charges(SubSeq(log, 1, b)) = sum[b]
<1>1. Len(log) \in Nat /\ sum[0] = 0 /\ sum[b] \in Nat
  BY LenProperties DEF Sums
<1>2. Charges(SubSeq(log, 0 + 1, b)) = sum[b] - sum[0]
  BY <1>1, PartCharges, 0 \in 0 .. Len(log), b \in 0 .. Len(log)
<1>. QED  BY <1>1, <1>2

(* A charge comes on top.                                                  *)
LEMMA AppendCharges ==
    ASSUME NEW log \in Seq(Nat), NEW n \in Nat
    PROVE  /\ Append(log, n) \in Seq(Nat)
           /\ Charges(log) \in Nat
           /\ Charges(Append(log, n)) = Charges(log) + n
<1> DEFINE more == Append(log, n)
           m == Len(log)
<1>1. /\ more \in Seq(Nat) /\ Len(more) = m + 1 /\ more[m + 1] = n /\ m \in Nat
      /\ \A k \in 1 .. m : more[k] = log[k]
      /\ \A k \in 1 .. m : log[k] \in Nat
  BY LenProperties, AppendProperties
<1>. HIDE DEF more
<1>2. PICK msum : Sums(more, msum) /\ Charges(more) = msum[m + 1]
  BY <1>1, ChargesAreSums
<1>3. PICK sum : Sums(log, sum) /\ Charges(log) = sum[m]
  BY ChargesAreSums
<1>0. PICK d \in Int : d = 0
  OBVIOUS
<1>4. Continues(log, more, 0, d)
  BY <1>0, <1>1 DEF Continues
<1>5. \A k \in 0 .. m : sum[k] = msum[0 + k] - msum[0] - (IF k = 0 THEN 0 ELSE d)
  BY <1>1, <1>2, <1>3, <1>4, ShiftedSums, 0 \in Nat
<1>6. /\ msum[0] = 0 /\ msum[m] \in Nat /\ sum[m] \in Nat
      /\ msum[m + 1] = msum[m] + n
  <2>1. m + 1 \in 1 .. Len(more) /\ (m + 1) - 1 = m /\ m \in 0 .. Len(more)
    BY <1>1
  <2>2. /\ msum[0] = 0 /\ msum[m] \in Nat
        /\ msum[m + 1] = msum[(m + 1) - 1] + more[m + 1]
    BY <1>2, <2>1 DEF Sums
  <2>3. sum[m] \in Nat
    BY <1>1, <1>3, SMTT(20) DEF Sums
  <2>. QED  BY <1>1, <2>1, <2>2, <2>3
<1>7. sum[m] = msum[m]
  <2>1. m \in 0 .. m /\ 0 + m = m
    BY <1>1
  <2>2. sum[m] = msum[m] - 0 - 0
    BY <1>0, <1>5, <1>6, <2>1
  <2>. QED  BY <2>2, <1>6
<1>. QED  BY <1>1, <1>2, <1>3, <1>6, <1>7 DEF more

(***************************************************************************)
(* release_in_flight takes n from what the log charges, all of it if there *)
(* is less.                                                                *)
(***************************************************************************)
LEMMA ReleaseLog ==
    ASSUME NEW log \in Seq(Nat), NEW n \in Nat
    PROVE  /\ release_log(log, n) \in Seq(Nat)
           /\ Charges(release_log(log, n)) = Less(Charges(log), n)
<1> DEFINE m == Len(log)
           gone == {k \in DOMAIN log : Charges(SubSeq(log, 1, k)) <= n}
           c == Cardinality(gone)
           rest == SubSeq(log, c + 1, m)
           part == n - Charges(SubSeq(log, 1, c))
           left == [rest EXCEPT ![1] = @ - part]
<1>1. /\ m \in Nat /\ DOMAIN log = 1 .. m
      /\ \A k \in 1 .. m : log[k] \in Nat
  BY LenProperties
<1>2. PICK sum : Sums(log, sum) /\ Charges(log) = sum[m]
  BY ChargesAreSums
<1>3. /\ \A k \in 0 .. m : sum[k] \in Nat
      /\ \A k \in 1 .. m : sum[k] = sum[k - 1] + log[k]
      /\ sum[0] = 0
  BY <1>2 DEF Sums
<1>4. \A k \in 0 .. m : Charges(SubSeq(log, 1, k)) = sum[k]
  BY <1>2, FirstCharges
<1>5. gone = {k \in 1 .. m : sum[k] <= n}
  BY <1>1, <1>4
<1>6. \A j \in 0 .. m : \A k \in j .. m : sum[j] <= sum[k]
  BY <1>2, SumsRise
<1>. HIDE DEF gone
<1>7. c \in 0 .. m /\ gone = 1 .. c
  <2>1. \A i \in gone : \A j \in 1 .. i : j \in gone
    <3> SUFFICES ASSUME NEW i \in gone, NEW j \in 1 .. i
                 PROVE  j \in gone
      OBVIOUS
    <3>1. i \in 1 .. m /\ sum[i] <= n
      BY <1>5
    <3>2. j \in 1 .. m /\ j \in 0 .. m /\ i \in j .. m /\ i \in 0 .. m
      BY <3>1, <1>1
    <3>3. sum[j] <= sum[i] /\ sum[j] \in Nat /\ sum[i] \in Nat
      BY <3>2, <1>3, <1>6
    <3>. QED  BY <1>5, <3>1, <3>2, <3>3
  <2>. QED  BY <1>1, <1>5, <2>1, InitialPositions
<1>8. sum[c] <= n
  <2>1. CASE c = 0
    BY <2>1, <1>3
  <2>2. CASE c # 0
    <3>1. c \in 1 .. c
      BY <2>2, <1>1, <1>7
    <3>. QED  BY <3>1, <1>5, <1>7
  <2>. QED  BY <2>1, <2>2
<1>9. part = n - sum[c]
  BY <1>4, <1>7
<1>10. release_log(log, n) = IF rest = <<>> THEN <<>> ELSE left
  BY DEF release_log, gone
<1>. HIDE DEF c, part, rest, m
<1>11. CASE c = m
  <2>1. rest = <<>>
    BY <1>1, <1>11, SubSeqEmpty DEF rest
  <2>2. Charges(<<>>) = 0
    <3>1. \E e : Sums(<<>>, e) /\ Charges(<<>>) = e[Len(<<>>)]
      BY ChargesAreSums, <<>> \in Seq(Nat)
    <3>. QED  BY <3>1 DEF Sums
  <2>3. Less(sum[m], n) = 0
    BY <1>3, <1>8, <1>11, <1>7 DEF Less
  <2>. QED  BY <1>2, <1>10, <2>1, <2>2, <2>3
<1>12. CASE c # m
  <2>1. /\ rest \in Seq(Nat) /\ Len(rest) = m - c /\ c + 1 \in 1 .. m
        /\ \A k \in 1 .. m - c : rest[k] = log[c + k]
    <3>1. c + 1 \in 1 .. m /\ m \in Nat /\ c \in Nat
      BY <1>1, <1>7, <1>12
    <3>2. \A k \in c + 1 .. m : log[k] \in Nat
      BY <1>1, <3>1
    <3>3. /\ rest \in Seq(Nat) /\ Len(rest) = IF c + 1 <= m THEN m - (c + 1) + 1 ELSE 0
          /\ \A k \in 1 .. m - (c + 1) + 1 : rest[k] = log[(c + 1) + k - 1]
      BY <3>1, <3>2, c + 1 \in Int, m \in Int, SubSeqProperties DEF rest
    <3>4. m - (c + 1) + 1 = m - c /\ \A k \in 1 .. m - c : (c + 1) + k - 1 = c + k
      BY <3>1
    <3>. QED  BY <3>1, <3>3, <3>4
  <2>2. c \in Nat /\ m - c \in Nat /\ 1 \in 1 .. m - c /\ c \in 0 .. m
    BY <1>1, <1>7, <1>12
  <2>3. /\ sum[c + 1] = sum[c] + log[c + 1] /\ ~(sum[c + 1] <= n)
        /\ sum[c + 1] <= sum[m] /\ sum[m] \in Nat /\ sum[c] \in Nat /\ log[c + 1] \in Nat
    <3>1. (c + 1) - 1 = c /\ c + 1 \notin 1 .. c /\ m \in c + 1 .. m /\ c + 1 \in 0 .. m /\ m \in 0 .. m
      BY <2>1, <2>2, <1>1
    <3>. QED  BY <1>1, <1>3, <1>5, <1>6, <1>7, <2>1, <2>2, <3>1
  <2>4. part \in Nat /\ part <= log[c + 1]
    BY <1>8, <1>9, <2>3, SMTT(20)
  <2>5. rest # <<>>
    BY <2>1, <2>2
  <2>6. /\ left \in Seq(Nat) /\ Len(left) = m - c
        /\ \A k \in 1 .. m - c : left[k] = log[c + k] - (IF k = 1 THEN part ELSE 0)
    <3>1. rest \in [1 .. m - c -> Nat] /\ rest[1] = log[c + 1]
      BY <2>1, <2>2, LenProperties
    <3>2. rest[1] - part \in Nat
      BY <2>3, <2>4, <3>1
    <3>3. left \in [1 .. m - c -> Nat]
      BY <3>1, <3>2
    <3>4. left \in Seq(Nat) /\ Len(left) = m - c
      <4>1. \A f : \A k \in Nat : f \in [1 .. k -> Nat] => f \in Seq(Nat) /\ Len(f) = k
        OBVIOUS
      <4>. QED  BY <2>2, <3>3, <4>1, Zenon
    <3>5. \A k \in 1 .. m - c : log[c + k] \in Nat
      BY <1>1, <2>2
    <3>. QED  BY <2>1, <3>1, <3>3, <3>4, <3>5
  <2>. HIDE DEF left
  <2>7. PICK lsum : Sums(left, lsum) /\ Charges(left) = lsum[m - c]
    BY <2>6, ChargesAreSums
  <2>8. Continues(left, log, c, part)
    BY <2>2, <2>6, <1>1 DEF Continues, m
  <2>9. lsum[m - c] = sum[c + (m - c)] - sum[c] - (IF m - c = 0 THEN 0 ELSE part)
    BY <1>2, <2>2, <2>4, <2>6, <2>7, <2>8, ShiftedSums, SMTT(20)
  <2>10. Charges(left) = sum[m] - n
    <3>1. c + (m - c) = m /\ m - c # 0
      BY <1>1, <2>2
    <3>2. Charges(left) = sum[m] - sum[c] - part
      BY <2>7, <2>9, <3>1
    <3>. QED  BY <1>9, <2>3, <3>2
  <2>11. sum[m] - n = Less(sum[m], n)
    BY <2>3, <1>1 DEF Less
  <2>. QED  BY <1>2, <1>10, <2>5, <2>6, <2>10, <2>11
<1>. QED  BY <1>11, <1>12

-----------------------------------------------------------------------------
(***************************************************************************)
(* The budget.  What the tracker expects lies below its mark, so that what *)
(* an ack accounts for has been charged; with IInv and ArrivalsInv, which  *)
(* hold in the step's two states, this is inductive.                       *)
(***************************************************************************)
BudgetInv ==
    /\ in_flight_log \in Seq(Nat)
    /\ active \in BOOLEAN
    /\ tracker.expected <= tracker.highest_seq + 1
    /\ Charges(in_flight_log) = in_flight
    /\ in_flight <= path_seq - ack_cum.expected
    /\ forgone \in Nat
    /\ path_seq - ack_cum.expected <= in_flight + forgone

(* The budget b against what is sent and not accounted for, f forgone.     *)
BalancedBy(sent, accounted, b, f) ==
    /\ b <= sent - accounted
    /\ f \in Nat
    /\ sent - accounted <= b + f

(* An empty log charges nothing.                                           *)
LEMMA NoCharges == <<>> \in Seq(Nat) /\ Charges(<<>>) = 0
<1>1. <<>> \in Seq(Nat)
  OBVIOUS
<1>2. \E e : Sums(<<>>, e) /\ Charges(<<>>) = e[Len(<<>>)]
  BY <1>1, ChargesAreSums
<1>. QED  BY <1>1, <1>2 DEF Sums

(* Two releases take what one of their sum does.                           *)
LEMMA LessTwice ==
    ASSUME NEW b \in Nat, NEW d \in Nat, NEW l \in Nat, l <= d
    PROVE  Less(Less(b, d - l), l) = Less(b, d) /\ Less(b, d) \in Nat
<1>1. CASE b >= d
  BY <1>1 DEF Less
<1>2. CASE ~(b >= d)
  BY <1>2 DEF Less
<1>. QED  BY <1>1, <1>2

(* No ack accounts for more than was sent.                                 *)
LEMMA AckedWasSent ==
    ASSUME IInv, ArrivalsInv, tracker.expected <= tracker.highest_seq + 1
    PROVE  /\ path_seq \in Nat /\ ack_cum.expected \in Nat /\ tracker.expected \in Nat
           /\ ack_cum.expected <= tracker.expected
           /\ tracker.highest_seq \in Int /\ tracker.highest_seq + 1 <= path_seq
           /\ ack_cum.expected <= path_seq
<1>1. /\ path_seq \in Nat /\ ack_cum.expected \in Nat /\ tracker.expected \in Nat
      /\ ack_cum.expected <= tracker.expected /\ tracker.highest_seq \in Int
  BY DEF IInv, CountersTyped, FedExactly, ArrivalsInv, ArrivalsTyped
<1>2. tracker.highest_seq + 1 <= path_seq
  <2>1. CASE arrived = {}
    BY <2>1, <1>1 DEF ArrivalsInv, ArrivalsTyped, NoSeq
  <2>2. CASE arrived # {}
    <3>1. tracker.highest_seq \in 0 .. path_seq - 1
      BY <2>2 DEF ArrivalsInv, ArrivalsTyped
    <3>. QED  BY <3>1, <1>1
  <2>. QED  BY <2>1, <2>2
<1>. QED  BY <1>1, <1>2

(* The budget is a count.                                                  *)
LEMMA BudgetTyped ==
    ASSUME BudgetInv
    PROVE  in_flight \in Nat /\ Budget \in Nat /\ Log \in Seq(Nat) /\ Charges(Log) = Budget
<1>1. Charges(in_flight_log) \in Nat
  BY AppendCharges, 0 \in Nat DEF BudgetInv
<1>. QED  BY <1>1, NoCharges DEF BudgetInv, Budget, Log

(* Nothing was charged.                                                    *)
LEMMA BudgetInit == PathInit => BudgetInv
BY NoCharges DEF PathInit, BudgetInv, Totals, NoSeq

(* A batch that arrives keeps what is expected below the mark.             *)
LEMMA ArrivalBudget ==
    ASSUME IInv, ArrivalsInv, BudgetInv, NEW s \in batches, BatchArrives(s)
    PROVE  BudgetInv'
<1>1. /\ s \in Int /\ 0 <= s /\ tracker.highest_seq \in Int /\ tracker.expected \in Nat
      /\ tracker.expected <= tracker.highest_seq + 1 /\ tracker.highest_seq \in Int
  BY DEF ArrivalsInv, ArrivalsTyped, BudgetInv
<1>2. /\ tracker'.highest_seq = AtLeast(tracker.highest_seq, s)
      /\ tracker'.expected = tracker.expected + (IF tracker.highest_seq = NoSeq THEN 1
                                                 ELSE Less(s, tracker.highest_seq))
  BY DEF BatchArrives, record_batch
<1>3. tracker'.expected <= tracker'.highest_seq + 1
  <2>1. CASE tracker.highest_seq = NoSeq
    BY <2>1, <1>1, <1>2 DEF AtLeast, NoSeq
  <2>2. CASE tracker.highest_seq # NoSeq /\ s >= tracker.highest_seq
    BY <2>2, <1>1, <1>2 DEF AtLeast, Less
  <2>3. CASE tracker.highest_seq # NoSeq /\ ~(s >= tracker.highest_seq)
    BY <2>3, <1>1, <1>2 DEF AtLeast, Less
  <2>. QED  BY <2>1, <2>2, <2>3
<1>. QED  BY <1>3 DEF BatchArrives, BudgetInv

(* An ack releases what it newly accounts for, and no more; when it        *)
(* accounts for all that was sent nothing is left to fall short of.        *)
LEMMA AckBudget ==
    ASSUME IInv, IInv', ArrivalsInv, BudgetInv,
           NEW c \in counters, NEW repeated \in BOOLEAN, WindowAck(c, repeated)
    PROVE  BudgetInv'
<1> DEFINE dE == Less(c[1], ack_cum.expected)
           dR == Less(c[2], ack_cum.received)
           w  == credit(dE, dR)
<1>1. /\ in_flight \in Nat /\ Budget \in Nat /\ Log \in Seq(Nat) /\ Charges(Log) = Budget
      /\ tracker.expected <= tracker.highest_seq + 1
      /\ active \in BOOLEAN /\ ack_cum.expected \in Nat /\ path_seq \in Nat
      /\ ack_cum.expected <= path_seq
  BY BudgetTyped, AckedWasSent DEF BudgetInv
<1>2. /\ tracker' = tracker /\ path_seq' = path_seq /\ active' = TRUE
      /\ forgone' = IF ack_cum'.expected = path_seq THEN 0 ELSE forgone + in_flight - Budget
  BY DEF WindowAck
<1>3. /\ Budget <= in_flight /\ in_flight <= path_seq - ack_cum.expected
      /\ forgone \in Nat /\ path_seq - ack_cum.expected <= in_flight + forgone
  BY <1>1 DEF Budget, BudgetInv
<1>4. CASE c[2] = 0 \/ (dE = 0 /\ dR = 0)
  <2>1. in_flight' = Budget /\ in_flight_log' = Log /\ ack_cum' = ack_cum
    BY <1>4 DEF WindowAck
  <2>2. BalancedBy(path_seq, ack_cum.expected, Budget, forgone')
    BY <1>1, <1>2, <1>3, <2>1 DEF BalancedBy
  <2>. QED  BY <1>1, <1>2, <2>1, <2>2 DEF BudgetInv, BalancedBy
<1>5. CASE ~(c[2] = 0 \/ (dE = 0 /\ dR = 0))
  <2>1. /\ ack_cum' = counter_cursor(c[1], c[2])
        /\ in_flight' = Less(Less(Budget, dE - w.lost), w.lost)
        /\ in_flight_log' = release_log(release_log(Log, dE - w.lost), w.lost)
    BY <1>5 DEF WindowAck
  <2>2. c[1] \in Nat /\ c[2] \in Nat
    BY DEF IInv, CountersPast
  <2>3. /\ dE \in Nat /\ dR \in Nat
        /\ ack_cum'.expected = ack_cum.expected + dE
    BY <2>1, <2>2, CursorMoves DEF IInv, CountersTyped
  <2>. HIDE DEF dE, dR
  <2>4. w.lost \in Nat /\ w.lost <= dE
    BY <2>3, CreditLaw DEF IInv, CountersTyped
  <2>. HIDE DEF w
  <2>5. dE - w.lost \in Nat
    BY <2>3, <2>4
  <2>6. in_flight' = Less(Budget, dE) /\ in_flight' \in Nat
    <3>1. Less(Less(Budget, dE - w.lost), w.lost) = Less(Budget, dE) /\ Less(Budget, dE) \in Nat
      BY <1>1, <2>3, <2>4, LessTwice, ZenonT(40)
    <3>. QED  BY <2>1, <3>1
  <2>7. in_flight_log' \in Seq(Nat) /\ Charges(in_flight_log') = in_flight'
    <3>1. /\ release_log(Log, dE - w.lost) \in Seq(Nat)
          /\ Charges(release_log(Log, dE - w.lost)) = Less(Budget, dE - w.lost)
      BY <1>1, <2>5, ReleaseLog
    <3>. QED  BY <2>1, <2>4, <3>1, ReleaseLog
  <2>8. ack_cum.expected + dE <= path_seq
    <3>1. ack_cum'.expected <= tracker'.expected /\ tracker.expected \in Nat
      BY DEF IInv, FedExactly, CountersTyped
    <3>2. tracker.expected <= path_seq
      BY <1>1, AckedWasSent
    <3>. QED  BY <1>1, <1>2, <2>3, <3>1, <3>2
  <2>9. BalancedBy(path_seq, ack_cum'.expected, in_flight', forgone')
    <3>1. CASE Budget >= dE
      BY <1>1, <1>2, <1>3, <2>3, <2>6, <2>8, <3>1 DEF Less, BalancedBy
    <3>2. CASE ~(Budget >= dE)
      BY <1>1, <1>2, <1>3, <2>3, <2>6, <2>8, <3>2 DEF Less, BalancedBy
    <3>. QED  BY <3>1, <3>2
  <2>. QED  BY <1>1, <1>2, <2>7, <2>9 DEF BudgetInv, BalancedBy
<1>. QED  BY <1>4, <1>5

(* A sweep takes what the oldest charges sum to.                           *)
LEMMA ExpiryBudget ==
    ASSUME IInv, ArrivalsInv, BudgetInv, NEW j \in DOMAIN in_flight_log, ExpireInFlight(j)
    PROVE  BudgetInv'
<1> DEFINE n == Len(in_flight_log)
<1>1. in_flight_log \in Seq(Nat) /\ n \in Nat /\ j \in 1 .. n
  <2>1. in_flight_log \in Seq(Nat)
    BY DEF BudgetInv
  <2>. QED  BY <2>1, LenProperties
<1>2. PICK sum : Sums(in_flight_log, sum) /\ Charges(in_flight_log) = sum[n]
  BY <1>1, ChargesAreSums
<1>3. j \in 0 .. n /\ n \in j .. n
  BY <1>1
<1>4. Charges(SubSeq(in_flight_log, 1, j)) = sum[j]
  BY <1>1, <1>2, <1>3, FirstCharges
<1>5. /\ SubSeq(in_flight_log, j + 1, n) \in Seq(Nat)
      /\ Charges(SubSeq(in_flight_log, j + 1, n)) = sum[n] - sum[j]
  BY <1>1, <1>2, <1>3, PartCharges
<1>6. sum[j] <= sum[n] /\ sum[j] \in Nat /\ sum[n] \in Nat
  <2>1. sum[j] \in Nat /\ sum[n] \in Nat
    BY <1>1, <1>2, <1>3 DEF Sums
  <2>. QED  BY <1>1, <1>2, <1>3, <2>1, SumsRise
<1>7. in_flight' = sum[n] - sum[j] /\ in_flight' <= in_flight
  <2>1. in_flight' = Less(sum[n], sum[j]) /\ in_flight = sum[n]
    BY <1>2, <1>4 DEF ExpireInFlight, BudgetInv
  <2>. QED  BY <1>6, <2>1 DEF Less
<1>8. in_flight' <= path_seq - ack_cum.expected
  <2>1. /\ path_seq \in Nat /\ ack_cum.expected \in Nat /\ in_flight \in Nat /\ in_flight' \in Int
        /\ in_flight <= path_seq - ack_cum.expected
    <3>1. path_seq \in Nat /\ ack_cum.expected \in Nat /\ in_flight \in Nat
      BY BudgetTyped, AckedWasSent DEF BudgetInv
    <3>. QED  BY <1>6, <1>7, <3>1 DEF BudgetInv
  <2>. QED  BY <1>7, <2>1
<1>9. forgone' \in Nat /\ path_seq - ack_cum.expected <= in_flight' + forgone'
  <2>1. /\ path_seq \in Nat /\ ack_cum.expected \in Nat /\ in_flight = sum[n]
        /\ forgone \in Nat /\ path_seq - ack_cum.expected <= in_flight + forgone
    BY <1>2, AckedWasSent DEF BudgetInv
  <2>2. forgone' = forgone + sum[j]
    BY <1>4 DEF ExpireInFlight
  <2>. QED  BY <1>6, <1>7, <2>1, <2>2
<1>. QED  BY <1>5, <1>7, <1>8, <1>9 DEF ExpireInFlight, BudgetInv

(***************************************************************************)
(* Every step keeps the budget, and the two other invariants of PathLedger *)
(* with it.                                                                *)
(***************************************************************************)
LedgerInv == IInv /\ ArrivalsInv /\ BudgetInv

(* Every step keeps the budget of copies within what was sent.             *)
LEMMA BudgetStep ==
    ASSUME LedgerInv, IInv', [PathNext]_pathVars
    PROVE  BudgetInv'
<1>. USE DEF LedgerInv
<1>0. /\ in_flight_log \in Seq(Nat) /\ Charges(in_flight_log) = in_flight
      /\ path_seq \in Nat /\ ack_cum.expected \in Nat /\ in_flight \in Nat
      /\ ack_cum.expected <= path_seq
      /\ BalancedBy(path_seq, ack_cum.expected, in_flight, forgone)
  BY AckedWasSent, BudgetTyped DEF BudgetInv, BalancedBy
<1>1. CASE SendBatch
  <2>1. /\ in_flight_log' \in Seq(Nat)
        /\ Charges(in_flight_log') = in_flight'
    BY <1>0, <1>1, AppendCharges, 1 \in Nat DEF SendBatch, charge_in_flight
  <2>2. /\ in_flight' = in_flight + 1 /\ path_seq' = path_seq + 1
        /\ UNCHANGED <<ack_cum, forgone, active, tracker>>
    BY <1>1 DEF SendBatch, charge_in_flight, Leaves
  <2>3. BalancedBy(path_seq', ack_cum.expected, in_flight', forgone)
    BY <1>0, <2>2 DEF BalancedBy
  <2>. QED  BY <2>1, <2>2, <2>3 DEF BudgetInv, BalancedBy
<1>11. CASE SendUncharged
  <2>1. /\ path_seq' = path_seq + 1 /\ forgone' = forgone + 1
        /\ UNCHANGED <<ack_cum, in_flight, in_flight_log, active, tracker>>
    BY <1>11 DEF SendUncharged, Leaves
  <2>2. BalancedBy(path_seq', ack_cum.expected, in_flight, forgone')
    BY <1>0, <2>1 DEF BalancedBy
  <2>. QED  BY <2>1, <2>2 DEF BudgetInv, BalancedBy
<1>2. ASSUME NEW s \in batches, BatchArrives(s)
      PROVE  BudgetInv'
  BY <1>2, ArrivalBudget
<1>3. ASSUME NEW c \in counters, NEW repeated \in BOOLEAN, WindowAck(c, repeated)
      PROVE  BudgetInv'
  BY <1>3, AckBudget
<1>4. ASSUME NEW j \in DOMAIN in_flight_log, ExpireInFlight(j)
      PROVE  BudgetInv'
  BY <1>4, ExpiryBudget
<1>5. ASSUME HeardOf
      PROVE  BudgetInv'
  <2>1. /\ in_flight' = 0 /\ in_flight_log' = <<>> /\ active' = TRUE
        /\ forgone' = forgone + in_flight
    BY <1>5 DEF HeardOf, Budget, Log
  <2>2. UNCHANGED <<path_seq, tracker, ack_cum>>
    BY <1>5 DEF HeardOf
  <2>3. BalancedBy(path_seq, ack_cum.expected, 0, forgone')
    BY <1>0, <2>1 DEF BalancedBy
  <2>. QED  BY <2>1, <2>2, <2>3, NoCharges DEF BudgetInv, BalancedBy
<1>6. ASSUME PathDies
      PROVE  BudgetInv'
  BY <1>6 DEF PathDies, BudgetInv
<1>7. ASSUME UNCHANGED <<path_seq, tracker, active, in_flight, in_flight_log, ack_cum, forgone>>
      PROVE  BudgetInv'
  BY <1>7 DEF BudgetInv
<1>8. ASSUME NEW s \in batches, BatchLost(s)
      PROVE  BudgetInv'
  BY <1>7, <1>8 DEF BatchLost
<1>9. ASSUME NEW c \in counters, AckLost(c)
      PROVE  BudgetInv'
  BY <1>7, <1>9 DEF AckLost
<1>10. ASSUME UNCHANGED pathVars
       PROVE  BudgetInv'
  BY <1>7, <1>10 DEF pathVars
<1>. QED
  BY <1>1, <1>2, <1>3, <1>4, <1>5, <1>6, <1>8, <1>9, <1>10, <1>11 DEF PathNext

(* What is on the wire and above the mark is part of what is in flight.    *)
LEMMA BudgetCovers ==
    ASSUME LedgerInv
    PROVE  LedgerCloses
<1>. USE DEF LedgerInv
<1> DEFINE laterPart == {s \in batches : s > tracker.highest_seq}
           lo == tracker.highest_seq + 1
           hi == path_seq - 1
<1>1. /\ path_seq \in Nat /\ ack_cum.expected \in Nat /\ tracker.expected \in Nat
      /\ tracker.highest_seq \in Int /\ ack_cum.expected <= tracker.expected
      /\ tracker.expected <= tracker.highest_seq + 1
      /\ tracker.highest_seq + 1 <= path_seq
  BY AckedWasSent DEF BudgetInv
<1>2. laterPart \subseteq lo .. hi /\ lo \in Int /\ hi \in Int
  <2>1. batches \subseteq 0 .. path_seq - 1
    BY DEF ArrivalsInv, ArrivalsTyped
  <2>2. lo \in Int /\ hi \in Int
    BY <1>1
  <2>3. \A s \in laterPart : s \in lo .. hi
    BY <1>1, <2>1
  <2>. QED  BY <2>2, <2>3
<1>3. IsFiniteSet(lo .. hi) /\ Cardinality(lo .. hi) = IF lo > hi THEN 0 ELSE hi - lo + 1
  BY <1>2, FS_Interval
<1>4. Cardinality(laterPart) <= Cardinality(lo .. hi) /\ Cardinality(laterPart) \in Nat
  BY <1>2, <1>3, FS_Subset, FS_CardinalityType
<1>. HIDE DEF laterPart
<1>5. Cardinality(lo .. hi) = path_seq - (tracker.highest_seq + 1)
  BY <1>1, <1>3, SMTT(20)
<1>6. Cardinality(laterPart) <= path_seq - ack_cum.expected
  BY <1>1, <1>4, <1>5
<1>7. Cardinality(laterPart) <= in_flight + forgone
  <2>1. in_flight \in Nat /\ forgone \in Nat /\ path_seq - ack_cum.expected <= in_flight + forgone
    BY BudgetTyped DEF BudgetInv
  <2>. QED  BY <1>1, <1>4, <1>6, <2>1
<1>. QED  BY <1>7 DEF LedgerCloses, BudgetInv, laterPart

(***************************************************************************)
(* LedgerAlwaysCloses: in every behaviour the charge log accounts for the  *)
(* in-flight budget, which never exceeds what is sent and not accounted    *)
(* for, and falls short of it, and of what is on the wire, by no more than *)
(* the uncharged sends, sweeps and revivals since the accounts were last   *)
(* square: release_in_flight, expire_in_flight and on_window_ack neither   *)
(* leak a charge nor release one twice.                                    *)
(***************************************************************************)
THEOREM LedgerAlwaysCloses == PathSpec => []LedgerCloses
<1>1. PathInit => LedgerInv
  BY InitInv, ArrivalsInit, BudgetInit DEF LedgerInv
<1>2. LedgerInv /\ [PathNext]_pathVars => LedgerInv'
  BY StepInv, ArrivalsStep, BudgetStep DEF LedgerInv
<1>3. LedgerInv => LedgerCloses
  BY BudgetCovers
<1> QED
  BY <1>1, <1>2, <1>3, PTL DEF PathSpec

-----------------------------------------------------------------------------
(***************************************************************************)
(* The books of a reliable window, at the level of their data structures:  *)
(* first the bitmap, then the memo and the accounts, then the invariant.   *)
(***************************************************************************)
(***************************************************************************)
(* The bitmap.  A seq is a word and a bit of it.                           *)
(***************************************************************************)
Words == SUBSET (0 .. WordBits - 1)

Bitmaps == [base : Nat, floor : Nat, words : Seq(Words), len : Int]

(* The seq of bit k of the i-th word.                                      *)
SeqAt(b, i, k) == b.base + WordBits * (i - 1) + k

(* Quotient, remainder and multiples of a word size.                       *)
LEMMA QuotientRange ==
    ASSUME NEW w \in Nat \ {0}, NEW n \in Nat
    PROVE  n \div w \in Nat /\ n % w \in 0 .. w - 1
BY SMTT(20)

(* A number is its quotient and its remainder.                             *)
LEMMA QuotientAndRemainder ==
    ASSUME NEW w \in Nat \ {0}, NEW n \in Nat
    PROVE  n = w * (n \div w) + (n % w)
BY SMTT(20)

(* Of a multiple and less than a word more, they are these.                *)
LEMMA QuotientOf ==
    ASSUME NEW w \in Nat \ {0}, NEW q \in Nat, NEW k \in 0 .. w - 1
    PROVE  (w * q + k) \div w = q /\ (w * q + k) % w = k
<1>1. (w * q + k) \div w = q
  BY SMTT(20)
<1>2. (w * q + k) % w = k
  BY SMTT(20)
<1>. QED  BY <1>1, <1>2

(* Multiples are numbers.                                                  *)
LEMMA MultipleNat ==
    ASSUME NEW w \in Nat \ {0}, NEW q \in Nat
    PROVE  w * q \in Nat
BY SMTT(20)

(* Multiples lie a word or more apart.                                     *)
LEMMA MultiplesApart ==
    ASSUME NEW w \in Nat \ {0}, NEW q \in Nat, NEW r \in Nat, q < r
    PROVE  w * q + w <= w * r
BY SMTT(60)

(* The same of the word size of the bitmap.                                *)
LEMMA WordArithmetic ==
    /\ WordBits \in Nat \ {0}
    /\ \A n \in Nat : /\ n \div WordBits \in Nat /\ n % WordBits \in 0 .. WordBits - 1
                      /\ n = WordBits * (n \div WordBits) + (n % WordBits)
    /\ \A q \in Nat : WordBits * q \in Nat
    /\ \A q \in Nat, k \in 0 .. WordBits - 1 : /\ (WordBits * q + k) \div WordBits = q
                                               /\ (WordBits * q + k) % WordBits = k
    /\ \A q, r \in Nat : q < r => WordBits * q + WordBits <= WordBits * r
<1>1. WordBits \in Nat \ {0}
  BY BitsAssumption
<1>2. ASSUME NEW n \in Nat
      PROVE  /\ n \div WordBits \in Nat /\ n % WordBits \in 0 .. WordBits - 1
             /\ n = WordBits * (n \div WordBits) + (n % WordBits)
  BY <1>1, QuotientRange, QuotientAndRemainder, Zenon
<1>3. ASSUME NEW q \in Nat
      PROVE  WordBits * q \in Nat
  BY <1>1, MultipleNat, Zenon
<1>4. ASSUME NEW q \in Nat, NEW k \in 0 .. WordBits - 1
      PROVE  (WordBits * q + k) \div WordBits = q /\ (WordBits * q + k) % WordBits = k
  BY <1>1, QuotientOf, Zenon
<1>5. ASSUME NEW q \in Nat, NEW r \in Nat, q < r
      PROVE  WordBits * q + WordBits <= WordBits * r
  BY <1>1, <1>5, MultiplesApart, Zenon
<1>. QED  BY <1>1, <1>2, <1>3, <1>4, <1>5, Zenon

(* Whatever the bitmap's length, a word and a bit name one seq.            *)
LEMMA SeqOfBit ==
    ASSUME NEW b \in Bitmaps, NEW i \in Nat \ {0}, NEW k \in 0 .. WordBits - 1
    PROVE  /\ SeqAt(b, i, k) \in Nat /\ b.base <= SeqAt(b, i, k)
           /\ WordOf(b, SeqAt(b, i, k)) = i /\ BitOf(b, SeqAt(b, i, k)) = k
<1> DEFINE q == i - 1
           m == WordBits * q
<1>1. b.base \in Nat /\ q \in Nat /\ WordBits \in Nat \ {0}
  BY WordArithmetic DEF Bitmaps
<1>2. m \in Nat /\ (m + k) \div WordBits = q /\ (m + k) % WordBits = k
  BY <1>1, WordArithmetic
<1>3. SeqAt(b, i, k) = b.base + m + k
  BY DEF SeqAt
<1>. HIDE DEF m
<1>4. SeqAt(b, i, k) - b.base = m + k
  BY <1>1, <1>2, <1>3
<1>5. WordOf(b, SeqAt(b, i, k)) = 1 + q /\ BitOf(b, SeqAt(b, i, k)) = k
  BY <1>2, <1>4 DEF WordOf, BitOf
<1>. QED  BY <1>1, <1>2, <1>3, <1>5

(* Each seq of the bitmap is one bit of one word, and the other way round. *)
LEMMA SeqsAndBits ==
    ASSUME NEW b \in Bitmaps
    PROVE  /\ Len(b.words) \in Nat /\ bits_end(b) \in Nat /\ b.base \in Nat /\ b.base <= bits_end(b)
           /\ \A i \in 1 .. Len(b.words), k \in 0 .. WordBits - 1 :
                 /\ SeqAt(b, i, k) \in Nat
                 /\ b.base <= SeqAt(b, i, k) /\ SeqAt(b, i, k) < bits_end(b)
                 /\ WordOf(b, SeqAt(b, i, k)) = i /\ BitOf(b, SeqAt(b, i, k)) = k
           /\ \A s \in Nat : b.base <= s =>
                 /\ WordOf(b, s) \in Nat \ {0} /\ BitOf(b, s) \in 0 .. WordBits - 1
                 /\ s = SeqAt(b, WordOf(b, s), BitOf(b, s))
                 /\ s < bits_end(b) <=> WordOf(b, s) <= Len(b.words)
<1>1. /\ Len(b.words) \in Nat /\ b.base \in Nat /\ WordBits \in Nat \ {0}
      /\ bits_end(b) = b.base + WordBits * Len(b.words)
  BY WordArithmetic DEF Bitmaps, bits_end
<1>2. WordBits * Len(b.words) \in Nat
  BY <1>1, WordArithmetic
<1>3. ASSUME NEW i \in 1 .. Len(b.words), NEW k \in 0 .. WordBits - 1
      PROVE  /\ SeqAt(b, i, k) \in Nat
             /\ b.base <= SeqAt(b, i, k) /\ SeqAt(b, i, k) < bits_end(b)
             /\ WordOf(b, SeqAt(b, i, k)) = i /\ BitOf(b, SeqAt(b, i, k)) = k
  <2>1. i - 1 \in Nat /\ i - 1 < Len(b.words)
    BY <1>1
  <2> DEFINE q == i - 1
             m == WordBits * q
             e == WordBits * Len(b.words)
  <2>2. m \in Nat /\ m + WordBits <= e
    BY <1>1, <2>1, WordArithmetic
  <2>3. (m + k) \div WordBits = q /\ (m + k) % WordBits = k
    BY <2>1, WordArithmetic
  <2>4. SeqAt(b, i, k) = b.base + m + k
    BY DEF SeqAt
  <2>. HIDE DEF m, e
  <2>5. e \in Nat /\ bits_end(b) = b.base + e
    BY <1>1, <1>2 DEF e
  <2>6. SeqAt(b, i, k) - b.base = m + k
    BY <1>1, <2>2, <2>4
  <2>7. WordOf(b, SeqAt(b, i, k)) = 1 + q /\ BitOf(b, SeqAt(b, i, k)) = k
    BY <2>3, <2>6 DEF WordOf, BitOf
  <2>. QED  BY <1>1, <2>1, <2>2, <2>4, <2>5, <2>7, SMTT(20)
<1>4. ASSUME NEW s \in Nat, b.base <= s
      PROVE  /\ WordOf(b, s) \in Nat \ {0} /\ BitOf(b, s) \in 0 .. WordBits - 1
             /\ s = SeqAt(b, WordOf(b, s), BitOf(b, s))
             /\ s < bits_end(b) <=> WordOf(b, s) <= Len(b.words)
  <2> DEFINE d == s - b.base
             q == d \div WordBits
             m == WordBits * q
             e == WordBits * Len(b.words)
             k == d % WordBits
  <2>1. d \in Nat /\ s = b.base + d
    BY <1>1, <1>4
  <2>. HIDE DEF d
  <2>2. q \in Nat /\ k \in 0 .. WordBits - 1 /\ d = m + k
    BY <2>1, WordArithmetic
  <2>3. WordOf(b, s) = 1 + q /\ BitOf(b, s) = k
    BY DEF WordOf, BitOf, d
  <2>. HIDE DEF q, k
  <2>4. m \in Nat /\ (q < Len(b.words) => m + WordBits <= e)
        /\ (Len(b.words) < q => e + WordBits <= m)
        /\ (Len(b.words) = q => e = m)
    BY <1>1, <2>2, WordArithmetic
  <2>5. SeqAt(b, WordOf(b, s), BitOf(b, s)) = b.base + WordBits * ((1 + q) - 1) + k /\ (1 + q) - 1 = q
    BY <2>2, <2>3 DEF SeqAt
  <2>6. SeqAt(b, WordOf(b, s), BitOf(b, s)) = b.base + m + k
    BY <2>5
  <2>7. e \in Nat /\ bits_end(b) = b.base + e
    BY <1>1, <1>2
  <2>. HIDE DEF m, e
  <2>8. s = b.base + m + k
    BY <1>1, <2>1, <2>2, <2>4
  <2>9. s < bits_end(b) <=> q < Len(b.words)
    <3>1. /\ m \in Int /\ e \in Int /\ k \in Int /\ 0 <= k /\ k < WordBits /\ b.base \in Int
          /\ WordBits \in Int /\ q \in Int /\ Len(b.words) \in Int /\ s \in Int
      BY <1>1, <2>2, <2>4, <2>7
    <3>2. CASE q < Len(b.words)
      BY <2>4, <2>7, <2>8, <3>1, <3>2
    <3>3. CASE ~(q < Len(b.words))
      <4>1. e <= m
        <5>1. q = Len(b.words) \/ Len(b.words) < q
          BY <3>1, <3>3
        <5>. QED  BY <2>4, <3>1, <5>1
      <4>. QED  BY <2>7, <2>8, <3>1, <3>3, <4>1
    <3>. QED  BY <3>2, <3>3
  <2>. QED  BY <1>1, <2>2, <2>3, <2>6, <2>8, <2>9
<1>. QED  BY <1>1, <1>2, <1>3, <1>4, SMTT(30)

(* The members are the bits that are set.                                  *)
LEMMA MembersAreBits ==
    ASSUME NEW b \in Bitmaps
    PROVE  /\ BitMembers(b) \in SUBSET Nat
           /\ \A s \in Int : contains(b, s) <=> s \in BitMembers(b)
           /\ \A s \in BitMembers(b) :
                 /\ WordOf(b, s) \in 1 .. Len(b.words)
                 /\ BitOf(b, s) \in b.words[WordOf(b, s)] /\ BitOf(b, s) \in 0 .. WordBits - 1
                 /\ s = SeqAt(b, WordOf(b, s), BitOf(b, s))
                 /\ b.base <= s /\ s < bits_end(b)
           /\ \A i \in 1 .. Len(b.words), k \in 0 .. WordBits - 1 :
                 SeqAt(b, i, k) \in BitMembers(b) <=> k \in b.words[i]
           /\ IsFiniteSet(BitMembers(b))
<1>1. /\ Len(b.words) \in Nat /\ bits_end(b) \in Nat /\ b.base \in Nat
      /\ \A i \in 1 .. Len(b.words), k \in 0 .. WordBits - 1 :
            /\ SeqAt(b, i, k) \in Nat
            /\ b.base <= SeqAt(b, i, k) /\ SeqAt(b, i, k) < bits_end(b)
            /\ WordOf(b, SeqAt(b, i, k)) = i /\ BitOf(b, SeqAt(b, i, k)) = k
  BY SeqsAndBits
<1>2. ASSUME NEW s \in Nat, b.base <= s, s < bits_end(b)
      PROVE  /\ WordOf(b, s) \in 1 .. Len(b.words) /\ BitOf(b, s) \in 0 .. WordBits - 1
             /\ s = SeqAt(b, WordOf(b, s), BitOf(b, s))
  <2>1. /\ WordOf(b, s) \in Nat \ {0} /\ BitOf(b, s) \in 0 .. WordBits - 1
        /\ s = SeqAt(b, WordOf(b, s), BitOf(b, s))
        /\ WordOf(b, s) <= Len(b.words)
    BY <1>2, SeqsAndBits
  <2>. QED  BY <1>1, <2>1
<1>3. \A s \in Int : s \in b.base .. bits_end(b) - 1 <=> s \in Nat /\ b.base <= s /\ s < bits_end(b)
  BY <1>1
<1>4. BitMembers(b) \in SUBSET Nat /\ \A s \in Int : contains(b, s) <=> s \in BitMembers(b)
  BY <1>3 DEF BitMembers, contains
<1>5. ASSUME NEW s \in BitMembers(b)
      PROVE  /\ s \in Nat /\ b.base <= s /\ s < bits_end(b) /\ BitOf(b, s) \in b.words[WordOf(b, s)]
  BY <1>3, <1>4 DEF BitMembers, contains
<1>6. ASSUME NEW i \in 1 .. Len(b.words), NEW k \in 0 .. WordBits - 1
      PROVE  SeqAt(b, i, k) \in BitMembers(b) <=> k \in b.words[i]
  <2>1. SeqAt(b, i, k) \in b.base .. bits_end(b) - 1
    BY <1>1, <1>3
  <2>. QED  BY <1>1, <2>1 DEF BitMembers, contains
<1>7. IsFiniteSet(BitMembers(b))
  <2>1. IsFiniteSet(b.base .. bits_end(b) - 1)
    BY <1>1, FS_Interval, SMTT(20)
  <2>. QED  BY <2>1, FS_Subset DEF BitMembers
<1>. QED  BY <1>2, <1>4, <1>5, <1>6, <1>7

(* Counting bits of a word counts the members they stand for.              *)
LEMMA WordCounts ==
    ASSUME NEW b \in Bitmaps, NEW i \in 1 .. Len(b.words), NEW K \in Words
    PROVE  /\ IsFiniteSet(b.words[i] \cap K)
           /\ Cardinality(b.words[i] \cap K) \in Nat
           /\ Cardinality(b.words[i] \cap K)
              = Cardinality({s \in BitMembers(b) : WordOf(b, s) = i /\ BitOf(b, s) \in K})
<1> DEFINE B == b.words[i] \cap K
           M == {s \in BitMembers(b) : WordOf(b, s) = i /\ BitOf(b, s) \in K}
           f == [k \in B |-> SeqAt(b, i, k)]
<1>1. IsFiniteSet(0 .. WordBits - 1) /\ B \subseteq 0 .. WordBits - 1
  <2>1. WordBits - 1 \in Int
    BY WordArithmetic
  <2>2. K \subseteq 0 .. WordBits - 1
    BY DEF Words
  <2>3. IsFiniteSet(0 .. WordBits - 1)
    BY <2>1, FS_Interval
  <2>. QED  BY <2>2, <2>3
<1>2. IsFiniteSet(B) /\ Cardinality(B) \in Nat
  BY <1>1, FS_Subset, FS_CardinalityType
<1>3. \A k \in B : f[k] \in M /\ BitOf(b, f[k]) = k
  <2>1. \A k \in B : k \in 0 .. WordBits - 1 /\ k \in b.words[i] /\ k \in K
    BY <1>1
  <2>2. \A k \in B : /\ WordOf(b, f[k]) = i /\ BitOf(b, f[k]) = k
                     /\ f[k] \in BitMembers(b)
    BY <2>1, SeqsAndBits, MembersAreBits
  <2>. QED  BY <2>1, <2>2
<1>4. \A s \in M : BitOf(b, s) \in B /\ s = f[BitOf(b, s)]
  BY MembersAreBits
<1>. HIDE DEF M
<1>5. f \in Bijection(B, M)
  <2>1. f \in [B -> M] /\ \A j, k \in B : f[j] = f[k] => j = k
    BY <1>3
  <2>2. \A s \in M : \E k \in B : f[k] = s
    BY <1>4
  <2>. HIDE DEF f, B
  <2>3. f \in Injection(B, M)
    BY <2>1 DEF Injection, IsInjective
  <2>4. f \in Surjection(B, M)
    BY <2>1, <2>2 DEF Surjection
  <2>. QED  BY <2>3, <2>4 DEF Bijection
<1>. HIDE DEF B, f
<1>6. Cardinality(B) = Cardinality(M)
  BY <1>2, <1>5, FS_Bijection DEF ExistsBijection
<1>. QED  BY <1>2, <1>6 DEF B, M

(* The members, by word and bit.                                           *)
LEMMA MemberBy ==
    ASSUME NEW b \in Bitmaps, NEW s \in Int
    PROVE  s \in BitMembers(b) <=> /\ s \in Nat /\ b.base <= s
                                   /\ WordOf(b, s) <= Len(b.words)
                                   /\ BitOf(b, s) \in b.words[WordOf(b, s)]
<1>1. /\ s \in BitMembers(b) => s \in Nat /\ b.base <= s /\ s < bits_end(b)
      /\ s \in BitMembers(b) <=> contains(b, s)
  BY MembersAreBits
<1>2. b.base <= s /\ s \in Nat => (s < bits_end(b) <=> WordOf(b, s) <= Len(b.words))
  BY SeqsAndBits
<1>3. b.base \in Nat /\ bits_end(b) \in Nat
  BY SeqsAndBits
<1>4. s \in b.base .. bits_end(b) - 1 <=> s \in Nat /\ b.base <= s /\ s < bits_end(b)
  BY <1>3
<1>. QED  BY <1>1, <1>2, <1>4 DEF contains

(* Seqs are in the order of their words, and within one of their bits.     *)
LEMMA BitOrder ==
    ASSUME NEW b \in Bitmaps, NEW s \in Nat, NEW t \in Nat, b.base <= s, b.base <= t
    PROVE  s <= t <=> \/ WordOf(b, s) < WordOf(b, t)
                      \/ WordOf(b, s) = WordOf(b, t) /\ BitOf(b, s) <= BitOf(b, t)
<1> DEFINE i == WordOf(b, s) - 1
           j == WordOf(b, t) - 1
           m == WordBits * i
           n == WordBits * j
           k == BitOf(b, s)
           l == BitOf(b, t)
<1>1. /\ WordOf(b, s) \in Nat \ {0} /\ k \in 0 .. WordBits - 1
      /\ WordOf(b, t) \in Nat \ {0} /\ l \in 0 .. WordBits - 1
      /\ s = SeqAt(b, WordOf(b, s), BitOf(b, s)) /\ t = SeqAt(b, WordOf(b, t), BitOf(b, t))
  BY SeqsAndBits
<1>2. s = b.base + m + k /\ t = b.base + n + l
  BY <1>1 DEF SeqAt
<1>3. i \in Nat /\ j \in Nat /\ WordBits \in Nat \ {0} /\ b.base \in Nat
  <2>1. b.base \in Nat /\ WordBits \in Nat \ {0}
    BY WordArithmetic DEF Bitmaps
  <2>. QED  BY <1>1, <2>1
<1>4. /\ m \in Nat /\ n \in Nat
      /\ i < j => m + WordBits <= n
      /\ j < i => n + WordBits <= m
      /\ i = j => m = n
  BY <1>3, WordArithmetic
<1>5. WordOf(b, s) = i + 1 /\ WordOf(b, t) = j + 1
  BY <1>1
<1>. HIDE DEF i, j, k, l, m, n
<1>6. CASE i < j
  BY <1>1, <1>2, <1>3, <1>4, <1>5, <1>6
<1>7. CASE j < i
  BY <1>1, <1>2, <1>3, <1>4, <1>5, <1>7
<1>8. CASE i = j
  BY <1>1, <1>2, <1>3, <1>4, <1>5, <1>8 DEF k, l
<1>9. i < j \/ j < i \/ i = j
  BY <1>3
<1>. QED  BY <1>6, <1>7, <1>8, <1>9 DEF k, l

(* Two disjoint parts.                                                     *)
LEMMA CountParts ==
    ASSUME NEW A, NEW B, IsFiniteSet(A), IsFiniteSet(B), A \cap B = {}
    PROVE  /\ IsFiniteSet(A \cup B)
           /\ Cardinality(A) \in Nat /\ Cardinality(B) \in Nat
           /\ Cardinality(A \cup B) = Cardinality(A) + Cardinality(B)
<1>1. /\ IsFiniteSet(A \cup B)
      /\ Cardinality(A \cup B) = Cardinality(A) + Cardinality(B) - Cardinality(A \cap B)
  BY FS_Union
<1>2. Cardinality(A \cap B) = 0
  BY FS_EmptySet
<1>3. Cardinality(A) \in Nat /\ Cardinality(B) \in Nat
  BY FS_CardinalityType
<1>. QED  BY <1>1, <1>2, <1>3

-----------------------------------------------------------------------------
(***************************************************************************)
(* The sum of the counts of some words, as the operations write it, and    *)
(* the function it is defined by.                                          *)
(***************************************************************************)
WordSum(b, S) == MapThenSumSet(LAMBDA i : Cardinality(b.words[i]), S)

SomeOf(s) == CHOOSE x \in s : TRUE

SumBy(f, b, S) ==
    f = [s \in SUBSET S |-> IF s = {} THEN 0
                            ELSE Cardinality(b.words[SomeOf(s)]) + f[s \ {SomeOf(s)}]]

InWords(b, S) == {s \in BitMembers(b) : WordOf(b, s) \in S}

(* The members of one more word.                                           *)
LEMMA OneMoreWord ==
    ASSUME NEW b \in Bitmaps, NEW s \in SUBSET (1 .. Len(b.words)), NEW x \in s
    PROVE  Cardinality(InWords(b, s)) = Cardinality(b.words[x]) + Cardinality(InWords(b, s \ {x}))
<1> DEFINE K == 0 .. WordBits - 1
           A == {q \in BitMembers(b) : WordOf(b, q) = x /\ BitOf(b, q) \in K}
           B == InWords(b, s \ {x})
<1>1. x \in 1 .. Len(b.words) /\ b.words[x] \in Words /\ K \in Words
  BY DEF Bitmaps, Words
<1>2. b.words[x] \cap K = b.words[x]
  BY <1>1 DEF Words
<1>3. Cardinality(b.words[x]) = Cardinality(A)
  <2>1. Cardinality(b.words[x] \cap K) = Cardinality(A)
    BY <1>1, WordCounts
  <2>. QED  BY <1>2, <2>1
<1>4. InWords(b, s) = A \cup B /\ A \cap B = {}
  <2>1. \A q \in BitMembers(b) : BitOf(b, q) \in K
    BY MembersAreBits
  <2>. QED  BY <2>1 DEF InWords
<1>5. IsFiniteSet(A) /\ IsFiniteSet(B)
  <2>1. IsFiniteSet(BitMembers(b)) /\ A \in SUBSET BitMembers(b) /\ B \in SUBSET BitMembers(b)
    BY MembersAreBits DEF InWords
  <2>. HIDE DEF A, B
  <2>. QED  BY <2>1, FS_Subset
<1>. HIDE DEF A, B
<1>. QED  BY <1>3, <1>4, <1>5, CountParts DEF B

(* The sum counts the members of the words.                                *)
LEMMA WordSumCounts ==
    ASSUME NEW b \in Bitmaps, NEW S \in SUBSET (1 .. Len(b.words))
    PROVE  WordSum(b, S) = Cardinality(InWords(b, S))
<1> DEFINE f == CHOOSE g : SumBy(g, b, S)
           h == [s \in SUBSET S |-> Cardinality(InWords(b, s))]
           n == Cardinality(S)
<1>1. WordSum(b, S) = f[S]
  BY DEF WordSum, MapThenSumSet, MapThenFoldSet, SumBy, SomeOf
<1>2. Len(b.words) \in Nat /\ IsFiniteSet(S) /\ n \in Nat
  <2>1. Len(b.words) \in Nat
    BY SeqsAndBits
  <2>2. IsFiniteSet(1 .. Len(b.words))
    BY <2>1, FS_Interval
  <2>. QED  BY <2>1, <2>2, FS_Subset, FS_CardinalityType
<1>3. Cardinality(InWords(b, {})) = 0
  <2>1. InWords(b, {}) = {}
    BY DEF InWords
  <2>. QED  BY <2>1, FS_EmptySet
<1>4. ASSUME NEW s \in SUBSET S, s # {}
      PROVE  /\ SomeOf(s) \in s /\ s \ {SomeOf(s)} \in SUBSET S
             /\ Cardinality(InWords(b, s))
                = Cardinality(b.words[SomeOf(s)]) + Cardinality(InWords(b, s \ {SomeOf(s)}))
  <2>1. SomeOf(s) \in s
    BY <1>4 DEF SomeOf
  <2>. QED  BY <2>1, OneMoreWord
<1>5. SumBy(h, b, S)
  BY <1>3, <1>4 DEF SumBy
<1>6. SumBy(f, b, S)
  BY <1>5
<1>. HIDE DEF f, h
<1> DEFINE T == {k \in 0 .. n : \A s \in SUBSET S : Cardinality(s) = k => f[s] = h[s]}
<1>7. 0 \in T
  <2>1. 0 \in 0 .. n
    BY <1>2
  <2>2. ASSUME NEW s \in SUBSET S, Cardinality(s) = 0
        PROVE  f[s] = h[s]
    <3>1. IsFiniteSet(s)
      BY <1>2, FS_Subset
    <3>2. s = {}
      BY <2>2, <3>1, FS_EmptySet
    <3>. QED  BY <1>5, <1>6, <3>2 DEF SumBy
  <2>. QED  BY <2>1, <2>2
<1>8. ASSUME NEW k \in 0 .. n - 1, k \in T
      PROVE  k + 1 \in T
  <2>1. k \in Nat /\ k + 1 \in 0 .. n /\ k + 1 # 0 /\ (k + 1) - 1 = k
    BY <1>2
  <2>2. ASSUME NEW s \in SUBSET S, Cardinality(s) = k + 1
        PROVE  f[s] = h[s]
    <3>1. IsFiniteSet(s)
      BY <1>2, FS_Subset
    <3>2. s # {}
      BY <2>1, <2>2, FS_EmptySet
    <3>3. SomeOf(s) \in s /\ s \ {SomeOf(s)} \in SUBSET S
      BY <1>4, <3>2
    <3>4. Cardinality(s \ {SomeOf(s)}) = k
      <4>1. Cardinality(s \ {SomeOf(s)}) = Cardinality(s) - 1
        BY <3>1, <3>3, FS_RemoveElement
      <4>. QED  BY <2>1, <2>2, <4>1
    <3>5. f[s \ {SomeOf(s)}] = h[s \ {SomeOf(s)}]
      BY <1>8, <3>3, <3>4
    <3>6. /\ f[s] = Cardinality(b.words[SomeOf(s)]) + f[s \ {SomeOf(s)}]
          /\ h[s] = Cardinality(b.words[SomeOf(s)]) + h[s \ {SomeOf(s)}]
      BY <1>5, <1>6, <3>2 DEF SumBy
    <3>. QED  BY <3>5, <3>6
  <2>. QED  BY <2>1, <2>2
<1>. HIDE DEF T
<1>9. n \in T
  <2>1. 0 .. n \subseteq T
    BY <1>2, <1>7, <1>8, IntervalInduction
  <2>2. n \in 0 .. n
    BY <1>2
  <2>. QED  BY <2>1, <2>2
<1>10. f[S] = h[S]
  BY <1>9 DEF T
<1>. QED  BY <1>1, <1>10 DEF h

(* The greater and the lesser of two.                                      *)
LEMMA OfTwo ==
    ASSUME NEW a \in Int, NEW c \in Int
    PROVE  /\ Max({a, c}) = IF a >= c THEN a ELSE c
           /\ Min({a, c}) = IF a <= c THEN a ELSE c
<1>1. Max({a, c}) = IF a >= c THEN a ELSE c
  BY DEF Max
<1>2. Min({a, c}) = IF a <= c THEN a ELSE c
  BY DEF Min
<1>. QED  BY <1>1, <1>2

(* The members in an interval.                                             *)
Between(b, from, to) == {s \in BitMembers(b) : from <= s /\ s < to}

(* count_in counts them, word by word.                                     *)
LEMMA CountsBetween ==
    ASSUME NEW b \in Bitmaps, NEW from \in Nat, NEW to \in Nat
    PROVE  /\ count_in(b, from, to) = Cardinality(Between(b, from, to))
           /\ IsFiniteSet(Between(b, from, to)) /\ Cardinality(Between(b, from, to)) \in Nat
<1> DEFINE lo == IF from >= b.base THEN from ELSE b.base
           hi == IF to <= bits_end(b) THEN to ELSE bits_end(b)
           last == hi - 1
           wa == WordOf(b, lo)
           wb == WordOf(b, last)
           head == {k \in 0 .. WordBits - 1 : k >= BitOf(b, lo)}
           tail == {k \in 0 .. WordBits - 1 : k <= BitOf(b, last)}
           M == Between(b, from, to)
<1>1. b.base \in Nat /\ bits_end(b) \in Nat
  BY SeqsAndBits
<1>2. Max({from, b.base}) = lo /\ Min({to, bits_end(b)}) = hi
  BY <1>1, OfTwo
<1>3. lo \in Nat /\ hi \in Nat /\ b.base <= lo /\ hi <= bits_end(b)
  BY <1>1
<1>4. count_in(b, from, to) =
         IF lo >= hi THEN 0
         ELSE IF wa = wb THEN Cardinality(b.words[wa] \cap head \cap tail)
         ELSE Cardinality(b.words[wa] \cap head) + Cardinality(b.words[wb] \cap tail)
              + WordSum(b, wa + 1 .. wb - 1)
  <2> DEFINE F(l, h) ==
               IF l >= h THEN 0
               ELSE IF WordOf(b, l) = WordOf(b, h - 1)
               THEN Cardinality(b.words[WordOf(b, l)]
                                \cap {k \in 0 .. WordBits - 1 : k >= BitOf(b, l)}
                                \cap {k \in 0 .. WordBits - 1 : k <= BitOf(b, h - 1)})
               ELSE Cardinality(b.words[WordOf(b, l)] \cap {k \in 0 .. WordBits - 1 : k >= BitOf(b, l)})
                    + Cardinality(b.words[WordOf(b, h - 1)]
                                  \cap {k \in 0 .. WordBits - 1 : k <= BitOf(b, h - 1)})
                    + WordSum(b, WordOf(b, l) + 1 .. WordOf(b, h - 1) - 1)
  <2>1. count_in(b, from, to) = F(Max({from, b.base}), Min({to, bits_end(b)}))
    BY DEF count_in, WordSum, MapThenSumSet, MapThenFoldSet
  <2>2. F(Max({from, b.base}), Min({to, bits_end(b)})) = F(lo, hi)
    <3>. HIDE DEF F, lo, hi
    <3>. QED  BY <1>2
  <2>. QED  BY <2>1, <2>2
<1>5. \A s \in BitMembers(b) : s \in Nat /\ (s \in M <=> lo <= s /\ s < hi)
  BY <1>1, MembersAreBits DEF Between
<1>6. IsFiniteSet(BitMembers(b)) /\ M \in SUBSET BitMembers(b)
  BY MembersAreBits DEF Between
<1>. HIDE DEF lo, hi
<1>7. IsFiniteSet(M) /\ Cardinality(M) \in Nat
  BY <1>6, FS_Subset, FS_CardinalityType
<1>8. CASE lo >= hi
  <2>1. M = {}
    BY <1>3, <1>5, <1>6, <1>8
  <2>. QED  BY <1>4, <1>7, <1>8, <2>1, FS_EmptySet
<1>9. CASE ~(lo >= hi)
  <2>1. last \in Nat /\ b.base <= last /\ last < bits_end(b) /\ lo < bits_end(b) /\ lo <= last
    BY <1>1, <1>3, <1>9
  <2>. HIDE DEF last
  <2>2. /\ wa \in 1 .. Len(b.words) /\ wb \in 1 .. Len(b.words) /\ Len(b.words) \in Nat
        /\ BitOf(b, lo) \in 0 .. WordBits - 1 /\ BitOf(b, last) \in 0 .. WordBits - 1
    BY <1>3, <2>1, SeqsAndBits, SMTT(20)
  <2>3. ASSUME NEW s \in BitMembers(b)
        PROVE  /\ WordOf(b, s) \in 1 .. Len(b.words) /\ BitOf(b, s) \in 0 .. WordBits - 1
               /\ s \in M <=> lo <= s /\ s <= last
               /\ lo <= s <=> wa < WordOf(b, s) \/ (wa = WordOf(b, s) /\ BitOf(b, s) \in head)
               /\ s <= last <=> WordOf(b, s) < wb \/ (WordOf(b, s) = wb /\ BitOf(b, s) \in tail)
    <3>1. s \in Nat /\ b.base <= s /\ WordOf(b, s) \in 1 .. Len(b.words) /\ BitOf(b, s) \in 0 .. WordBits - 1
      BY MembersAreBits
    <3>2. s \in M <=> lo <= s /\ s <= last
      BY <1>3, <1>5, <3>1 DEF last
    <3>3. lo <= s <=> wa < WordOf(b, s) \/ (wa = WordOf(b, s) /\ BitOf(b, lo) <= BitOf(b, s))
      <4>1. lo \in Nat /\ b.base <= lo /\ s \in Nat /\ b.base <= s
        BY <1>3, <3>1
      <4>. QED  BY <4>1, BitOrder, ZenonT(30)
    <3>4. s <= last <=> WordOf(b, s) < wb \/ (WordOf(b, s) = wb /\ BitOf(b, s) <= BitOf(b, last))
      <4>1. last \in Nat /\ b.base <= last /\ s \in Nat /\ b.base <= s
        BY <2>1, <3>1
      <4>. QED  BY <4>1, BitOrder, ZenonT(30)
    <3>5. /\ BitOf(b, s) \in head <=> BitOf(b, lo) <= BitOf(b, s)
          /\ BitOf(b, s) \in tail <=> BitOf(b, s) <= BitOf(b, last)
      BY <2>2, <3>1
    <3>. QED  BY <3>1, <3>2, <3>3, <3>4, <3>5
  <2>4. head \in Words /\ tail \in Words /\ head \cap tail \in Words
    BY DEF Words
  <2>5. wa < wb \/ wa = wb
    <3>1. lo \in Nat /\ last \in Nat
      BY <1>3, <2>1
    <3>. QED  BY <1>3, <2>1, <2>2, <3>1, BitOrder
  <2> DEFINE In(i, K) == {s \in BitMembers(b) : WordOf(b, s) = i /\ BitOf(b, s) \in K}
  <2>6. \A i \in 1 .. Len(b.words), K \in Words : Cardinality(b.words[i] \cap K) = Cardinality(In(i, K))
    BY WordCounts
  <2>. HIDE DEF wa, wb, head, tail, M
  <2>7. CASE wa = wb
    <3>1. M = In(wa, head \cap tail)
      <4>1. \A s \in BitMembers(b) : s \in M <=> WordOf(b, s) = wa /\ BitOf(b, s) \in head \cap tail
        BY <2>2, <2>3, <2>7
      <4>. QED  BY <1>6, <4>1
    <3>2. b.words[wa] \cap head \cap tail = b.words[wa] \cap (head \cap tail)
      OBVIOUS
    <3>3. count_in(b, from, to) = Cardinality(b.words[wa] \cap (head \cap tail))
      BY <1>4, <1>9, <2>7, <3>2
    <3>4. Cardinality(b.words[wa] \cap (head \cap tail)) = Cardinality(In(wa, head \cap tail))
      BY <2>2, <2>4, <2>6
    <3>. QED  BY <1>7, <3>1, <3>3, <3>4 DEF M
  <2>8. CASE wa < wb
    <3> DEFINE A == In(wa, head)
               B == In(wb, tail)
               mid == wa + 1 .. wb - 1
               C == InWords(b, mid)
    <3>1. Cardinality(b.words[wa] \cap head) = Cardinality(A) /\ Cardinality(b.words[wb] \cap tail) = Cardinality(B)
      BY <2>2, <2>4, <2>6
    <3>2. mid \in SUBSET (1 .. Len(b.words))
      BY <2>2
    <3>3. WordSum(b, mid) = Cardinality(C)
      BY <3>2, WordSumCounts
    <3>4. ASSUME NEW s \in BitMembers(b)
          PROVE  /\ s \in M <=> s \in A \/ s \in B \/ s \in C
                 /\ ~(s \in A /\ s \in B) /\ ~(s \in A /\ s \in C) /\ ~(s \in B /\ s \in C)
      <4>1. /\ s \in A <=> WordOf(b, s) = wa /\ BitOf(b, s) \in head
            /\ s \in B <=> WordOf(b, s) = wb /\ BitOf(b, s) \in tail
            /\ s \in C <=> wa < WordOf(b, s) /\ WordOf(b, s) < wb
        BY <2>2, <2>3 DEF InWords
      <4>. HIDE DEF A, B, C
      <4>2. /\ WordOf(b, s) \in Int /\ wa \in Int /\ wb \in Int
            /\ s \in M <=> lo <= s /\ s <= last
            /\ lo <= s <=> wa < WordOf(b, s) \/ (wa = WordOf(b, s) /\ BitOf(b, s) \in head)
            /\ s <= last <=> WordOf(b, s) < wb \/ (WordOf(b, s) = wb /\ BitOf(b, s) \in tail)
        BY <2>2, <2>3
      <4>3. \/ WordOf(b, s) < wa \/ WordOf(b, s) = wa \/ WordOf(b, s) = wb \/ wb < WordOf(b, s)
            \/ wa < WordOf(b, s) /\ WordOf(b, s) < wb
        BY <4>2
      <4>. QED  BY <2>8, <4>1, <4>2, <4>3
    <3>5. A \in SUBSET BitMembers(b) /\ B \in SUBSET BitMembers(b) /\ C \in SUBSET BitMembers(b)
      BY DEF InWords
    <3>. HIDE DEF A, B, C
    <3>6. IsFiniteSet(A) /\ IsFiniteSet(B) /\ IsFiniteSet(C)
      BY <1>6, <3>5, FS_Subset
    <3>7. A \cap B = {} /\ (A \cup B) \cap C = {} /\ M = (A \cup B) \cup C
      BY <1>6, <3>4, <3>5
    <3>8. /\ IsFiniteSet(A \cup B) /\ Cardinality(A \cup B) = Cardinality(A) + Cardinality(B)
      BY <3>6, <3>7, CountParts
    <3>9. Cardinality(M) = Cardinality(A \cup B) + Cardinality(C)
      BY <3>6, <3>7, <3>8, CountParts
    <3>10. ~(wa = wb)
      BY <2>2, <2>8
    <3>11. count_in(b, from, to) = Cardinality(A) + Cardinality(B) + Cardinality(C)
      BY <1>4, <1>9, <3>1, <3>3, <3>10
    <3>. QED  BY <1>7, <3>8, <3>9, <3>11 DEF M
  <2>. QED  BY <2>5, <2>7, <2>8
<1>. QED  BY <1>8, <1>9

-----------------------------------------------------------------------------
(***************************************************************************)
(* A bitmap that counts its members, none of them below its floor.         *)
(***************************************************************************)
SoundBits(b) ==
    /\ b \in Bitmaps
    /\ b.base = aligned(b.floor)
    /\ \A s \in BitMembers(b) : b.floor <= s
    /\ b.len = Cardinality(BitMembers(b))

(* The start of the word a number is in.                                   *)
LEMMA AlignedBelow ==
    ASSUME NEW n \in Nat
    PROVE  /\ aligned(n) \in Nat /\ aligned(n) <= n
           /\ n \div WordBits \in Nat /\ aligned(n) = WordBits * (n \div WordBits)
<1> DEFINE q == n \div WordBits
           k == n % WordBits
           m == WordBits * q
<1>1. q \in Nat /\ k \in 0 .. WordBits - 1 /\ n = m + k /\ WordBits \in Nat
  BY WordArithmetic
<1>2. m \in Nat
  BY <1>1, WordArithmetic
<1>3. aligned(n) = n - k
  BY DEF aligned
<1>. HIDE DEF k, m
<1>4. aligned(n) = m
  BY <1>1, <1>2, <1>3
<1>. QED  BY <1>1, <1>2, <1>4 DEF m

(* An empty bitmap.                                                        *)
LEMMA NoBits ==
    ASSUME NEW f \in Nat
    PROVE  /\ SoundBits([base |-> aligned(f), floor |-> f, words |-> <<>>, len |-> 0])
           /\ BitMembers([base |-> aligned(f), floor |-> f, words |-> <<>>, len |-> 0]) = {}
<1> DEFINE b == [base |-> aligned(f), floor |-> f, words |-> <<>>, len |-> 0]
<1>1. b \in Bitmaps /\ Len(b.words) = 0 /\ b.base = aligned(b.floor) /\ b.len = 0
  BY AlignedBelow DEF Bitmaps
<1>. HIDE DEF b
<1>2. BitMembers(b) = {}
  <2>1. \A s \in BitMembers(b) : WordOf(b, s) \in 1 .. Len(b.words)
    BY <1>1, MembersAreBits
  <2>. QED  BY <1>1, <2>1
<1>3. Cardinality(BitMembers(b)) = 0
  BY <1>2, FS_EmptySet
<1>. QED  BY <1>1, <1>2, <1>3 DEF SoundBits, b

Accepts(b, seq) == seq >= b.floor /\ seq - b.base < BitsSpan

(* The words with one more bit, in a word that may be past the last.       *)
LEMMA BitAdded ==
    ASSUME NEW b \in Bitmaps, NEW w \in Nat \ {0}, NEW k \in 0 .. WordBits - 1,
           NEW m \in Nat, w <= m, Len(b.words) <= m,
           \A i \in 1 .. m : i <= Len(b.words) \/ i <= w
    PROVE  LET grown == [i \in 1 .. m |-> IF i <= Len(b.words) THEN b.words[i] ELSE {}]
               after == [grown EXCEPT ![w] = @ \cup {k}]
           IN  /\ after \in Seq(Words) /\ Len(after) = m
               /\ grown[w] = IF w <= Len(b.words) THEN b.words[w] ELSE {}
               /\ \A i \in 1 .. m : after[i] = grown[i] \cup (IF i = w THEN {k} ELSE {})
               /\ \A i \in 1 .. m : grown[i] = IF i <= Len(b.words) THEN b.words[i] ELSE {}
<1> DEFINE grown == [i \in 1 .. m |-> IF i <= Len(b.words) THEN b.words[i] ELSE {}]
           after == [grown EXCEPT ![w] = @ \cup {k}]
<1>1. Len(b.words) \in Nat /\ \A i \in 1 .. Len(b.words) : b.words[i] \in Words
  BY DEF Bitmaps
<1>2. grown \in [1 .. m -> Words]
  <2>1. \A i \in 1 .. m : i <= Len(b.words) => i \in 1 .. Len(b.words)
    BY <1>1
  <2>2. {} \in Words
    BY DEF Words
  <2>. QED  BY <1>1, <2>1, <2>2
<1>3. \A i \in 1 .. m : grown[i] = IF i <= Len(b.words) THEN b.words[i] ELSE {}
  OBVIOUS
<1>. HIDE DEF grown
<1>4. w \in 1 .. m
  OBVIOUS
<1>5. grown[w] \cup {k} \in Words
  BY <1>2, <1>4 DEF Words
<1>6. after \in [1 .. m -> Words]
  BY <1>2, <1>5
<1>7. after \in Seq(Words) /\ Len(after) = m
  <2>. HIDE DEF after
  <2>. QED  BY <1>6
<1>8. \A i \in 1 .. m : after[i] = grown[i] \cup (IF i = w THEN {k} ELSE {})
  BY <1>2
<1>. QED  BY <1>3, <1>4, <1>7, <1>8 DEF grown

(* What an insertion is to make of a bitmap, and to answer.                *)
Inserted(b, seq, done) ==
    /\ SoundBits(done.bits) /\ done.bits.floor = b.floor
    /\ BitMembers(done.bits) = IF Accepts(b, seq) THEN BitMembers(b) \cup {seq} ELSE BitMembers(b)
    /\ done.newly <=> Accepts(b, seq) /\ seq \notin BitMembers(b)

(* SeqBits::insert does.                                                   *)
LEMMA InsertIsExact ==
    ASSUME NEW b, SoundBits(b), NEW seq \in Nat
    PROVE  Inserted(b, seq, bits_insert(b, seq))
<1> DEFINE w == WordOf(b, seq)
           k == BitOf(b, seq)
           m == IF w >= Len(b.words) THEN w ELSE Len(b.words)
           grown == [i \in 1 .. m |-> IF i <= Len(b.words) THEN b.words[i] ELSE {}]
           after == [grown EXCEPT ![w] = @ \cup {k}]
           fresh == k \notin grown[w]
           nb == [b EXCEPT !.words = after, !.len = IF fresh THEN @ + 1 ELSE @]
           done == bits_insert(b, seq)
<1>1. /\ b \in Bitmaps /\ b.base = aligned(b.floor) /\ b.len = Cardinality(BitMembers(b))
      /\ \A s \in BitMembers(b) : b.floor <= s
      /\ b.floor \in Nat /\ b.base \in Nat /\ b.base <= b.floor /\ Len(b.words) \in Nat
  <2>1. b \in Bitmaps /\ b.floor \in Nat /\ Len(b.words) \in Nat
    BY DEF SoundBits, Bitmaps
  <2>2. aligned(b.floor) \in Nat /\ aligned(b.floor) <= b.floor
    BY <2>1, AlignedBelow
  <2>. QED  BY <2>1, <2>2 DEF SoundBits
<1>2. (IF b.words = <<>> THEN [b EXCEPT !.base = aligned(b.floor)] ELSE b) = b
  <2>1. [b EXCEPT !.base = aligned(b.floor)] = b
    BY <1>1 DEF Bitmaps
  <2>. QED  BY <2>1
<1>3. CASE seq < b.floor
  <2>1. ~(seq >= b.floor)
    BY <1>1, <1>3
  <2>2. done = Recorded(b, FALSE)
    BY <1>3 DEF bits_insert
  <2>. QED  BY <2>1, <2>2 DEF Recorded, Inserted, Accepts
<1>4. CASE ~(seq < b.floor) /\ seq - b.base >= BitsSpan
  <2>1. ~(seq - b.base < BitsSpan)
    BY <1>1, <1>4, BitsAssumption
  <2>2. done = Recorded(b, FALSE)
    <3>1. done = LET at == b IN Recorded(at, FALSE)
      BY <1>2, <1>4, Zenon DEF bits_insert
    <3>. QED  BY <3>1
  <2>. QED  BY <2>1, <2>2 DEF Recorded, Inserted, Accepts
<1>5. CASE ~(seq < b.floor) /\ ~(seq - b.base >= BitsSpan)
  <2>1. Accepts(b, seq) /\ b.base <= seq
    BY <1>1, <1>5, BitsAssumption DEF Accepts
  <2>2. w \in Nat \ {0} /\ k \in 0 .. WordBits - 1
    BY <1>1, <2>1, SeqsAndBits
  <2>3. Max({w, Len(b.words)}) = m
    BY <1>1, <2>2, OfTwo
  <2>4. done = Recorded(nb, fresh)
    <3> DEFINE G(at) == [i \in 1 .. Max({WordOf(at, seq), Len(at.words)}) |->
                             IF i <= Len(at.words) THEN at.words[i] ELSE {}]
               R(at, g) == Recorded([at EXCEPT !.words = [g EXCEPT ![WordOf(at, seq)] = @ \cup {BitOf(at, seq)}],
                                               !.len = IF BitOf(at, seq) \notin g[WordOf(at, seq)]
                                                       THEN @ + 1 ELSE @],
                                    BitOf(at, seq) \notin g[WordOf(at, seq)])
               H(at) == IF seq < b.floor THEN Recorded(b, FALSE)
                        ELSE IF seq - at.base >= BitsSpan THEN Recorded(at, FALSE)
                        ELSE R(at, G(at))
               first == IF b.words = <<>> THEN [b EXCEPT !.base = aligned(b.floor)] ELSE b
    <3>1. done = H(first)
      BY DEF bits_insert
    <3>2. H(first) = H(b)
      <4>. HIDE DEF H
      <4>. QED  BY <1>2
    <3>3. H(b) = R(b, G(b))
      <4>. HIDE DEF R, G
      <4>. QED  BY <1>5
    <3>4. G(b) = grown
      <4>. HIDE DEF m
      <4>. QED  BY <2>3
    <3>5. R(b, G(b)) = R(b, grown)
      <4>. HIDE DEF R, G, grown
      <4>. QED  BY <3>4
    <3>. HIDE DEF done, H, G, first
    <3>. QED  BY <3>1, <3>2, <3>3, <3>5
  <2>5. m \in Nat /\ w <= m /\ Len(b.words) <= m /\ \A i \in 1 .. m : i <= Len(b.words) \/ i <= w
    BY <1>1, <2>2
  <2>. HIDE DEF w, k, m
  <2>6. /\ after \in Seq(Words) /\ Len(after) = m
        /\ grown[w] = IF w <= Len(b.words) THEN b.words[w] ELSE {}
        /\ \A i \in 1 .. m : after[i] = grown[i] \cup (IF i = w THEN {k} ELSE {})
        /\ \A i \in 1 .. m : grown[i] = IF i <= Len(b.words) THEN b.words[i] ELSE {}
    <3>. HIDE DEF grown, after
    <3>. QED  BY <1>1, <2>2, <2>5, BitAdded DEF grown, after
  <2>7. fresh <=> seq \notin BitMembers(b)
    <3>1. seq \in BitMembers(b) <=> w <= Len(b.words) /\ k \in b.words[w]
      BY <1>1, <2>1, MemberBy DEF w, k
    <3>. QED  BY <2>6, <3>1
  <2>. HIDE DEF grown, after, fresh
  <2>8. /\ nb \in Bitmaps /\ nb.base = b.base /\ nb.floor = b.floor /\ nb.words = after
        /\ nb.len = IF fresh THEN b.len + 1 ELSE b.len
    <3>1. b = [base |-> b.base, floor |-> b.floor, words |-> b.words, len |-> b.len]
          /\ b.base \in Nat /\ b.floor \in Nat /\ b.len \in Int
      BY <1>1 DEF Bitmaps
    <3> DEFINE l == IF fresh THEN b.len + 1 ELSE b.len
    <3>2. l \in Int
      BY <3>1
    <3>3. nb = [base |-> b.base, floor |-> b.floor, words |-> after, len |-> l]
      <4> DEFINE c == [b EXCEPT !.words = after]
      <4>1. c = [base |-> b.base, floor |-> b.floor, words |-> after, len |-> b.len]
        BY <3>1
      <4>2. nb = [c EXCEPT !.len = IF fresh THEN @ + 1 ELSE @]
        OBVIOUS
      <4>. HIDE DEF c, nb, l
      <4>3. nb = [c EXCEPT !.len = l]
        BY <4>1, <4>2 DEF l
      <4>. QED  BY <4>1, <4>3
    <3>4. l = IF fresh THEN b.len + 1 ELSE b.len
      OBVIOUS
    <3>. HIDE DEF nb, l
    <3>5. nb \in Bitmaps
      BY <2>6, <3>1, <3>2, <3>3 DEF Bitmaps
    <3>. QED  BY <3>3, <3>4, <3>5
  <2>. HIDE DEF nb
  <2>9. ASSUME NEW s \in Nat
        PROVE  s \in BitMembers(nb) <=> s \in BitMembers(b) \/ s = seq
    <3>1. s \in BitMembers(nb) <=> /\ b.base <= s /\ WordOf(b, s) <= m
                                   /\ BitOf(b, s) \in after[WordOf(b, s)]
      <4>1. WordOf(nb, s) = WordOf(b, s) /\ BitOf(nb, s) = BitOf(b, s)
        BY <2>8 DEF WordOf, BitOf
      <4>. QED  BY <2>6, <2>8, <4>1, MemberBy
    <3>2. s \in BitMembers(b) <=> /\ b.base <= s /\ WordOf(b, s) <= Len(b.words)
                                  /\ BitOf(b, s) \in b.words[WordOf(b, s)]
      BY <1>1, MemberBy
    <3>3. CASE ~(b.base <= s)
      BY <2>1, <3>1, <3>2, <3>3
    <3>4. CASE b.base <= s
      <4> DEFINE i == WordOf(b, s)
      <4>1. i \in Nat \ {0} /\ BitOf(b, s) \in 0 .. WordBits - 1
            /\ (s = seq <=> i = w /\ BitOf(b, s) = k)
        <5>1. s = SeqAt(b, i, BitOf(b, s)) /\ i \in Nat \ {0} /\ BitOf(b, s) \in 0 .. WordBits - 1
          BY <1>1, <3>4, SeqsAndBits
        <5>2. seq = SeqAt(b, w, k)
          BY <1>1, <2>1, SeqsAndBits DEF w, k
        <5>. QED  BY <5>1, <5>2 DEF w, k
      <4>. HIDE DEF i
      <4>2. i <= m <=> i \in 1 .. m
        BY <2>5, <4>1
      <4>3. i \in 1 .. m => after[i] = (IF i <= Len(b.words) THEN b.words[i] ELSE {})
                                       \cup (IF i = w THEN {k} ELSE {})
        BY <2>6
      <4>4. i <= Len(b.words) => i <= m
        BY <1>1, <2>5, <4>1
      <4>5. s \in BitMembers(nb) <=> i <= m /\ BitOf(b, s) \in after[i]
        BY <3>1, <3>4 DEF i
      <4>6. s \in BitMembers(b) <=> i <= Len(b.words) /\ BitOf(b, s) \in b.words[i]
        BY <3>2, <3>4 DEF i
      <4>7. w <= m
        BY <2>5
      <4>. QED  BY <4>1, <4>2, <4>3, <4>4, <4>5, <4>6, <4>7
    <3>. QED  BY <3>3, <3>4
  <2>10. BitMembers(nb) = BitMembers(b) \cup {seq}
    <3>1. BitMembers(nb) \in SUBSET Nat /\ BitMembers(b) \in SUBSET Nat
      BY <1>1, <2>8, MembersAreBits
    <3>. QED  BY <2>9, <3>1
  <2>11. nb.len = Cardinality(BitMembers(nb))
    <3>1. IsFiniteSet(BitMembers(b))
      BY <1>1, MembersAreBits
    <3>2. Cardinality(BitMembers(b) \cup {seq}) = IF seq \in BitMembers(b) THEN Cardinality(BitMembers(b))
                                                 ELSE Cardinality(BitMembers(b)) + 1
      BY <3>1, FS_AddElement
    <3>. QED  BY <1>1, <2>7, <2>8, <2>10, <3>2
  <2>12. \A s \in BitMembers(nb) : nb.floor <= s
    BY <1>1, <2>1, <2>8, <2>10 DEF Accepts
  <2>13. SoundBits(nb)
    BY <1>1, <2>8, <2>11, <2>12 DEF SoundBits
  <2>14. done.bits = nb /\ (done.newly <=> fresh)
    <3>. HIDE DEF done
    <3>1. done.bits = nb
      BY <2>4 DEF Recorded
    <3>2. done.newly = fresh
      BY <2>4 DEF Recorded
    <3>. QED  BY <3>1, <3>2
  <2>. HIDE DEF done
  <2>. QED  BY <2>1, <2>7, <2>8, <2>10, <2>13, <2>14 DEF Inserted, done
<1>. QED  BY <1>3, <1>4, <1>5

(* Multiples add up.                                                       *)
LEMMA MultiplesAdd ==
    ASSUME NEW w \in Nat, NEW q \in Nat, NEW r \in Nat
    PROVE  w * (q + r) = w * q + w * r
BY SMTT(20)

(* The same bits, seen from n words further on.                            *)
LEMMA WordsOn ==
    ASSUME NEW b \in Bitmaps, NEW c \in Bitmaps, NEW n \in Nat, c.base = b.base + WordBits * n
    PROVE  /\ b.base <= c.base
           /\ \A s \in Nat : c.base <= s =>
                 /\ n < WordOf(b, s) /\ WordOf(c, s) = WordOf(b, s) - n /\ BitOf(c, s) = BitOf(b, s)
           /\ \A s \in Nat : b.base <= s => (c.base <= s <=> n < WordOf(b, s))
<1> DEFINE d == WordBits * n
<1>1. b.base \in Nat /\ c.base \in Nat /\ WordBits \in Nat \ {0}
  BY WordArithmetic DEF Bitmaps
<1>2. d \in Nat /\ c.base = b.base + d
  BY <1>1, WordArithmetic
<1>3. ASSUME NEW s \in Nat, b.base <= s
      PROVE  /\ c.base <= s <=> n < WordOf(b, s)
             /\ c.base <= s => WordOf(c, s) = WordOf(b, s) - n /\ BitOf(c, s) = BitOf(b, s)
  <2> DEFINE i == WordOf(b, s) - 1
             k == BitOf(b, s)
             e == WordBits * i
  <2>1. /\ WordOf(b, s) \in Nat \ {0} /\ k \in 0 .. WordBits - 1
        /\ s = SeqAt(b, WordOf(b, s), k)
    BY <1>3, SeqsAndBits
  <2>2. i \in Nat /\ WordOf(b, s) = i + 1
    BY <2>1
  <2>3. s = b.base + e + k
    BY <2>1 DEF SeqAt
  <2>4. e \in Nat /\ (i < n => e + WordBits <= d) /\ (n < i => d + WordBits <= e) /\ (i = n => e = d)
    BY <1>1, <2>2, WordArithmetic
  <2>. HIDE DEF i, k, e, d
  <2>5. c.base <= s <=> n <= i
    <3>1. CASE i < n
      BY <1>1, <1>2, <2>1, <2>2, <2>3, <2>4, <3>1
    <3>2. CASE ~(i < n)
      <4>1. d <= e
        BY <1>1, <1>2, <2>2, <2>4, <3>2
      <4>. QED  BY <1>1, <1>2, <2>1, <2>2, <2>3, <2>4, <3>2, <4>1
    <3>. QED  BY <3>1, <3>2
  <2>6. ASSUME n <= i
        PROVE  WordOf(c, s) = WordOf(b, s) - n /\ BitOf(c, s) = k
    <3> DEFINE j == i - n
               g == WordBits * j
    <3>1. j \in Nat /\ i = n + j
      BY <2>2, <2>6
    <3>. HIDE DEF j
    <3>2. g \in Nat /\ e = d + g
      BY <1>1, <3>1, WordArithmetic, MultiplesAdd DEF d, e
    <3>3. j + 1 \in Nat \ {0} /\ (j + 1) - 1 = j
      BY <3>1
    <3>4. SeqAt(c, j + 1, k) = c.base + g + k
      BY <3>3 DEF SeqAt
    <3>. HIDE DEF g
    <3>5. SeqAt(c, j + 1, k) = s
      BY <1>1, <1>2, <2>1, <2>3, <2>4, <3>2, <3>4
    <3>6. WordOf(c, s) = j + 1 /\ BitOf(c, s) = k
      BY <2>1, <3>3, <3>5, SeqOfBit
    <3>. QED  BY <2>2, <3>1, <3>6
  <2>. QED  BY <2>2, <2>5, <2>6 DEF k
<1>4. b.base <= c.base /\ \A s \in Nat : c.base <= s => b.base <= s
  BY <1>1, <1>2
<1>. QED  BY <1>3, <1>4

(* The rest of a sequence.                                                 *)
LEMMA RestOf ==
    ASSUME NEW T, NEW s \in Seq(T), NEW n \in Nat, n <= Len(s)
    PROVE  /\ SubSeq(s, n + 1, Len(s)) \in Seq(T) /\ Len(SubSeq(s, n + 1, Len(s))) = Len(s) - n
           /\ \A i \in 1 .. Len(s) - n : SubSeq(s, n + 1, Len(s))[i] = s[n + i]
<1>1. Len(s) \in Nat
  OBVIOUS
<1>2. SubSeq(s, n + 1, Len(s)) \in Seq(T) /\ Len(SubSeq(s, n + 1, Len(s))) = Len(s) - n
  BY <1>1
<1>3. ASSUME NEW i \in 1 .. Len(s) - n
      PROVE  SubSeq(s, n + 1, Len(s))[i] = s[n + i]
  BY <1>1
<1>. QED  BY <1>2, <1>3

(* SeqBits::prune_below, what it keeps.                                    *)
LEMMA PruneIsExact ==
    ASSUME NEW b, SoundBits(b), NEW x \in Nat
    PROVE  /\ SoundBits(bits_prune_below(b, x))
           /\ bits_prune_below(b, x).floor = IF x <= b.floor THEN b.floor ELSE x
           /\ BitMembers(bits_prune_below(b, x)) = {s \in BitMembers(b) : s >= x}
<1> DEFINE M == BitMembers(b)
           nb == bits_prune_below(b, x)
           n == (x - b.base) \div WordBits
           off == (x - b.base) % WordBits
           low == {k \in b.words[n + 1] : k < off}
           rest == SubSeq(b.words, n + 1, Len(b.words))
           after == [rest EXCEPT ![1] = @ \ low]
           l == b.len - WordSum(b, 1 .. n) - Cardinality(low)
<1>1. /\ b \in Bitmaps /\ b.base = aligned(b.floor) /\ b.len = Cardinality(M)
      /\ \A s \in M : s \in Nat /\ b.floor <= s /\ s < bits_end(b)
      /\ b.floor \in Nat /\ b.base \in Nat /\ b.base <= b.floor
      /\ Len(b.words) \in Nat /\ bits_end(b) \in Nat
      /\ IsFiniteSet(M) /\ M \in SUBSET Nat
  <2>1. b \in Bitmaps /\ b.floor \in Nat /\ Len(b.words) \in Nat
    BY DEF SoundBits, Bitmaps
  <2>2. aligned(b.floor) \in Nat /\ aligned(b.floor) <= b.floor
    BY <2>1, AlignedBelow
  <2>3. bits_end(b) \in Nat /\ IsFiniteSet(M) /\ M \in SUBSET Nat /\ \A s \in M : s < bits_end(b)
    BY <2>1, SeqsAndBits, MembersAreBits
  <2>. QED  BY <2>1, <2>2, <2>3 DEF SoundBits
<1>2. nb = IF x <= b.floor THEN b
           ELSE IF x >= bits_end(b)
           THEN [base |-> aligned(x), floor |-> x, words |-> <<>>, len |-> 0]
           ELSE [base |-> b.base + WordBits * n, floor |-> x, words |-> after, len |-> l]
  BY DEF bits_prune_below, WordSum, MapThenSumSet, MapThenFoldSet
<1>. HIDE DEF M, nb, n, off, after, l
<1>3. CASE x <= b.floor
  <2>0. \A s \in M : s >= x
    BY <1>1, <1>3
  <2>1. M = {s \in M : s >= x}
    BY <2>0
  <2>. QED  BY <1>2, <1>3, <2>1 DEF M, nb
<1>4. CASE ~(x <= b.floor) /\ x >= bits_end(b)
  <2>0. \A s \in M : ~(s >= x)
    BY <1>1, <1>4
  <2>1. {s \in M : s >= x} = {}
    BY <2>0
  <2>2. nb = [base |-> aligned(x), floor |-> x, words |-> <<>>, len |-> 0]
    BY <1>2, <1>4
  <2>. QED  BY <1>4, <2>1, <2>2, NoBits DEF M, nb
<1>5. CASE ~(x <= b.floor) /\ ~(x >= bits_end(b))
  <2> DEFINE d == WordBits * n
  <2>1. nb = [base |-> b.base + d, floor |-> x, words |-> after, len |-> l]
    BY <1>2, <1>5
  <2>2. /\ n + 1 \in 1 .. Len(b.words) /\ n \in Nat /\ off \in 0 .. WordBits - 1
        /\ WordOf(b, x) = n + 1 /\ BitOf(b, x) = off
        /\ b.base <= x /\ x = b.base + d + off /\ d \in Nat
    <3>1. b.base <= x /\ x < bits_end(b)
      BY <1>1, <1>5
    <3>2. /\ WordOf(b, x) \in Nat \ {0} /\ BitOf(b, x) \in 0 .. WordBits - 1
          /\ x = SeqAt(b, WordOf(b, x), BitOf(b, x)) /\ WordOf(b, x) <= Len(b.words)
      BY <1>1, <3>1, SeqsAndBits
    <3>3. WordOf(b, x) = 1 + n /\ BitOf(b, x) = off
      BY DEF WordOf, BitOf, n, off
    <3>4. x - b.base \in Nat
      BY <1>1, <3>1
    <3>5. n \in Nat
      BY <3>4, WordArithmetic DEF n
    <3>6. 1 + n = n + 1 /\ (1 + n) - 1 = n /\ n + 1 \in 1 .. Len(b.words)
      BY <1>1, <3>2, <3>3, <3>5
    <3>7. x = b.base + d + off
      BY <3>2, <3>3, <3>6 DEF SeqAt
    <3>8. d \in Nat
      BY <3>5, WordArithmetic
    <3>. QED  BY <3>1, <3>2, <3>3, <3>5, <3>6, <3>7, <3>8
  <2>. HIDE DEF d
  <2>3. b.base + d = aligned(x)
    <3> DEFINE p == b.floor \div WordBits
               e == WordBits * p
               g == WordBits * (p + n)
    <3>1. p \in Nat /\ b.base = e
      BY <1>1, AlignedBelow
    <3>. HIDE DEF p
    <3>2. WordBits \in Nat /\ p + n \in Nat
      BY <2>2, <3>1, WordArithmetic
    <3>3. g = e + d
      BY <2>2, <3>1, <3>2, MultiplesAdd DEF d
    <3>4. g \in Nat /\ (g + off) % WordBits = off
      BY <2>2, <3>2, WordArithmetic
    <3>. HIDE DEF g, e
    <3>5. x = g + off
      BY <1>1, <2>2, <3>1, <3>3, <3>4
    <3>6. aligned(x) = x - off
      BY <3>4, <3>5 DEF aligned
    <3>. QED  BY <2>2, <3>1, <3>3, <3>4, <3>5, <3>6
  <2>4. /\ after \in Seq(Words) /\ Len(after) = Len(b.words) - n
        /\ \A i \in 1 .. Len(b.words) - n :
              after[i] = IF i = 1 THEN b.words[n + 1] \ low ELSE b.words[n + i]
    <3>1. rest \in Seq(Words) /\ Len(rest) = Len(b.words) - n
          /\ \A i \in 1 .. Len(b.words) - n : rest[i] = b.words[n + i]
      <4>1. b.words \in Seq(Words)
        BY <1>1 DEF Bitmaps
      <4>2. n \in Nat /\ n <= Len(b.words)
        BY <1>1, <2>2
      <4>. QED  BY <4>1, <4>2, RestOf
    <3>2. 1 \in 1 .. Len(b.words) - n
      BY <1>1, <2>2
    <3>. HIDE DEF rest, low
    <3>3. rest[1] \ low \in Words /\ rest \in [1 .. Len(b.words) - n -> Words]
      <4>1. rest \in [1 .. Len(b.words) - n -> Words]
        BY <1>1, <2>2, <3>1, SMTT(20)
      <4>2. rest[1] \in Words
        BY <3>2, <4>1
      <4>. QED  BY <4>1, <4>2 DEF Words
    <3>4. after \in [1 .. Len(b.words) - n -> Words]
      BY <3>3 DEF after
    <3>5. \A i \in 1 .. Len(b.words) - n : after[i] = IF i = 1 THEN rest[1] \ low ELSE rest[i]
      BY <3>3 DEF after
    <3>6. Len(b.words) - n \in Nat
      BY <1>1, <2>2
    <3>7. after \in Seq(Words) /\ Len(after) = Len(b.words) - n
      BY <3>4, <3>6
    <3>. QED  BY <3>1, <3>2, <3>5, <3>7
  <2>5. l \in Int
    <3>1. 1 .. n \in SUBSET (1 .. Len(b.words))
      BY <1>1, <2>2
    <3>2. WordSum(b, 1 .. n) = Cardinality(InWords(b, 1 .. n))
      BY <1>1, <3>1, WordSumCounts
    <3>3. IsFiniteSet(InWords(b, 1 .. n)) /\ IsFiniteSet(low)
      <4>1. InWords(b, 1 .. n) \in SUBSET M /\ low \in SUBSET b.words[n + 1]
        BY DEF InWords, M
      <4>2. b.words[n + 1] \in Words /\ b.words[n + 1] \cap b.words[n + 1] = b.words[n + 1]
        BY <1>1, <2>2 DEF Bitmaps
      <4>3. IsFiniteSet(b.words[n + 1])
        BY <1>1, <2>2, <4>2, WordCounts
      <4>. HIDE DEF low
      <4>. QED  BY <1>1, <4>1, <4>3, FS_Subset
    <3>. HIDE DEF low
    <3>4. Cardinality(low) \in Nat /\ Cardinality(InWords(b, 1 .. n)) \in Nat /\ b.len \in Int
      BY <1>1, <3>3, FS_CardinalityType DEF Bitmaps
    <3>. QED  BY <3>2, <3>4 DEF l
  <2>6. nb \in Bitmaps /\ nb.base = b.base + WordBits * n /\ nb.floor = x /\ nb.words = after /\ nb.len = l
    <3>1. b.base + d \in Nat
      BY <1>1, <2>2
    <3>. QED  BY <2>1, <2>4, <2>5, <3>1 DEF Bitmaps, d
  <2>7. ASSUME NEW s \in Nat
        PROVE  s \in BitMembers(nb) <=> s \in M /\ s >= x
    <3>1. s \in BitMembers(nb) <=> /\ nb.base <= s /\ WordOf(nb, s) <= Len(after)
                                   /\ BitOf(nb, s) \in after[WordOf(nb, s)]
      BY <2>6, MemberBy
    <3>2. s \in M <=> /\ b.base <= s /\ WordOf(b, s) <= Len(b.words)
                      /\ BitOf(b, s) \in b.words[WordOf(b, s)]
      BY <1>1, MemberBy DEF M
    <3>3. nb.base <= x /\ b.base <= nb.base /\ nb.base \in Nat
      BY <1>1, <2>2, <2>6 DEF d
    <3>4. CASE ~(nb.base <= s)
      BY <3>1, <3>3, <3>4
    <3>5. CASE nb.base <= s
      <4> DEFINE i == WordOf(b, s)
                 k == BitOf(b, s)
      <4>0. b.base <= s
        BY <1>1, <3>3, <3>5
      <4>1. n < i /\ WordOf(nb, s) = i - n /\ BitOf(nb, s) = k
        BY <1>1, <2>2, <2>6, <3>5, WordsOn
      <4>2. i \in Nat \ {0} /\ k \in 0 .. WordBits - 1
        BY <1>1, <4>0, SeqsAndBits
      <4>3. x <= s <=> n + 1 < i \/ (n + 1 = i /\ off <= k)
        <5>1. x <= s <=> \/ WordOf(b, x) < WordOf(b, s)
                         \/ WordOf(b, x) = WordOf(b, s) /\ BitOf(b, x) <= BitOf(b, s)
          BY <1>1, <2>2, <4>0, BitOrder
        <5>. QED  BY <2>2, <5>1
      <4>. HIDE DEF i, k
      <4>4. s \in BitMembers(nb) <=> i <= Len(b.words) /\ k \in after[i - n]
        BY <1>1, <2>2, <2>4, <3>1, <3>5, <4>1, <4>2
      <4>5. s \in M <=> i <= Len(b.words) /\ k \in b.words[i]
        BY <3>2, <4>0 DEF i, k
      <4>6. CASE i = n + 1
        <5>1. i - n = 1 /\ 1 \in 1 .. Len(b.words) - n
          BY <1>1, <2>2, <4>6
        <5>2. after[1] = b.words[n + 1] \ low
          BY <2>4, <5>1
        <5>3. k \in low <=> k \in b.words[n + 1] /\ ~(off <= k)
          BY <2>2, <4>2
        <5>4. ~(n + 1 < i) /\ (s >= x <=> x <= s)
          BY <2>2, <4>6
        <5>. QED  BY <4>3, <4>4, <4>5, <4>6, <5>1, <5>2, <5>3, <5>4
      <4>7. CASE i # n + 1
        <5>1. n + 1 < i /\ i - n # 1 /\ n + (i - n) = i /\ (s >= x <=> x <= s)
              /\ (i <= Len(b.words) => i - n \in 1 .. Len(b.words) - n)
          BY <1>1, <2>2, <4>1, <4>2, <4>7
        <5>2. i <= Len(b.words) => after[i - n] = b.words[i]
          BY <2>4, <5>1
        <5>. QED  BY <4>3, <4>4, <4>5, <5>1, <5>2
      <4>. QED  BY <4>6, <4>7
    <3>. QED  BY <3>4, <3>5
  <2>8. BitMembers(nb) = {s \in M : s >= x}
    <3>1. BitMembers(nb) \in SUBSET Nat
      BY <2>6, MembersAreBits
    <3>. QED  BY <1>1, <2>7, <3>1
  <2>9. l = Cardinality({s \in M : s >= x})
    <3> DEFINE A == InWords(b, 1 .. n)
               B == {s \in BitMembers(b) : WordOf(b, s) = n + 1 /\ BitOf(b, s) \in low}
               C == {s \in M : s >= x}
    <3>1. 1 .. n \in SUBSET (1 .. Len(b.words))
      BY <1>1, <2>2
    <3>2. WordSum(b, 1 .. n) = Cardinality(A)
      BY <1>1, <3>1, WordSumCounts
    <3>3. low \in Words /\ b.words[n + 1] \cap low = low
      <4>1. b.words[n + 1] \in Words
        BY <1>1, <2>2 DEF Bitmaps
      <4>. QED  BY <4>1 DEF Words
    <3>4. Cardinality(low) = Cardinality(B)
      <4>. HIDE DEF low
      <4>1. Cardinality(b.words[n + 1] \cap low) = Cardinality(B)
        BY <1>1, <2>2, <3>3, WordCounts
      <4>. QED  BY <3>3, <4>1
    <3>5. ASSUME NEW s \in M
          PROVE  /\ s \in A \/ s \in B \/ s \in C
                 /\ ~(s \in A /\ s \in B) /\ ~(s \in A /\ s \in C) /\ ~(s \in B /\ s \in C)
      <4> DEFINE i == WordOf(b, s)
                 k == BitOf(b, s)
      <4>1. s \in Nat /\ b.base <= s /\ i \in 1 .. Len(b.words) /\ k \in b.words[i] /\ k \in 0 .. WordBits - 1
        BY <1>1, MembersAreBits DEF M
      <4>2. x <= s <=> n + 1 < i \/ (n + 1 = i /\ off <= k)
        <5>1. x <= s <=> \/ WordOf(b, x) < WordOf(b, s)
                         \/ WordOf(b, x) = WordOf(b, s) /\ BitOf(b, x) <= BitOf(b, s)
          BY <1>1, <2>2, <4>1, BitOrder
        <5>. QED  BY <2>2, <5>1
      <4>3. s \in A <=> i \in 1 .. n
        BY DEF InWords, M
      <4>4. s \in B <=> i = n + 1 /\ k \in low
        BY DEF M
      <4>5. s \in C <=> x <= s
        BY <4>1
      <4>. HIDE DEF A, B, C
      <4>6. i \in 1 .. n <=> i < n + 1
        BY <2>2, <4>1
      <4>7. i = n + 1 => (k \in low <=> ~(off <= k))
        BY <2>2, <4>1
      <4>. HIDE DEF low, i, k
      <4>8. i \in Nat /\ n + 1 \in Nat
        BY <2>2, <4>1
      <4>. QED  BY <4>2, <4>3, <4>4, <4>5, <4>6, <4>7, <4>8
    <3>6. A \in SUBSET M /\ B \in SUBSET M /\ C \in SUBSET M
      BY DEF InWords, M
    <3>. HIDE DEF A, B, C, low
    <3>7. IsFiniteSet(A) /\ IsFiniteSet(B) /\ IsFiniteSet(C)
      BY <1>1, <3>6, FS_Subset
    <3>8. A \cap B = {} /\ (A \cup B) \cap C = {} /\ M = (A \cup B) \cup C
      BY <3>5, <3>6
    <3>9. /\ IsFiniteSet(A \cup B) /\ Cardinality(A \cup B) = Cardinality(A) + Cardinality(B)
          /\ Cardinality(A) \in Nat /\ Cardinality(B) \in Nat
      BY <3>7, <3>8, CountParts
    <3>10. Cardinality(M) = Cardinality(A \cup B) + Cardinality(C) /\ Cardinality(C) \in Nat
      BY <3>7, <3>8, <3>9, CountParts
    <3>11. l = Cardinality(M) - Cardinality(A) - Cardinality(B)
      BY <1>1, <3>2, <3>4 DEF l
    <3>12. l = Cardinality(C)
      BY <3>9, <3>10, <3>11
    <3>. QED  BY <3>12 DEF C
  <2>10. SoundBits(nb)
    <3>1. \A s \in BitMembers(nb) : nb.floor <= s
      BY <1>1, <2>6, <2>8
    <3>2. nb.base = aligned(nb.floor)
      BY <2>3, <2>6 DEF d
    <3>. QED  BY <2>6, <2>8, <2>9, <3>1, <3>2 DEF SoundBits
  <2>. QED  BY <1>5, <2>6, <2>8, <2>10 DEF nb, M
<1>. QED  BY <1>3, <1>4, <1>5

-----------------------------------------------------------------------------
(***************************************************************************)
(* The runs.  From a point on, the first run and where it ends.            *)
(***************************************************************************)
MembersFrom(b, at, hi) == {s \in at .. hi : contains(b, s)}

RunStart(b, at, hi) == Min(MembersFrom(b, at, hi))

RunEnd(b, at, hi) == Min({next_clear(b, RunStart(b, at, hi)) - 1, hi})

RunsBy(f, b, hi, from) ==
    f = [at \in from .. hi + 1 |->
            IF MembersFrom(b, at, hi) = {} THEN <<>>
            ELSE <<<<RunStart(b, at, hi), RunEnd(b, at, hi)>>>> \o f[RunEnd(b, at, hi) + 1]]

(* each_run is defined by such a function.                                 *)
LEMMA RunsAreBy ==
    ASSUME NEW b, NEW hi \in Nat, NEW lo \in 0 .. hi
    PROVE  each_run(b, lo, hi) = (CHOOSE f : RunsBy(f, b, hi, 0))[lo]
<1>1. ~(lo > hi)
  OBVIOUS
<1>. QED  BY <1>1, Zenon DEF each_run, RunsBy, RunEnd, RunStart, MembersFrom

(* The least member of a non-empty set of naturals.                        *)
LEMMA LeastIsMin ==
    ASSUME NEW S \in SUBSET Nat, S # {}
    PROVE  Min(S) \in S /\ \A s \in S : Min(S) <= s
BY LeastMember DEF Min

(* The first run is all members, and nothing before it nor right after.    *)
LEMMA FirstRun ==
    ASSUME NEW b \in Bitmaps, NEW hi \in Nat, NEW at \in Nat, MembersFrom(b, at, hi) # {}
    PROVE  /\ RunStart(b, at, hi) \in Nat /\ RunEnd(b, at, hi) \in Nat
           /\ at <= RunStart(b, at, hi) /\ RunStart(b, at, hi) <= RunEnd(b, at, hi)
           /\ RunEnd(b, at, hi) <= hi
           /\ \A s \in RunStart(b, at, hi) .. RunEnd(b, at, hi) : s \in BitMembers(b)
           /\ \A s \in BitMembers(b) :
                 /\ at <= s /\ s <= hi => RunStart(b, at, hi) <= s
                 /\ s <= hi => s # RunEnd(b, at, hi) + 1
<1> DEFINE M == MembersFrom(b, at, hi)
           start == RunStart(b, at, hi)
           end == RunEnd(b, at, hi)
           clear == {s \in start .. bits_end(b) : ~contains(b, s)}
           c == next_clear(b, start)
<1>1. /\ bits_end(b) \in Nat /\ BitMembers(b) \in SUBSET Nat
      /\ \A s \in Int : contains(b, s) <=> s \in BitMembers(b)
      /\ \A s \in BitMembers(b) : s < bits_end(b)
  BY SeqsAndBits, MembersAreBits
<1>2. M \in SUBSET Nat /\ \A s \in Int : s \in M <=> at <= s /\ s <= hi /\ s \in BitMembers(b)
  BY <1>1 DEF MembersFrom
<1>3. start \in M /\ \A s \in M : start <= s
  BY <1>2, LeastIsMin DEF RunStart
<1>. HIDE DEF M, start
<1>4. start \in Nat /\ at <= start /\ start <= hi /\ start \in BitMembers(b)
  BY <1>2, <1>3
<1>5. clear \in SUBSET Nat /\ bits_end(b) \in clear
        /\ \A s \in Int : s \in clear <=> start <= s /\ s <= bits_end(b) /\ s \notin BitMembers(b)
  <2>1. \A s \in Int : s \in clear <=> start <= s /\ s <= bits_end(b) /\ s \notin BitMembers(b)
    BY <1>1, <1>4
  <2>2. start <= bits_end(b) /\ bits_end(b) \notin BitMembers(b) /\ bits_end(b) <= bits_end(b)
    BY <1>1, <1>4
  <2>3. clear \in SUBSET Nat
    BY <1>1, <1>4
  <2>. QED  BY <1>1, <2>1, <2>2, <2>3
<1>6. c \in clear /\ \A s \in clear : c <= s
  <2>1. c = Min(clear)
    BY DEF next_clear
  <2>. HIDE DEF c, clear
  <2>. QED  BY <1>5, <2>1, LeastIsMin
<1>. HIDE DEF c, clear
<1>7. c \in Nat /\ start <= c /\ c <= bits_end(b) /\ c \notin BitMembers(b)
  BY <1>5, <1>6
<1>8. start < c
  <2>1. start # c
    BY <1>4, <1>7
  <2>. QED  BY <1>4, <1>7, <2>1
<1>9. end = IF c - 1 <= hi THEN c - 1 ELSE hi
  <2>1. end = Min({c - 1, hi})
    BY DEF RunEnd, start, c
  <2>2. c - 1 \in Int /\ hi \in Int
    BY <1>7
  <2>. HIDE DEF end
  <2>. QED  BY <2>1, <2>2, OfTwo
<1>. HIDE DEF end
<1>10. end \in Nat /\ start <= end /\ end <= hi /\ end < c
  BY <1>4, <1>7, <1>8, <1>9
<1>11. ASSUME NEW s \in start .. end
       PROVE  s \in BitMembers(b)
  <2>1. s \in Int /\ start <= s /\ s < c /\ s <= bits_end(b)
    BY <1>1, <1>4, <1>7, <1>10
  <2>2. s \notin clear
    BY <1>6, <1>7, <2>1
  <2>. QED  BY <1>5, <2>1, <2>2
<1>12. ASSUME NEW s \in BitMembers(b), s <= hi
       PROVE  s # end + 1
  <2>1. s \in Nat
    BY <1>1
  <2>2. CASE c - 1 <= hi
    <3>1. end + 1 = c
      BY <1>7, <1>9, <2>2
    <3>. QED  BY <1>7, <3>1
  <2>3. CASE ~(c - 1 <= hi)
    BY <1>9, <1>12, <2>1, <2>3
  <2>. QED  BY <2>2, <2>3
<1>13. \A s \in BitMembers(b) : at <= s /\ s <= hi => start <= s
  BY <1>1, <1>2, <1>3
<1>. QED  BY <1>4, <1>10, <1>11, <1>12, <1>13 DEF start, end

(* There is a function that lists the runs.                                *)
LEMMA RunsExist ==
    ASSUME NEW b \in Bitmaps, NEW hi \in Nat
    PROVE  \E f : RunsBy(f, b, hi, 0)
<1> DEFINE Some(n) == \E f : RunsBy(f, b, hi, hi + 1 - n)
           S == {n \in 0 .. hi + 1 : Some(n)}
<1>1. ASSUME NEW at \in Nat, MembersFrom(b, at, hi) # {}
      PROVE  /\ RunEnd(b, at, hi) + 1 \in Nat /\ at < RunEnd(b, at, hi) + 1
             /\ RunEnd(b, at, hi) + 1 <= hi + 1
  BY <1>1, FirstRun
<1>2. 0 \in S
  <2> DEFINE f == [at \in hi + 1 .. hi + 1 |-> <<>>]
  <2>1. \A at \in hi + 1 .. hi + 1 : at \in Nat /\ at = hi + 1
    OBVIOUS
  <2>2. MembersFrom(b, hi + 1, hi) = {}
    BY DEF MembersFrom
  <2>3. RunsBy(f, b, hi, hi + 1)
    BY <2>1, <2>2 DEF RunsBy
  <2>4. hi + 1 - 0 = hi + 1 /\ 0 \in 0 .. hi + 1
    OBVIOUS
  <2>. HIDE DEF f
  <2>. QED  BY <2>3, <2>4
<1>3. ASSUME NEW n \in 0 .. hi + 1 - 1, n \in S
      PROVE  n + 1 \in S
  <2> DEFINE D == hi + 1 - n .. hi + 1
             E == hi + 1 - (n + 1) .. hi + 1
  <2>1. PICK f : RunsBy(f, b, hi, hi + 1 - n)
    BY <1>3
  <2> DEFINE Body(h, at) == IF MembersFrom(b, at, hi) = {} THEN <<>>
                            ELSE <<<<RunStart(b, at, hi), RunEnd(b, at, hi)>>>> \o h[RunEnd(b, at, hi) + 1]
             g == [at \in E |-> IF at \in D THEN f[at] ELSE Body(f, at)]
  <2>2. f = [at \in D |-> Body(f, at)]
    BY <2>1 DEF RunsBy
  <2>3. ASSUME NEW at \in E
        PROVE  g[at] = Body(g, at)
    <3>1. g[at] = Body(f, at)
      <4>1. at \in D => f[at] = Body(f, at)
        <5>. HIDE DEF Body, D
        <5>. QED  BY <2>2
      <4>2. g[at] = IF at \in D THEN f[at] ELSE Body(f, at)
        <5>. HIDE DEF Body, D
        <5>. QED  OBVIOUS
      <4>. HIDE DEF g, Body, D
      <4>. QED  BY <4>1, <4>2
    <3>2. ASSUME MembersFrom(b, at, hi) # {}
          PROVE  g[RunEnd(b, at, hi) + 1] = f[RunEnd(b, at, hi) + 1]
      <4>1. at \in Nat
        OBVIOUS
      <4>2. /\ RunEnd(b, at, hi) + 1 \in Nat /\ at < RunEnd(b, at, hi) + 1
            /\ RunEnd(b, at, hi) + 1 <= hi + 1
        BY <1>1, <3>2, <4>1
      <4>3. RunEnd(b, at, hi) + 1 \in D /\ RunEnd(b, at, hi) + 1 \in E
        BY <4>1, <4>2
      <4>. HIDE DEF Body, D, E
      <4>. QED  BY <4>3
    <3>. HIDE DEF g
    <3>. QED  BY <3>1, <3>2
  <2>4. g = [at \in E |-> Body(g, at)]
    <3>1. g = [at \in E |-> g[at]]
      <4>. HIDE DEF Body, D, E
      <4>. QED  OBVIOUS
    <3>. HIDE DEF g, Body, E
    <3>. QED  BY <2>3, <3>1
  <2>5. RunsBy(g, b, hi, hi + 1 - (n + 1))
    <3>. HIDE DEF g
    <3>. QED  BY <2>4 DEF RunsBy
  <2>6. n + 1 \in 0 .. hi + 1
    OBVIOUS
  <2>. HIDE DEF g
  <2>. QED  BY <2>5, <2>6
<1>. HIDE DEF Some
<1>4. hi + 1 \in S
  <2>1. hi + 1 \in Nat /\ hi + 1 \in 0 .. hi + 1
    OBVIOUS
  <2>. HIDE DEF S
  <2>2. 0 .. hi + 1 \subseteq S
    BY <1>2, <1>3, <2>1, IntervalInduction
  <2>. QED  BY <2>1, <2>2
<1>5. hi + 1 - (hi + 1) = 0
  OBVIOUS
<1>. QED  BY <1>4, <1>5 DEF Some

(***************************************************************************)
(* The runs of the members from lo to hi: all of them, ascending, no two   *)
(* touching.                                                               *)
(***************************************************************************)
RunsExact(b, lo, hi, runs) ==
    /\ runs \in Seq(Nat \X Nat)
    /\ \A i \in 1 .. Len(runs) : /\ lo <= runs[i][1] /\ runs[i][1] <= runs[i][2] /\ runs[i][2] <= hi
                                 /\ \A s \in runs[i][1] .. runs[i][2] : s \in BitMembers(b)
    /\ \A s \in BitMembers(b) :
          lo <= s /\ s <= hi => \E i \in 1 .. Len(runs) : s \in runs[i][1] .. runs[i][2]
    /\ \A i \in 1 .. Len(runs) - 1 : runs[i][2] + 1 < runs[i + 1][1]

(* The elements of two sequences put together.                             *)
LEMMA PutTogether ==
    ASSUME NEW T, NEW s \in Seq(T), NEW t \in Seq(T)
    PROVE  /\ s \o t \in Seq(T) /\ Len(s \o t) = Len(s) + Len(t)
           /\ \A i \in 1 .. Len(s) + Len(t) : (s \o t)[i] = IF i <= Len(s) THEN s[i] ELSE t[i - Len(s)]
OBVIOUS

(* An element before a sequence.                                           *)
LEMMA OnePut ==
    ASSUME NEW T, NEW x \in T, NEW t \in Seq(T)
    PROVE  /\ <<x>> \o t \in Seq(T) /\ Len(<<x>> \o t) = Len(t) + 1 /\ (<<x>> \o t)[1] = x
           /\ \A i \in 1 .. Len(t) : (<<x>> \o t)[i + 1] = t[i]
<1> DEFINE one == <<x>>
           r == one \o t
<1>1. one \in Seq(T) /\ Len(one) = 1 /\ one[1] = x /\ Len(t) \in Nat
  OBVIOUS
<1>. HIDE DEF one
<1>2. /\ r \in Seq(T) /\ Len(r) = 1 + Len(t)
      /\ \A i \in 1 .. 1 + Len(t) : r[i] = IF i <= 1 THEN one[i] ELSE t[i - 1]
  <2>1. /\ r \in Seq(T) /\ Len(r) = Len(one) + Len(t)
        /\ \A i \in 1 .. Len(one) + Len(t) : r[i] = IF i <= Len(one) THEN one[i] ELSE t[i - Len(one)]
    <3>1. one \in Seq(T)
      BY <1>1
    <3>. QED  BY <3>1, PutTogether
  <2>2. Len(one) = 1
    BY <1>1
  <2>. HIDE DEF r
  <2>. QED  BY <2>1, <2>2
<1>. HIDE DEF r
<1>3. 1 \in 1 .. 1 + Len(t) /\ 1 + Len(t) = Len(t) + 1
  BY <1>1
<1>4. \A i \in 1 .. Len(t) : i + 1 \in 1 .. 1 + Len(t) /\ ~(i + 1 <= 1) /\ (i + 1) - 1 = i
  BY <1>1
<1>. QED  BY <1>1, <1>2, <1>3, <1>4 DEF r, one

(* One run before the others.                                              *)
LEMMA RunPut ==
    ASSUME NEW b \in Bitmaps, NEW hi \in Nat, NEW at \in Nat, MembersFrom(b, at, hi) # {},
           NEW t, RunsExact(b, RunEnd(b, at, hi) + 1, hi, t)
    PROVE  RunsExact(b, at, hi, <<<<RunStart(b, at, hi), RunEnd(b, at, hi)>>>> \o t)
<1> DEFINE start == RunStart(b, at, hi)
           end == RunEnd(b, at, hi)
           one == <<<<start, end>>>>
           r == one \o t
           n == Len(t)
<1>1. /\ start \in Nat /\ end \in Nat /\ at <= start /\ start <= end /\ end <= hi
      /\ \A s \in start .. end : s \in BitMembers(b)
      /\ \A s \in BitMembers(b) : /\ at <= s /\ s <= hi => start <= s
                                  /\ s <= hi => s # end + 1
  BY FirstRun
<1>2. BitMembers(b) \in SUBSET Nat
  BY MembersAreBits
<1>. HIDE DEF start, end
<1>3. /\ t \in Seq(Nat \X Nat) /\ n \in Nat
      /\ \A i \in 1 .. n : /\ t[i] \in Nat \X Nat
                           /\ end + 1 <= t[i][1] /\ t[i][1] <= t[i][2] /\ t[i][2] <= hi
                           /\ \A s \in t[i][1] .. t[i][2] : s \in BitMembers(b)
      /\ \A s \in BitMembers(b) :
            end + 1 <= s /\ s <= hi => \E i \in 1 .. n : s \in t[i][1] .. t[i][2]
      /\ \A i \in 1 .. n - 1 : t[i][2] + 1 < t[i + 1][1]
  <2>1. t \in Seq(Nat \X Nat)
    BY DEF RunsExact
  <2>2. n \in Nat /\ \A i \in 1 .. n : t[i] \in Nat \X Nat
    BY <2>1
  <2>. QED  BY <2>1, <2>2 DEF RunsExact, end
<1>4. one \in Seq(Nat \X Nat) /\ Len(one) = 1 /\ one[1] = <<start, end>>
  BY <1>1
<1>. HIDE DEF one, n
<1>5. /\ r \in Seq(Nat \X Nat) /\ Len(r) = n + 1 /\ r[1] = <<start, end>>
      /\ \A i \in 1 .. n : r[i + 1] = t[i]
  <2>1. <<start, end>> \in Nat \X Nat
    BY <1>1
  <2> DEFINE x == <<start, end>>
  <2>2. r = <<x>> \o t
    BY DEF one
  <2>. HIDE DEF x, r
  <2>3. /\ r \in Seq(Nat \X Nat) /\ Len(r) = Len(t) + 1 /\ r[1] = x
        /\ \A i \in 1 .. Len(t) : r[i + 1] = t[i]
    <3>1. x \in Nat \X Nat
      BY <2>1 DEF x
    <3>. QED  BY <1>3, <2>2, <3>1, OnePut
  <2>. QED  BY <2>3 DEF n, x
<1>. HIDE DEF r
<1>6. \A i \in 1 .. n + 1 : i = 1 \/ (i - 1 \in 1 .. n /\ r[i] = t[i - 1])
  <2> SUFFICES ASSUME NEW i \in 1 .. n + 1, i # 1
               PROVE  i - 1 \in 1 .. n /\ r[i] = t[i - 1]
    OBVIOUS
  <2>1. i - 1 \in 1 .. n /\ (i - 1) + 1 = i
    BY <1>3
  <2>. QED  BY <1>5, <2>1
<1>7. r[1][1] = start /\ r[1][2] = end
  BY <1>5
<1>8. ASSUME NEW i \in 1 .. n + 1
      PROVE  /\ at <= r[i][1] /\ r[i][1] <= r[i][2] /\ r[i][2] <= hi
             /\ \A s \in r[i][1] .. r[i][2] : s \in BitMembers(b)
  <2>1. CASE i = 1
    BY <1>1, <1>7, <2>1
  <2>2. CASE i # 1
    <3>1. i - 1 \in 1 .. n /\ r[i] = t[i - 1]
      BY <1>6, <2>2
    <3>2. /\ t[i - 1][1] \in Nat /\ end + 1 <= t[i - 1][1] /\ t[i - 1][1] <= t[i - 1][2] /\ t[i - 1][2] <= hi
          /\ \A s \in t[i - 1][1] .. t[i - 1][2] : s \in BitMembers(b)
      BY <1>3, <3>1
    <3>3. at <= t[i - 1][1]
      BY <1>1, <3>2
    <3>. QED  BY <3>1, <3>2, <3>3
  <2>. QED  BY <2>1, <2>2
<1>9. ASSUME NEW s \in BitMembers(b), at <= s, s <= hi
      PROVE  \E i \in 1 .. n + 1 : s \in r[i][1] .. r[i][2]
  <2>1. s \in Nat /\ start <= s
    BY <1>1, <1>2, <1>9
  <2>2. CASE s <= end
    <3>1. s \in r[1][1] .. r[1][2] /\ 1 \in 1 .. n + 1
      BY <1>1, <1>3, <1>7, <2>1, <2>2
    <3>. QED  BY <3>1
  <2>3. CASE ~(s <= end)
    <3>1. end + 1 <= s
      BY <1>1, <2>1, <2>3
    <3>2. PICK i \in 1 .. n : s \in t[i][1] .. t[i][2]
      BY <1>3, <1>9, <3>1
    <3>3. i + 1 \in 1 .. n + 1 /\ r[i + 1] = t[i]
      BY <1>3, <1>5
    <3>. QED  BY <3>2, <3>3
  <2>. QED  BY <2>2, <2>3
<1>10. ASSUME NEW i \in 1 .. n
       PROVE  r[i][2] + 1 < r[i + 1][1]
  <2>1. r[i + 1] = t[i]
    BY <1>5
  <2>2. CASE i = 1
    <3>1. /\ t[1][1] \in Nat /\ t[1][2] \in Nat
          /\ end + 1 <= t[1][1] /\ t[1][1] <= t[1][2] /\ t[1][2] <= hi
          /\ \A s \in t[1][1] .. t[1][2] : s \in BitMembers(b)
      BY <1>3, <2>2
    <3>2. t[1][1] \in BitMembers(b) /\ t[1][1] <= hi
      BY <3>1
    <3>3. t[1][1] # end + 1
      BY <1>1, <3>2
    <3>4. end + 1 < t[1][1]
      BY <1>1, <3>1, <3>3
    <3>. QED  BY <1>7, <2>1, <2>2, <3>4
  <2>3. CASE i # 1
    <3>1. i \in 1 .. n + 1 /\ i - 1 \in 1 .. n - 1 /\ (i - 1) + 1 = i
      BY <1>3, <2>3
    <3>2. r[i] = t[i - 1]
      BY <1>6, <2>3, <3>1
    <3>. QED  BY <1>3, <2>1, <3>1, <3>2
  <2>. QED  BY <2>2, <2>3
<1>11. Len(r) - 1 = n /\ Len(r) = n + 1
  BY <1>3, <1>5
<1>12. RunsExact(b, at, hi, r)
  BY <1>5, <1>8, <1>9, <1>10, <1>11 DEF RunsExact
<1>. QED  BY <1>12 DEF r, one, start, end

(* each_run lists the runs.                                                *)
LEMMA EachRunExact ==
    ASSUME NEW b \in Bitmaps, NEW hi \in Nat, NEW lo \in 0 .. hi + 1
    PROVE  RunsExact(b, lo, hi, each_run(b, lo, hi))
<1>0. ASSUME NEW at \in Nat, MembersFrom(b, at, hi) = {}
      PROVE  RunsExact(b, at, hi, <<>>)
  <2>1. \A s \in BitMembers(b) : ~(at <= s /\ s <= hi)
    <3>1. \A s \in BitMembers(b) : s \in Nat /\ contains(b, s)
      BY MembersAreBits
    <3>2. \A s \in Nat : s \in at .. hi <=> at <= s /\ s <= hi
      OBVIOUS
    <3>. QED  BY <1>0, <3>1, <3>2 DEF MembersFrom
  <2>2. Len(<<>>) = 0 /\ <<>> \in Seq(Nat \X Nat)
    OBVIOUS
  <2>. QED  BY <2>1, <2>2 DEF RunsExact
<1>1. CASE lo > hi
  <2>1. lo = hi + 1 /\ lo \in Nat
    BY <1>1
  <2>2. MembersFrom(b, lo, hi) = {}
    BY <2>1 DEF MembersFrom
  <2>3. each_run(b, lo, hi) = <<>>
    BY <1>1 DEF each_run
  <2>. QED  BY <1>0, <2>1, <2>2, <2>3
<1>2. CASE ~(lo > hi)
  <2> DEFINE f == CHOOSE g : RunsBy(g, b, hi, 0)
             S == {n \in 0 .. hi + 1 : \A at \in 0 .. hi + 1 :
                                          hi + 1 - n <= at => RunsExact(b, at, hi, f[at])}
  <2>1. lo \in 0 .. hi
    BY <1>2
  <2>2. each_run(b, lo, hi) = f[lo]
    BY <2>1, RunsAreBy
  <2>3. RunsBy(f, b, hi, 0)
    BY RunsExist
  <2>. HIDE DEF f
  <2>4. \A at \in 0 .. hi + 1 :
           f[at] = IF MembersFrom(b, at, hi) = {} THEN <<>>
                   ELSE <<<<RunStart(b, at, hi), RunEnd(b, at, hi)>>>> \o f[RunEnd(b, at, hi) + 1]
    BY <2>3 DEF RunsBy
  <2>5. ASSUME NEW n \in Int, NEW at \in 0 .. hi + 1, hi + 1 - n <= at,
               \A x \in 0 .. hi + 1 : hi + 1 - n < x => RunsExact(b, x, hi, f[x])
        PROVE  RunsExact(b, at, hi, f[at])
    <3>1. CASE MembersFrom(b, at, hi) = {}
      <4>1. at \in Nat /\ f[at] = <<>>
        <5>1. at \in Nat
          OBVIOUS
        <5>2. f[at] = <<>>
          BY <2>4, <3>1, Zenon
        <5>. QED  BY <5>1, <5>2
      <4>2. RunsExact(b, at, hi, <<>>)
        BY <1>0, <3>1, <4>1
      <4>. QED  BY <4>1, <4>2
    <3>2. CASE MembersFrom(b, at, hi) # {}
      <4> DEFINE x == RunEnd(b, at, hi) + 1
      <4>1. x \in 0 .. hi + 1 /\ at < x /\ at \in Nat
        <5>1. at \in Nat
          OBVIOUS
        <5>2. RunEnd(b, at, hi) \in Nat /\ at <= RunEnd(b, at, hi) /\ RunEnd(b, at, hi) <= hi
          <6>1. /\ RunStart(b, at, hi) \in Nat /\ RunEnd(b, at, hi) \in Nat
                /\ at <= RunStart(b, at, hi) /\ RunStart(b, at, hi) <= RunEnd(b, at, hi)
                /\ RunEnd(b, at, hi) <= hi
            BY <3>2, <5>1, FirstRun
          <6>. QED  BY <5>1, <6>1
        <5>. QED  BY <5>1, <5>2
      <4>2. RunsExact(b, x, hi, f[x])
        BY <2>5, <4>1
      <4>3. f[at] = <<<<RunStart(b, at, hi), RunEnd(b, at, hi)>>>> \o f[x]
        BY <2>4, <3>2
      <4>. QED  BY <3>2, <4>1, <4>2, <4>3, RunPut
    <3>. QED  BY <3>1, <3>2
  <2>6. 0 \in S
    <3>1. \A at \in 0 .. hi + 1 : hi + 1 - 0 <= at => RunsExact(b, at, hi, f[at])
      <4> SUFFICES ASSUME NEW at \in 0 .. hi + 1, hi + 1 - 0 <= at
                   PROVE  RunsExact(b, at, hi, f[at])
        OBVIOUS
      <4>1. \A x \in 0 .. hi + 1 : ~(hi + 1 - 0 < x)
        OBVIOUS
      <4>2. 0 \in Int /\ \A x \in 0 .. hi + 1 : hi + 1 - 0 < x => RunsExact(b, x, hi, f[x])
        BY <4>1
      <4>. QED  BY <2>5, <4>2
    <3>2. 0 \in 0 .. hi + 1
      OBVIOUS
    <3>. QED  BY <3>1, <3>2
  <2>7. ASSUME NEW n \in 0 .. hi + 1 - 1, n \in S
        PROVE  n + 1 \in S
    <3>1. \A at \in 0 .. hi + 1 : hi + 1 - n <= at => RunsExact(b, at, hi, f[at])
      BY <2>7
    <3>2. ASSUME NEW at \in 0 .. hi + 1, hi + 1 - (n + 1) <= at
          PROVE  RunsExact(b, at, hi, f[at])
      <4>1. \A x \in 0 .. hi + 1 : hi + 1 - (n + 1) < x => hi + 1 - n <= x
        OBVIOUS
      <4>2. n + 1 \in Int
        OBVIOUS
      <4>. QED  BY <2>5, <3>1, <3>2, <4>1, <4>2
    <3>3. n + 1 \in 0 .. hi + 1
      OBVIOUS
    <3>. QED  BY <3>2, <3>3
  <2>8. hi + 1 \in S
    <3>1. hi + 1 \in Nat /\ hi + 1 \in 0 .. hi + 1
      OBVIOUS
    <3>. HIDE DEF S
    <3>2. 0 .. hi + 1 \subseteq S
      BY <2>6, <2>7, <3>1, IntervalInduction
    <3>. QED  BY <3>1, <3>2
  <2>9. lo \in 0 .. hi + 1 /\ hi + 1 - (hi + 1) <= lo
    OBVIOUS
  <2>10. RunsExact(b, lo, hi, f[lo])
    BY <2>8, <2>9
  <2>. QED  BY <2>2, <2>10
<1>. QED  BY <1>1, <1>2

(* The frontier of a set of delivered seqs.                                *)
PointOf(S) == Min({s \in 0 .. LastSeq + 1 : s \notin S})

(* All below the frontier is delivered, the frontier is not.               *)
LEMMA PointFound ==
    ASSUME NEW S \in SUBSET (0 .. LastSeq)
    PROVE  /\ LastSeq \in Nat /\ PointOf(S) \in Nat /\ PointOf(S) <= LastSeq + 1
           /\ PointOf(S) \notin S
           /\ \A s \in Nat : s < PointOf(S) => s \in S
<1> DEFINE H == {s \in 0 .. LastSeq + 1 : s \notin S}
<1>1. LastSeq \in Nat
  BY LedgerAssumption DEF LedgerAssumption
<1>2. H \in SUBSET Nat /\ LastSeq + 1 \in H
  BY <1>1
<1>3. Min(H) \in H /\ \A s \in H : Min(H) <= s
  <2>1. H # {}
    BY <1>2
  <2>. HIDE DEF H
  <2>. QED  BY <1>2, <2>1, LeastIsMin
<1>4. PointOf(S) = Min(H)
  BY DEF PointOf
<1>5. PointOf(S) \in H /\ \A s \in H : PointOf(S) <= s
  BY <1>3, <1>4
<1>6. \A s \in Nat : s < PointOf(S) => s \in S
  <2>1. PointOf(S) \in Nat /\ PointOf(S) <= LastSeq + 1
    BY <1>1, <1>5
  <2>2. \A s \in Nat : s < PointOf(S) => s \in 0 .. LastSeq + 1 /\ ~(PointOf(S) <= s)
    BY <1>1, <2>1
  <2>. QED  BY <1>5, <2>2
<1>. QED  BY <1>1, <1>5, <1>6

(* The point only moves up.                                                *)
LEMMA PointGrows ==
    ASSUME NEW S \in SUBSET (0 .. LastSeq), NEW R \in SUBSET S
    PROVE  PointOf(R) <= PointOf(S)
<1>1. /\ PointOf(S) \in Nat /\ PointOf(S) \notin S
  BY PointFound
<1>2. R \in SUBSET (0 .. LastSeq)
  OBVIOUS
<1>3. PointOf(R) \in Nat /\ \A s \in Nat : s < PointOf(R) => s \in R
  BY <1>2, PointFound
<1>4. ~(PointOf(S) < PointOf(R))
  BY <1>1, <1>3
<1>. QED  BY <1>1, <1>3, <1>4

-----------------------------------------------------------------------------
(* The members from a seq up.                                              *)
From(b, f) == {s \in BitMembers(b) : s >= f}

(* What the counter should hold.                                           *)
Counted(a, b) == /\ a \in [frontier : Nat, count : Nat]
                 /\ a.count = Cardinality(From(b, a.frontier))

(* The members of a bitmap, cut at a seq.                                  *)
LEMMA FromSplits ==
    ASSUME NEW b \in Bitmaps, NEW f \in Nat, NEW g \in Nat, f <= g
    PROVE  /\ Cardinality(From(b, f)) \in Nat /\ Cardinality(From(b, g)) \in Nat
           /\ count_in(b, f, g) \in Nat
           /\ Cardinality(From(b, f)) = count_in(b, f, g) + Cardinality(From(b, g))
<1>1. /\ BitMembers(b) \in SUBSET Nat /\ IsFiniteSet(BitMembers(b))
  BY MembersAreBits
<1>2. IsFiniteSet(From(b, f)) /\ IsFiniteSet(From(b, g))
  BY <1>1, FS_Subset DEF From
<1>3. /\ count_in(b, f, g) = Cardinality(Between(b, f, g))
      /\ IsFiniteSet(Between(b, f, g)) /\ Cardinality(Between(b, f, g)) \in Nat
  BY CountsBetween
<1>4. /\ From(b, f) = Between(b, f, g) \cup From(b, g)
      /\ Between(b, f, g) \cap From(b, g) = {}
  BY <1>1 DEF From, Between
<1>5. Cardinality(From(b, f)) = Cardinality(Between(b, f, g)) + Cardinality(From(b, g))
  BY <1>2, <1>3, <1>4, CountParts
<1>6. Cardinality(From(b, f)) \in Nat /\ Cardinality(From(b, g)) \in Nat
  BY <1>2, FS_CardinalityType
<1>. QED  BY <1>3, <1>5, <1>6

(* The counter brought to another frontier counts from there.              *)
LEMMA SyncCounts ==
    ASSUME NEW b \in Bitmaps, NEW a, Counted(a, b), NEW point \in Nat
    PROVE  Counted(sync(a, b, point), b) /\ sync(a, b, point).frontier = point
<1> DEFINE f == a.frontier
           c == Cardinality(From(b, point))
<1>1. f \in Nat /\ a.count \in Nat /\ a.count = Cardinality(From(b, f))
  BY DEF Counted
<1>2. c \in Nat /\ sync(a, b, point) = [frontier |-> point, count |-> c]
  <2>1. CASE point > f
    <3>1. f <= point
      BY <1>1, <2>1
    <3>2. count_in(b, f, point) \in Nat /\ c \in Nat /\ a.count = count_in(b, f, point) + c
      BY <1>1, <3>1, FromSplits
    <3>. HIDE DEF c
    <3>3. Monus(a.count, count_in(b, f, point)) = c
      BY <1>1, <3>2 DEF Monus
    <3>. QED  BY <2>1, <3>2, <3>3 DEF sync
  <2>2. CASE ~(point > f)
    <3>1. point <= f
      BY <1>1, <2>2
    <3>2. count_in(b, point, f) \in Nat /\ c \in Nat /\ c = count_in(b, point, f) + a.count
      BY <1>1, <3>1, FromSplits
    <3>. HIDE DEF c
    <3>3. a.count + count_in(b, point, f) = c
      BY <1>1, <3>2
    <3>. QED  BY <2>2, <3>2, <3>3 DEF sync
  <2>. QED  BY <2>1, <2>2
<1>. QED  BY <1>2 DEF Counted

(* A seq just recorded, and the counter with it.                           *)
LEMMA InsertCounts ==
    ASSUME NEW b, SoundBits(b), NEW a, Counted(a, b), NEW seq \in Nat, seq \notin BitMembers(b),
           NEW done, Inserted(b, seq, done)
    PROVE  Counted(IF done.newly /\ seq >= a.frontier THEN [a EXCEPT !.count = @ + 1] ELSE a,
                   done.bits)
<1> DEFINE f == a.frontier
           n == IF done.newly /\ seq >= a.frontier THEN [a EXCEPT !.count = @ + 1] ELSE a
<1>1. /\ f \in Nat /\ a.count \in Nat /\ a.count = Cardinality(From(b, f))
      /\ a \in [frontier : Nat, count : Nat]
  BY DEF Counted
<1>2. b \in Bitmaps /\ BitMembers(b) \in SUBSET Nat /\ IsFiniteSet(BitMembers(b))
  BY MembersAreBits DEF SoundBits
<1>3. CASE done.newly /\ seq >= f
  <2>1. BitMembers(done.bits) = BitMembers(b) \cup {seq}
    BY <1>3 DEF Inserted
  <2>2. From(done.bits, f) = From(b, f) \cup {seq} /\ seq \notin From(b, f)
    BY <1>3, <2>1 DEF From
  <2>3. IsFiniteSet(From(b, f))
    BY <1>2, FS_Subset DEF From
  <2>4. Cardinality(From(done.bits, f)) = Cardinality(From(b, f)) + 1
    BY <2>2, <2>3, FS_AddElement
  <2>5. n = [a EXCEPT !.count = @ + 1]
    BY <1>3
  <2>6. n \in [frontier : Nat, count : Nat] /\ n.frontier = f /\ n.count = a.count + 1
    BY <1>1, <2>5
  <2>. HIDE DEF n
  <2>7. Counted(n, done.bits)
    BY <1>1, <2>4, <2>6 DEF Counted
  <2>. QED  BY <2>7 DEF n
<1>4. CASE ~(done.newly /\ seq >= f)
  <2>1. From(done.bits, f) = From(b, f)
    <3>1. CASE ~(seq >= f)
      BY <3>1 DEF From, Inserted
    <3>2. CASE ~done.newly
      BY <3>2 DEF From, Inserted
    <3>. QED  BY <1>4, <3>1, <3>2
  <2>2. n = a
    BY <1>4
  <2>. QED  BY <1>1, <2>1, <2>2 DEF Counted
<1>. QED  BY <1>3, <1>4

(***************************************************************************)
(* The receiver's books: the bitmap is sound and holds the plain set, the  *)
(* counter counts it from its frontier, and all of it was delivered.       *)
(***************************************************************************)
ReceiverBooks ==
    /\ recovered \in SUBSET (0 .. LastSeq)
    /\ SoundBits(received_seqs)
    /\ BitMembers(received_seqs) = plain
    /\ plain \subseteq recovered
    /\ Counted(above, received_seqs)

(* It holds at the start.                                                  *)
LEMMA ReceiverBooksInit == LedgerInit => ReceiverBooks
<1> SUFFICES ASSUME LedgerInit PROVE ReceiverBooks
  OBVIOUS
<1>1. aligned(0) = 0
  <2>1. aligned(0) \in Nat /\ aligned(0) <= 0
    BY AlignedBelow
  <2>. QED  BY <2>1
<1>2. SoundBits(EmptyBits) /\ BitMembers(EmptyBits) = {}
  BY <1>1, NoBits DEF EmptyBits
<1>3. received_seqs = EmptyBits /\ plain = {} /\ recovered = {} /\ above = [frontier |-> 0, count |-> 0]
  BY DEF LedgerInit
<1>4. From(received_seqs, 0) = {}
  BY <1>2, <1>3 DEF From
<1>5. Counted(above, received_seqs)
  BY <1>3, <1>4, FS_EmptySet DEF Counted
<1>. QED  BY <1>2, <1>3, <1>5 DEF ReceiverBooks

(* The plain set accepts what the bitmap accepts.                          *)
LEMMA AcceptsAlike ==
    ASSUME SoundBits(received_seqs), NEW seq
    PROVE  AcceptsPlain(seq) <=> Accepts(received_seqs, seq)
BY DEF SoundBits, AcceptsPlain, Accepts

(* A symbol keeps it.                                                      *)
LEMMA ReceiverBooksSymbol ==
    ASSUME ReceiverBooks, NEW seq \in 0 .. LastSeq, SymbolArrives(seq)
    PROVE  ReceiverBooks'
<1> DEFINE b       == received_seqs
           done    == bits_insert(b, seq)
           counted == IF done.newly /\ seq >= above.frontier
                      THEN [above EXCEPT !.count = @ + 1] ELSE above
           point   == PointOf(recovered')
<1>1. /\ recovered \in SUBSET (0 .. LastSeq) /\ SoundBits(b) /\ BitMembers(b) = plain
      /\ plain \subseteq recovered /\ Counted(above, b)
  BY DEF ReceiverBooks
<1>2. seq \in Nat /\ seq \notin recovered /\ seq \notin BitMembers(b)
  BY <1>1 DEF SymbolArrives
<1>3. /\ received_seqs' = done.bits /\ above' = sync(counted, done.bits, point)
      /\ recovered' = recovered \cup {seq}
      /\ plain' = IF AcceptsPlain(seq) THEN plain \cup {seq} ELSE plain
  BY DEF SymbolArrives, PointOf, cumulative_point
<1>4. recovered' \in SUBSET (0 .. LastSeq)
  BY <1>1, <1>3
<1>5. point \in Nat
  BY <1>4, PointFound
<1>6. Inserted(b, seq, done)
  BY <1>1, <1>2, InsertIsExact
<1>. HIDE DEF done, point
<1>7. Counted(counted, done.bits)
  BY <1>1, <1>2, <1>6, InsertCounts
<1>. HIDE DEF counted
<1>8. SoundBits(done.bits) /\ done.bits \in Bitmaps
  BY <1>6 DEF Inserted, SoundBits
<1>9. Counted(above', received_seqs')
  BY <1>3, <1>5, <1>7, <1>8, SyncCounts
<1>10. BitMembers(received_seqs') = plain'
  <2>1. AcceptsPlain(seq) <=> Accepts(b, seq)
    BY <1>1, AcceptsAlike
  <2>2. BitMembers(done.bits) = IF Accepts(b, seq) THEN BitMembers(b) \cup {seq} ELSE BitMembers(b)
    BY <1>6 DEF Inserted
  <2>. QED  BY <1>1, <1>3, <2>1, <2>2
<1>11. plain' \subseteq recovered'
  BY <1>1, <1>3
<1>. QED  BY <1>3, <1>4, <1>8, <1>9, <1>10, <1>11 DEF ReceiverBooks

(* The floor of a prune is not above the cumulative point.                 *)
LEMMA FloorBelow ==
    ASSUME NEW point \in Nat
    PROVE  /\ decode_inert_floor(point, LedgerWinCap) \in Nat
           /\ decode_inert_floor(point, LedgerWinCap) <= point
BY LedgerAssumption DEF LedgerAssumption, decode_inert_floor, Monus

(* A prune keeps it.                                                       *)
LEMMA ReceiverBooksPrune ==
    ASSUME ReceiverBooks, PruneReceived
    PROVE  ReceiverBooks'
<1> DEFINE b     == received_seqs
           point == PointOf(recovered)
           floor == decode_inert_floor(point, LedgerWinCap)
           cut   == bits_prune_below(b, floor)
<1>1. /\ recovered \in SUBSET (0 .. LastSeq) /\ SoundBits(b) /\ BitMembers(b) = plain
      /\ plain \subseteq recovered /\ Counted(above, b)
  BY DEF ReceiverBooks
<1>2. /\ received_seqs' = cut /\ above' = sync(above, b, point) /\ recovered' = recovered
      /\ plain' = {s \in plain : s >= floor}
  BY DEF PruneReceived, PointOf, cumulative_point
<1>3. point \in Nat
  BY <1>1, PointFound
<1>. HIDE DEF point
<1>4. floor \in Nat /\ floor <= point
  BY <1>3, FloorBelow
<1>. HIDE DEF floor
<1>5. SoundBits(cut) /\ BitMembers(cut) = {s \in BitMembers(b) : s >= floor}
  BY <1>1, <1>4, PruneIsExact
<1>6. b \in Bitmaps /\ BitMembers(b) \in SUBSET Nat
  BY <1>1, MembersAreBits DEF SoundBits
<1>7. Counted(above', b) /\ above'.frontier = point
  BY <1>1, <1>2, <1>3, <1>6, SyncCounts
<1>8. From(cut, point) = From(b, point)
  <2>1. \A s \in BitMembers(b) : s \in Nat
    BY <1>6
  <2>2. \A s \in Nat : s >= point => s >= floor
    BY <1>3, <1>4
  <2>. QED  BY <1>5, <2>1, <2>2 DEF From
<1>. HIDE DEF cut
<1>9. Counted(above', cut)
  BY <1>7, <1>8 DEF Counted
<1>10. plain' \subseteq recovered' /\ BitMembers(cut) = plain'
  BY <1>1, <1>2, <1>5
<1>. QED  BY <1>1, <1>2, <1>5, <1>9, <1>10 DEF ReceiverBooks

(* Every step keeps it.                                                    *)
LEMMA ReceiverBooksStep ==
    ASSUME ReceiverBooks, [LedgerNext]_ledgerVars
    PROVE  ReceiverBooks'
<1>0. ASSUME UNCHANGED receiverBooks
      PROVE  ReceiverBooks'
  <2>1. /\ recovered' = recovered /\ received_seqs' = received_seqs /\ above' = above
        /\ plain' = plain
    BY <1>0 DEF receiverBooks
  <2>. QED  BY <2>1 DEF ReceiverBooks
<1>1. ASSUME NEW s \in 0 .. LastSeq, SymbolArrives(s)
      PROVE  ReceiverBooks'
  BY <1>1, ReceiverBooksSymbol
<1>2. CASE PruneReceived
  BY <1>2, ReceiverBooksPrune
<1>3. CASE EmitSource
  BY <1>0, <1>3 DEF EmitSource
<1>4. ASSUME NEW report \in wire, NEW repeated \in BOOLEAN, AckArrives(report, repeated)
      PROVE  ReceiverBooks'
  BY <1>0, <1>4 DEF AckArrives
<1>5. CASE ReportLost
  BY <1>0, <1>5 DEF ReportLost
<1>6. CASE DrainSack
  BY <1>0, <1>6 DEF DrainSack
<1>7. CASE OnAckAdvance
  BY <1>0, <1>7 DEF OnAckAdvance
<1>8. CASE UNCHANGED ledgerVars
  BY <1>0, <1>8 DEF ledgerVars, receiverBooks
<1>. QED  BY <1>1, <1>2, <1>3, <1>4, <1>5, <1>6, <1>7, <1>8 DEF LedgerNext

-----------------------------------------------------------------------------
(* What the runs of a bitmap span.                                         *)
LEMMA RunsSpan ==
    ASSUME NEW b \in Bitmaps, NEW lo \in Nat, NEW hi \in Int, NEW runs, RunsExact(b, lo, hi, runs)
    PROVE  Spans(ToSet(runs)) = {s \in BitMembers(b) : lo <= s /\ s <= hi}
<1>1. /\ runs \in Seq(Nat \X Nat) /\ Len(runs) \in Nat /\ DOMAIN runs = 1 .. Len(runs)
      /\ \A i \in 1 .. Len(runs) : runs[i] \in Nat \X Nat
  BY DEF RunsExact
<1>2. BitMembers(b) \in SUBSET Nat
  BY MembersAreBits
<1>3. ToSet(runs) = {runs[i] : i \in 1 .. Len(runs)}
  BY <1>1 DEF ToSet
<1>4. ASSUME NEW s \in Spans(ToSet(runs))
      PROVE  s \in BitMembers(b) /\ lo <= s /\ s <= hi
  <2>1. PICK i \in 1 .. Len(runs) : s \in runs[i][1] .. runs[i][2]
    BY <1>3 DEF Spans
  <2>2. /\ lo <= runs[i][1] /\ runs[i][2] <= hi
        /\ \A t \in runs[i][1] .. runs[i][2] : t \in BitMembers(b)
    BY DEF RunsExact
  <2>3. runs[i][1] \in Nat /\ runs[i][2] \in Nat
    BY <1>1
  <2>4. lo <= s /\ s <= hi
    BY <2>1, <2>2, <2>3
  <2>. QED  BY <2>1, <2>2, <2>4
<1>5. ASSUME NEW s \in BitMembers(b), lo <= s, s <= hi
      PROVE  s \in Spans(ToSet(runs))
  <2>1. PICK i \in 1 .. Len(runs) : s \in runs[i][1] .. runs[i][2]
    BY <1>5 DEF RunsExact
  <2>2. runs[i] \in ToSet(runs)
    BY <1>3
  <2>. QED  BY <2>1, <2>2 DEF Spans
<1>. QED  BY <1>4, <1>5

(* The bitmap is the plain set.                                            *)
LEMMA BooksMakeBitsExact == ReceiverBooks => BitsExact
<1> SUFFICES ASSUME ReceiverBooks PROVE BitsExact
  OBVIOUS
<1> DEFINE b == received_seqs
<1>1. /\ recovered \in SUBSET (0 .. LastSeq) /\ SoundBits(b) /\ BitMembers(b) = plain
      /\ plain \subseteq recovered /\ Counted(above, b)
  BY DEF ReceiverBooks
<1>2. b \in Bitmaps /\ b.len = Cardinality(plain) /\ plain \in SUBSET Nat
  BY <1>1, MembersAreBits DEF SoundBits
<1>3. above.count = Cardinality({s \in plain : s >= above.frontier})
  BY <1>1 DEF Counted, From
<1>4. LastSeq \in Nat
  BY LedgerAssumption DEF LedgerAssumption
<1>5. ASSUME NEW lo \in 0 .. LastSeq, NEW hi \in lo .. LastSeq + 1
      PROVE  count_in(b, lo, hi) = Cardinality({s \in plain : lo <= s /\ s < hi})
  <2>1. lo \in Nat /\ hi \in Nat
    BY <1>4
  <2>2. count_in(b, lo, hi) = Cardinality(Between(b, lo, hi))
    BY <1>2, <2>1, CountsBetween
  <2>. QED  BY <1>1, <2>2 DEF Between
<1>6. ASSUME NEW lo \in 0 .. LastSeq
      PROVE  LET runs == each_run(b, lo, LastSeq - 1)
             IN  /\ Spans(ToSet(runs)) = {s \in plain : lo <= s /\ s < LastSeq}
                 /\ \A i \in 1 .. Len(runs) - 1 : runs[i][2] + 1 < runs[i + 1][1]
  <2> DEFINE runs == each_run(b, lo, LastSeq - 1)
  <2>1. lo \in Nat /\ LastSeq - 1 \in Int
    BY <1>4
  <2>2. RunsExact(b, lo, LastSeq - 1, runs)
    <3>1. CASE LastSeq = 0
      <4>1. lo = 0 /\ LastSeq - 1 = -1 /\ lo > LastSeq - 1
        BY <1>4, <3>1
      <4>2. runs = <<>>
        BY <4>1 DEF each_run
      <4>. HIDE DEF runs
      <4>3. \A s \in BitMembers(b) : ~(lo <= s /\ s <= LastSeq - 1)
        <5>1. \A s \in Nat : ~(lo <= s /\ s <= LastSeq - 1)
          BY <4>1
        <5>. QED  BY <1>1, <1>2, <5>1, Zenon
      <4>4. Len(<<>>) = 0 /\ <<>> \in Seq(Nat \X Nat)
        OBVIOUS
      <4>. QED  BY <4>2, <4>3, <4>4 DEF RunsExact
    <3>2. CASE LastSeq # 0
      <4>1. LastSeq - 1 \in Nat /\ lo \in 0 .. (LastSeq - 1) + 1
        BY <1>4, <3>2
      <4>. QED  BY <1>2, <4>1, EachRunExact
    <3>. QED  BY <3>1, <3>2
  <2>. HIDE DEF runs
  <2>3. Spans(ToSet(runs)) = {s \in BitMembers(b) : lo <= s /\ s <= LastSeq - 1}
    BY <1>2, <2>1, <2>2, RunsSpan
  <2>4. \A s \in Nat : s <= LastSeq - 1 <=> s < LastSeq
    BY <1>4
  <2>5. Spans(ToSet(runs)) = {s \in plain : lo <= s /\ s < LastSeq}
    BY <1>1, <1>2, <2>3, <2>4
  <2>6. \A i \in 1 .. Len(runs) - 1 : runs[i][2] + 1 < runs[i + 1][1]
    BY <2>2 DEF RunsExact
  <2>. QED  BY <2>5, <2>6 DEF runs
<1>. QED  BY <1>1, <1>2, <1>3, <1>5, <1>6 DEF BitsExact

(* The ranges that speak of delivered seqs only.                           *)
TrueRanges(S) == {r \in Nat \X Nat : \A s \in r[1] .. r[2] : s \in S}

(***************************************************************************)
(* The reports: what is on the wire, waits at the sender or was merged     *)
(* there is true of what is delivered by now.                              *)
(***************************************************************************)
WireTrue ==
    /\ wire \subseteq [next_expected : 0 .. PointOf(recovered), ranges : Seq(TrueRanges(recovered))]
    /\ ack_seq \in 0 .. PointOf(recovered)
    /\ sack_rx \in Seq(Seq(TrueRanges(recovered)))

(* Sequences over a larger set.                                            *)
LEMMA LargerSeq ==
    ASSUME NEW T, NEW U, T \subseteq U, NEW s \in Seq(T)
    PROVE  s \in Seq(U)
<1>1. Len(s) \in Nat /\ s \in [1 .. Len(s) -> T]
  OBVIOUS
<1>2. s \in [1 .. Len(s) -> U]
  BY <1>1
<1>. QED  BY <1>1, <1>2

(* A prefix of a sequence.                                                 *)
LEMMA Prefix ==
    ASSUME NEW T, NEW s \in Seq(T), NEW n \in Nat, n <= Len(s)
    PROVE  SubSeq(s, 1, n) \in Seq(T)
OBVIOUS

(* What was true of what is delivered stays true.                          *)
LEMMA ReportsStayTrue ==
    ASSUME NEW R \in SUBSET (0 .. LastSeq), NEW S \in SUBSET (0 .. LastSeq), R \subseteq S
    PROVE  /\ PointOf(R) \in Nat /\ PointOf(S) \in Nat
           /\ 0 .. PointOf(R) \subseteq 0 .. PointOf(S)
           /\ Seq(TrueRanges(R)) \subseteq Seq(TrueRanges(S))
           /\ Seq(Seq(TrueRanges(R))) \subseteq Seq(Seq(TrueRanges(S)))
<1>1. PointOf(R) \in Nat /\ PointOf(S) \in Nat /\ PointOf(R) <= PointOf(S)
  BY PointFound, PointGrows
<1>2. TrueRanges(R) \subseteq TrueRanges(S)
  BY DEF TrueRanges
<1>3. Seq(TrueRanges(R)) \subseteq Seq(TrueRanges(S))
  BY <1>2, LargerSeq
<1>4. Seq(Seq(TrueRanges(R))) \subseteq Seq(Seq(TrueRanges(S)))
  BY <1>3, LargerSeq
<1>. QED  BY <1>1, <1>3, <1>4

(* A report made of the bitmap is true.                                    *)
LEMMA ReportIsTrue ==
    ASSUME NEW b \in Bitmaps, NEW S \in SUBSET (0 .. LastSeq), BitMembers(b) \subseteq S
    PROVE  Report(b, PointOf(S)) \in
              [next_expected : 0 .. PointOf(S), ranges : Seq(TrueRanges(S))]
<1> DEFINE point == PointOf(S)
           runs  == each_run(b, point, LastSeq)
           n     == Min({Len(runs), MaxSackRanges})
<1>1. LastSeq \in Nat /\ point \in 0 .. LastSeq + 1
  <2>1. LastSeq \in Nat /\ point \in Nat /\ point <= LastSeq + 1
    BY PointFound
  <2>. HIDE DEF point
  <2>. QED  BY <2>1
<1>. HIDE DEF point
<1>2. RunsExact(b, point, LastSeq, runs)
  BY <1>1, EachRunExact
<1>. HIDE DEF runs
<1>3. Len(runs) \in Nat /\ runs \in [1 .. Len(runs) -> Nat \X Nat]
  BY <1>2 DEF RunsExact
<1>4. \A i \in 1 .. Len(runs) : runs[i] \in TrueRanges(S)
  BY <1>2, <1>3 DEF RunsExact, TrueRanges
<1>5. runs \in Seq(TrueRanges(S))
  BY <1>3, <1>4
<1>6. n \in Nat /\ n <= Len(runs)
  <2>1. MaxSackRanges \in Nat
    BY LedgerAssumption DEF LedgerAssumption
  <2>2. n = IF Len(runs) <= MaxSackRanges THEN Len(runs) ELSE MaxSackRanges
    <3>1. Len(runs) \in Int /\ MaxSackRanges \in Int
      BY <1>3, <2>1
    <3>. QED  BY <3>1, OfTwo, Zenon
  <2>. HIDE DEF n
  <2>. QED  BY <1>3, <2>1, <2>2
<1>. HIDE DEF n
<1>7. SubSeq(runs, 1, n) \in Seq(TrueRanges(S))
  BY <1>5, <1>6, Prefix
<1>8. point \in 0 .. point
  BY <1>1
<1>9. Report(b, point) = [next_expected |-> point, ranges |-> SubSeq(runs, 1, n)]
  BY DEF Report, runs, n
<1>. QED  BY <1>7, <1>8, <1>9 DEF point

(* They are true at the start.                                             *)
LEMMA WireTrueInit == LedgerInit => WireTrue
<1> SUFFICES ASSUME LedgerInit PROVE WireTrue
  OBVIOUS
<1>1. recovered = {} /\ wire = {} /\ ack_seq = 0 /\ sack_rx = <<>>
  BY DEF LedgerInit
<1>2. PointOf(recovered) \in Nat
  BY <1>1, PointFound
<1>. QED  BY <1>1, <1>2 DEF WireTrue

(* Every step keeps them true.                                             *)
LEMMA WireTrueStep ==
    ASSUME ReceiverBooks, ReceiverBooks', WireTrue, [LedgerNext]_ledgerVars
    PROVE  WireTrue'
<1> DEFINE Reports(S) == [next_expected : 0 .. PointOf(S), ranges : Seq(TrueRanges(S))]
<1>1. /\ wire \subseteq Reports(recovered) /\ ack_seq \in 0 .. PointOf(recovered)
      /\ sack_rx \in Seq(Seq(TrueRanges(recovered)))
  BY DEF WireTrue
<1>2. /\ recovered \in SUBSET (0 .. LastSeq) /\ recovered' \in SUBSET (0 .. LastSeq)
      /\ PointOf(recovered) \in Nat
  BY PointFound DEF ReceiverBooks
<1>3. ASSUME wire' \subseteq wire, UNCHANGED <<ack_seq, recovered>>,
             sack_rx' = sack_rx \/ sack_rx' = <<>>
      PROVE  WireTrue'
  <2>1. sack_rx' \in Seq(Seq(TrueRanges(recovered)))
    <3>1. <<>> \in Seq(Seq(TrueRanges(recovered)))
      OBVIOUS
    <3>. QED  BY <1>1, <1>3, <3>1
  <2>. QED  BY <1>1, <1>3, <2>1 DEF WireTrue
<1>4. ASSUME NEW seq \in 0 .. LastSeq, SymbolArrives(seq)
      PROVE  WireTrue'
  <2> DEFINE bits == bits_insert(received_seqs, seq).bits
  <2>1. /\ recovered' = recovered \cup {seq} /\ received_seqs' = bits
        /\ wire' = wire \cup {Report(bits, PointOf(recovered'))}
        /\ ack_seq' = ack_seq /\ sack_rx' = sack_rx
    BY <1>4 DEF SymbolArrives, PointOf, cumulative_point
  <2>. HIDE DEF bits
  <2>2. bits \in Bitmaps /\ BitMembers(bits) \subseteq recovered'
    BY <2>1 DEF ReceiverBooks, SoundBits
  <2>3. Report(bits, PointOf(recovered')) \in Reports(recovered')
    BY <1>2, <2>2, ReportIsTrue
  <2>4. /\ PointOf(recovered') \in Nat
        /\ 0 .. PointOf(recovered) \subseteq 0 .. PointOf(recovered')
        /\ Seq(TrueRanges(recovered)) \subseteq Seq(TrueRanges(recovered'))
        /\ Seq(Seq(TrueRanges(recovered))) \subseteq Seq(Seq(TrueRanges(recovered')))
    <3>1. recovered \subseteq recovered'
      BY <2>1
    <3>. QED  BY <1>2, <3>1, ReportsStayTrue
  <2>5. Reports(recovered) \subseteq Reports(recovered')
    BY <2>4
  <2>6. wire' \subseteq Reports(recovered')
    <3>. HIDE DEF Reports
    <3>. QED  BY <1>1, <2>1, <2>3, <2>5
  <2>7. ack_seq' \in 0 .. PointOf(recovered') /\ sack_rx' \in Seq(Seq(TrueRanges(recovered')))
    BY <1>1, <2>1, <2>4
  <2>. QED  BY <2>6, <2>7 DEF WireTrue
<1>5. ASSUME NEW report \in wire, NEW repeated \in BOOLEAN, AckArrives(report, repeated)
      PROVE  WireTrue'
  <2>1. /\ wire' \subseteq wire /\ recovered' = recovered
        /\ ack_seq' = Larger(ack_seq, report.next_expected)
        /\ sack_rx' = sack_rx \/ sack_rx' = Append(sack_rx, report.ranges)
    BY <1>5 DEF AckArrives, receiverBooks
  <2>2. report.next_expected \in 0 .. PointOf(recovered) /\ report.ranges \in Seq(TrueRanges(recovered))
    BY <1>1
  <2>3. ack_seq' \in 0 .. PointOf(recovered)
    BY <1>1, <2>1, <2>2 DEF Larger
  <2>4. sack_rx' \in Seq(Seq(TrueRanges(recovered)))
    <3> DEFINE Q == Seq(TrueRanges(recovered))
    <3>1. sack_rx \in Seq(Q) /\ report.ranges \in Q
      BY <1>1, <2>2
    <3>. HIDE DEF Q
    <3>2. Append(sack_rx, report.ranges) \in Seq(Q)
      BY <3>1
    <3>3. sack_rx' \in Seq(Q)
      BY <2>1, <3>1, <3>2
    <3>. QED  BY <3>3 DEF Q
  <2>. QED  BY <1>1, <2>1, <2>3, <2>4 DEF WireTrue
<1>6. CASE EmitSource
  BY <1>3, <1>6 DEF EmitSource, receiverBooks
<1>7. CASE PruneReceived
  BY <1>3, <1>7 DEF PruneReceived
<1>8. CASE ReportLost
  BY <1>3, <1>8 DEF ReportLost, receiverBooks
<1>9. CASE DrainSack
  BY <1>3, <1>9 DEF DrainSack, receiverBooks
<1>10. CASE OnAckAdvance
  BY <1>3, <1>10 DEF OnAckAdvance, receiverBooks
<1>11. CASE UNCHANGED ledgerVars
  BY <1>3, <1>11 DEF ledgerVars
<1>. QED
  BY <1>4, <1>5, <1>6, <1>7, <1>8, <1>9, <1>10, <1>11 DEF LedgerNext

(* The greatest of a bounded set of numbers.                               *)
LEMMA GreatestIsMax ==
    ASSUME NEW n \in Nat, NEW S \in SUBSET (0 .. n), S # {}
    PROVE  Max(S) \in S /\ \A s \in S : s <= Max(S)
<1>1. IsFiniteSet(0 .. n)
  BY FS_Interval
<1>2. IsFiniteSet(S) /\ S \in SUBSET Int
  <2>1. IsFiniteSet(S)
    BY <1>1, FS_Subset
  <2>. QED  BY <2>1
<1>3. \E m \in S : \A s \in S : s <= m
  BY <1>2, FiniteGreatest
<1>. QED  BY <1>3 DEF Max

-----------------------------------------------------------------------------
(***************************************************************************)
(* The memo: intervals below `top`, no two touching, all of whose retained *)
(* seqs are released.                                                      *)
(***************************************************************************)
MemoTrue(memo, keys, released, top) ==
    /\ memo \in SUBSET (Nat \X Nat)
    /\ \A i \in memo : i[1] <= i[2] /\ i[2] < top
    /\ \A i, k \in memo : i # k => i[2] + 1 < k[1] \/ k[2] + 1 < i[1]
    /\ \A i \in memo, s \in keys : i[1] <= s /\ s <= i[2] => s \in released

(* What one more range makes of the intervals it touches.                  *)
NearTo(memo, lo, hi) == {i \in memo : i[1] <= hi + 1 /\ i[2] + 1 >= lo}

JoinedLow(near, lo) == Min({lo} \cup {i[1] : i \in near})

JoinedHigh(near, hi) == Max({hi} \cup {i[2] : i \in near})

(* The union of a range and the intervals that touch it has no gap.        *)
LEMMA JoinedHasNoGap ==
    ASSUME NEW top \in Nat, NEW memo \in SUBSET (Nat \X Nat), NEW lo \in Nat, NEW hi \in Nat,
           lo <= hi, hi < top, \A i \in memo : i[1] <= i[2] /\ i[2] < top
    PROVE  LET near == NearTo(memo, lo, hi)
               a    == JoinedLow(near, lo)
               z    == JoinedHigh(near, hi)
           IN  /\ a \in Nat /\ z \in Nat /\ a <= lo /\ hi <= z /\ z < top
               /\ \A i \in near : a <= i[1] /\ i[2] <= z
               /\ a = lo \/ \E i \in near : a = i[1]
               /\ z = hi \/ \E i \in near : z = i[2]
               /\ \A s \in Nat : a <= s /\ s <= z /\ ~(lo <= s /\ s <= hi) =>
                     \E i \in near : i[1] <= s /\ s <= i[2]
<1> DEFINE near == NearTo(memo, lo, hi)
           A == {lo} \cup {i[1] : i \in near}
           Z == {hi} \cup {i[2] : i \in near}
           a == JoinedLow(near, lo)
           z == JoinedHigh(near, hi)
<1>1. \A i \in near : /\ i \in Nat \X Nat /\ i[1] \in Nat /\ i[2] \in Nat /\ i[1] <= i[2] /\ i[2] < top
                      /\ i[1] <= hi + 1 /\ i[2] + 1 >= lo
  BY DEF NearTo
<1>. HIDE DEF near
<1>2. a \in A /\ \A x \in A : a <= x
  <2>1. A \in SUBSET Nat /\ A # {}
    BY <1>1
  <2>2. a = Min(A)
    BY DEF JoinedLow
  <2>. HIDE DEF A, a
  <2>. QED  BY <2>1, <2>2, LeastIsMin
<1>3. z \in Z /\ \A x \in Z : x <= z
  <2>1. Z \in SUBSET (0 .. top) /\ Z # {}
    BY <1>1
  <2>2. z = Max(Z)
    BY DEF JoinedHigh
  <2>. HIDE DEF Z, z
  <2>. QED  BY <2>1, <2>2, GreatestIsMax
<1>. HIDE DEF a, z
<1>4. a = lo \/ \E i \in near : a = i[1]
  BY <1>2
<1>5. z = hi \/ \E i \in near : z = i[2]
  BY <1>3
<1>6. a \in Nat /\ z \in Nat /\ z < top
  BY <1>1, <1>4, <1>5
<1>7. a <= lo /\ hi <= z /\ \A i \in near : a <= i[1] /\ i[2] <= z
  BY <1>2, <1>3
<1>8. ASSUME NEW s \in Nat, a <= s, s < lo
      PROVE  \E i \in near : i[1] <= s /\ s <= i[2]
  <2>1. PICK i \in near : a = i[1]
    BY <1>4, <1>6, <1>8
  <2>2. i[1] <= s /\ s <= i[2]
    BY <1>1, <1>8, <2>1
  <2>. QED  BY <2>2
<1>9. ASSUME NEW s \in Nat, hi < s, s <= z
      PROVE  \E i \in near : i[1] <= s /\ s <= i[2]
  <2>1. PICK i \in near : z = i[2]
    BY <1>5, <1>6, <1>9
  <2>2. i[1] <= s /\ s <= i[2]
    BY <1>1, <1>9, <2>1
  <2>. QED  BY <2>2
<1>10. \A s \in Nat : a <= s /\ s <= z /\ ~(lo <= s /\ s <= hi) =>
          \E i \in near : i[1] <= s /\ s <= i[2]
  BY <1>8, <1>9
<1>. QED  BY <1>4, <1>5, <1>6, <1>7, <1>10 DEF near, a, z

(* The memo with the union in place of what it joins.                      *)
LEMMA JoinedMemo ==
    ASSUME NEW top \in Nat, NEW keys \in SUBSET Nat, NEW memo, NEW released,
           MemoTrue(memo, keys, released, top),
           NEW lo \in Nat, NEW hi \in Nat, lo <= hi, hi < top,
           NEW more, \A s \in keys : lo <= s /\ s <= hi => s \in more, released \subseteq more
    PROVE  LET near == NearTo(memo, lo, hi)
           IN  MemoTrue((memo \ near) \cup {<<JoinedLow(near, lo), JoinedHigh(near, hi)>>},
                        keys, more, top)
<1> DEFINE near == NearTo(memo, lo, hi)
           a == JoinedLow(near, lo)
           z == JoinedHigh(near, hi)
           new == (memo \ near) \cup {<<a, z>>}
<1>1. /\ memo \in SUBSET (Nat \X Nat) /\ \A i \in memo : i[1] <= i[2] /\ i[2] < top
      /\ \A i, k \in memo : i # k => i[2] + 1 < k[1] \/ k[2] + 1 < i[1]
      /\ \A i \in memo, s \in keys : i[1] <= s /\ s <= i[2] => s \in released
  BY DEF MemoTrue
<1>2. /\ a \in Nat /\ z \in Nat /\ a <= lo /\ hi <= z /\ z < top
      /\ \A i \in near : a <= i[1] /\ i[2] <= z
      /\ a = lo \/ \E i \in near : a = i[1]
      /\ z = hi \/ \E i \in near : z = i[2]
      /\ \A s \in Nat : a <= s /\ s <= z /\ ~(lo <= s /\ s <= hi) =>
            \E i \in near : i[1] <= s /\ s <= i[2]
  BY <1>1, JoinedHasNoGap
<1>3. near \subseteq memo /\ \A i \in near : i[1] <= hi + 1 /\ i[2] + 1 >= lo
  BY DEF NearTo
<1>4. \A k \in memo \ near : k[1] > hi + 1 \/ k[2] + 1 < lo
  BY <1>1 DEF NearTo
<1>5. \A i \in memo : i[1] \in Nat /\ i[2] \in Nat
  BY <1>1
<1>. HIDE DEF near, a, z
<1>6. ASSUME NEW k \in memo \ near
      PROVE  z + 1 < k[1] \/ k[2] + 1 < a
  <2>1. k[1] \in Nat /\ k[2] \in Nat /\ k[1] <= k[2]
    BY <1>1, <1>5
  <2>2. CASE k[1] > hi + 1
    <3>1. CASE z = hi
      BY <1>2, <2>1, <2>2, <3>1
    <3>2. ASSUME NEW i \in near, z = i[2]
          PROVE  z + 1 < k[1]
      <4>1. i \in memo /\ i # k /\ i[1] <= hi + 1 /\ i[1] \in Nat /\ i[2] \in Nat
        BY <1>3, <1>5
      <4>2. i[2] + 1 < k[1] \/ k[2] + 1 < i[1]
        BY <1>1, <4>1
      <4>. QED  BY <2>1, <2>2, <3>2, <4>1, <4>2
    <3>. QED  BY <1>2, <3>1, <3>2
  <2>3. CASE k[2] + 1 < lo
    <3>1. CASE a = lo
      BY <1>2, <2>1, <2>3, <3>1
    <3>2. ASSUME NEW i \in near, a = i[1]
          PROVE  k[2] + 1 < a
      <4>1. i \in memo /\ i # k /\ i[2] + 1 >= lo /\ i[1] \in Nat /\ i[2] \in Nat
        BY <1>3, <1>5
      <4>2. i[2] + 1 < k[1] \/ k[2] + 1 < i[1]
        BY <1>1, <4>1
      <4>. QED  BY <2>1, <2>3, <3>2, <4>1, <4>2
    <3>. QED  BY <1>2, <3>1, <3>2
  <2>. QED  BY <1>4, <2>2, <2>3
<1>7. <<a, z>>[1] = a /\ <<a, z>>[2] = z /\ <<a, z>> \in Nat \X Nat
  BY <1>2
<1>8. a <= z
  BY <1>2
<1>9. ASSUME NEW s \in keys, a <= s, s <= z
      PROVE  s \in more
  <2>1. CASE lo <= s /\ s <= hi
    BY <2>1
  <2>2. CASE ~(lo <= s /\ s <= hi)
    <3>1. PICK i \in near : i[1] <= s /\ s <= i[2]
      BY <1>2, <1>9, <2>2
    <3>. QED  BY <1>1, <1>3, <3>1
  <2>. QED  BY <2>1, <2>2
<1>. DEFINE u == <<a, z>>
<1>10. u[1] = a /\ u[2] = z /\ u \in Nat \X Nat
  BY <1>7
<1>11. new = (memo \ near) \cup {u}
  OBVIOUS
<1>. HIDE DEF u, new
<1>12. new \in SUBSET (Nat \X Nat) /\ \A i \in new : i[1] <= i[2] /\ i[2] < top
  BY <1>1, <1>2, <1>8, <1>10, <1>11
<1>13. \A i, k \in new : i # k => i[2] + 1 < k[1] \/ k[2] + 1 < i[1]
  BY <1>1, <1>6, <1>10, <1>11
<1>14. \A i \in new, s \in keys : i[1] <= s /\ s <= i[2] => s \in more
  BY <1>1, <1>9, <1>10, <1>11
<1>15. MemoTrue(new, keys, more, top)
  BY <1>12, <1>13, <1>14 DEF MemoTrue
<1>. QED  BY <1>15 DEF new, near, a, z, u

(* One range at the memo: it stays true of what is released then, which is *)
(* what the full walk would have released.                                 *)
LEMMA MarkIsTheWalk ==
    ASSUME NEW V, NEW store, SoundRing(V, store), NEW top \in Nat,
           \A s \in RingKeys(store) : s < top,
           NEW memo, NEW released, MemoTrue(memo, RingKeys(store), released, top),
           NEW range \in Nat \X Nat
    PROVE  LET m == mark_into(memo, store, released, range)
           IN  /\ released \cup m.newly = sack_release_mark(store, released, range)
               /\ m.newly \subseteq {s \in RingKeys(store) : range[1] <= s /\ s <= range[2]}
               /\ m.newly \cap released = {}
               /\ MemoTrue(m.covered, RingKeys(store), released \cup m.newly, top)
<1> DEFINE K     == RingKeys(store)
           start == range[1]
           stop  == range[2]
           last  == last_key(store)
           hi    == Min({stop, last})
           near  == NearTo(memo, start, hi)
           gaps  == {s \in ring_range(store, start, hi) : s \notin Spans(near)}
           union == <<JoinedLow(near, start), JoinedHigh(near, hi)>>
           m     == mark_into(memo, store, released, range)
<1>1. start \in Nat /\ stop \in Nat
  OBVIOUS
<1>2. /\ K = {} => last = -1 /\ store.len = 0
      /\ K # {} => last \in K /\ (\A s \in K : s <= last) /\ store.len # 0
  BY RingEnds
<1>3. K \in SUBSET Nat
  BY RingContents DEF SoundRing
<1>4. last \in Int
  BY <1>2, <1>3
<1>5. hi = IF stop <= last THEN stop ELSE last
  <2>1. stop \in Int
    BY <1>1
  <2>. HIDE DEF stop, last
  <2>. QED  BY <1>4, <2>1, OfTwo, Zenon
<1>6. hi \in Int /\ hi <= stop
  <2>. HIDE DEF stop, last, hi
  <2>. QED  BY <1>1, <1>4, <1>5
<1>7. ring_range(store, start, hi) = {s \in K : start <= s /\ s <= hi}
  <2>1. start \in Int
    BY <1>1
  <2>. HIDE DEF start, hi
  <2>. QED  BY <1>6, <2>1, RingRanges
<1>8. ring_range(store, start, stop) = {s \in K : start <= s /\ s <= stop}
  <2>1. start \in Int /\ stop \in Int
    BY <1>1
  <2>. HIDE DEF start, stop
  <2>. QED  BY <2>1, RingRanges
<1>9. \A s \in K : s <= stop <=> s <= hi
  <2>1. ASSUME NEW s \in K
        PROVE  s <= stop <=> s <= hi
    <3>1. s \in Nat /\ s <= last
      BY <1>2, <1>3
    <3>. HIDE DEF K, stop, last, hi
    <3>. QED  BY <1>1, <1>4, <1>5, <3>1
  <2>. QED  BY <2>1
<1>10. sack_release_mark(store, released, range) = released \cup {s \in K : start <= s /\ s <= hi}
  <2>1. {s \in K : start <= s /\ s <= stop} = {s \in K : start <= s /\ s <= hi}
    BY <1>9
  <2>. QED  BY <1>8, <2>1 DEF sack_release_mark
<1>11. m = IF store.len = 0 \/ start > hi THEN Marked(memo, {})
           ELSE Marked((memo \ near) \cup {union}, gaps \ released)
  BY DEF mark_into, NearTo, JoinedLow, JoinedHigh
<1>12. /\ memo \in SUBSET (Nat \X Nat)
       /\ \A i \in memo, s \in K : i[1] <= s /\ s <= i[2] => s \in released
  BY DEF MemoTrue
<1>. HIDE DEF m
<1>13. CASE store.len = 0 \/ start > hi
  <2>1. m.covered = memo /\ m.newly = {}
    BY <1>11, <1>13 DEF Marked
  <2>2. {s \in K : start <= s /\ s <= hi} = {}
    <3>1. CASE store.len = 0
      BY <1>2, <3>1
    <3>2. CASE start > hi
      <4>1. \A s \in Nat : ~(start <= s /\ s <= hi)
        <5>. HIDE DEF start, hi
        <5>. QED  BY <1>1, <1>6, <3>2
      <4>. QED  BY <1>3, <4>1
    <3>. QED  BY <1>13, <3>1, <3>2
  <2>3. released \cup m.newly = released
    BY <2>1
  <2>. QED  BY <1>10, <2>1, <2>2, <2>3 DEF m
<1>14. CASE ~(store.len = 0 \/ start > hi)
  <2>1. m.covered = (memo \ near) \cup {union} /\ m.newly = gaps \ released
    BY <1>11, <1>14 DEF Marked
  <2>2. hi \in Nat /\ start <= hi /\ hi < top
    <3>1. start <= hi
      <4>. HIDE DEF start, hi
      <4>. QED  BY <1>1, <1>6, <1>14
    <3>2. last \in Nat /\ last < top
      BY <1>2, <1>3, <1>14
    <3>. HIDE DEF start, stop, last, hi
    <3>. QED  BY <1>1, <1>5, <1>6, <3>1, <3>2
  <2>3. \A s \in K : start <= s /\ s <= hi => s \in released \cup m.newly
    <3>1. ASSUME NEW s \in K, start <= s, s <= hi, s \notin released
          PROVE  s \in gaps
      <4>1. s \in ring_range(store, start, hi)
        BY <1>7, <3>1
      <4>2. s \notin Spans(near)
        <5>1. \A i \in near : i \in memo /\ i[1] \in Nat /\ i[2] \in Nat
          BY <1>12 DEF NearTo
        <5>2. \A i \in near : ~(s \in i[1] .. i[2])
          BY <1>12, <3>1, <5>1, SMTT(30)
        <5>. QED  BY <5>2 DEF Spans
      <4>. QED  BY <4>1, <4>2
    <3>. QED  BY <2>1, <3>1
  <2>4. gaps \subseteq {s \in K : start <= s /\ s <= hi}
    BY <1>7
  <2>5. released \cup m.newly = released \cup {s \in K : start <= s /\ s <= hi}
    BY <2>1, <2>3, <2>4
  <2>6. m.newly \subseteq {s \in K : start <= s /\ s <= stop}
    BY <1>9, <2>1, <2>4
  <2>7. MemoTrue(m.covered, K, released \cup m.newly, top)
    <3>1. released \subseteq released \cup m.newly
      OBVIOUS
    <3>2. MemoTrue((memo \ near) \cup {union}, K, released \cup m.newly, top)
      <4> DEFINE more == released \cup m.newly
      <4>1. \A s \in K : start <= s /\ s <= hi => s \in more
        BY <2>3
      <4>2. released \subseteq more /\ MemoTrue(memo, K, released, top)
        OBVIOUS
      <4>. HIDE DEF more, start, hi, K
      <4>. QED  BY <1>1, <1>3, <2>2, <4>1, <4>2, JoinedMemo DEF more
    <3>. QED  BY <2>1, <3>2
  <2>8. m.newly \cap released = {}
    BY <2>1
  <2>. QED  BY <1>10, <2>5, <2>6, <2>7, <2>8 DEF m
<1>. QED  BY <1>13, <1>14

(* The memo cut at the cumulative point.                                   *)
LEMMA CutMemo ==
    ASSUME NEW top \in Nat, NEW keys \in SUBSET Nat, NEW memo, NEW released, NEW f \in Nat,
           MemoTrue(memo, keys, released, top)
    PROVE  MemoTrue(memo_prune(memo, f), {s \in keys : s >= f}, {s \in released : s >= f}, top)
<1> DEFINE whole == {i \in memo : i[1] >= f}
           across == {k \in memo : k[1] < f /\ k[2] >= f}
           cut == {<<f, i[2]>> : i \in across}
           new == memo_prune(memo, f)
<1>1. /\ memo \in SUBSET (Nat \X Nat) /\ \A i \in memo : i[1] <= i[2] /\ i[2] < top
      /\ \A i, k \in memo : i # k => i[2] + 1 < k[1] \/ k[2] + 1 < i[1]
      /\ \A i \in memo, s \in keys : i[1] <= s /\ s <= i[2] => s \in released
  BY DEF MemoTrue
<1>2. \A i \in memo : i[1] \in Nat /\ i[2] \in Nat
  BY <1>1
<1>3. new = whole \cup cut
  BY DEF memo_prune
<1>4. \A i \in cut : /\ i[1] = f /\ i[2] \in Nat /\ i \in Nat \X Nat
                     /\ \E k \in across : i[2] = k[2] /\ i = <<f, k[2]>>
  <2>1. ASSUME NEW i \in cut
        PROVE  /\ i[1] = f /\ i[2] \in Nat /\ i \in Nat \X Nat
               /\ \E k \in across : i[2] = k[2] /\ i = <<f, k[2]>>
    <3>1. PICK k \in across : i = <<f, k[2]>>
      OBVIOUS
    <3>2. k[2] \in Nat
      BY <1>2
    <3>3. i[1] = f /\ i[2] = k[2] /\ i \in Nat \X Nat
      BY <3>1, <3>2
    <3>. QED  BY <3>1, <3>2, <3>3
  <2>. QED  BY <2>1
<1>5. ASSUME NEW k \in across, NEW h \in across
      PROVE  k = h
  BY <1>1, <1>2
<1>6. ASSUME NEW k \in across, NEW i \in whole
      PROVE  k[2] + 1 < i[1]
  <2>1. k \in memo /\ i \in memo /\ k # i
    BY <1>2
  <2>2. k[2] + 1 < i[1] \/ i[2] + 1 < k[1]
    BY <1>1, <2>1
  <2>. QED  BY <1>1, <1>2, <2>1, <2>2
<1>. HIDE DEF cut, new
<1>7. new \in SUBSET (Nat \X Nat)
  BY <1>1, <1>3, <1>4
<1>8. ASSUME NEW i \in new
      PROVE  i[1] <= i[2] /\ i[2] < top
  <2>1. CASE i \in whole
    BY <1>1, <2>1
  <2>2. CASE i \in cut
    <3>1. PICK k \in across : i[2] = k[2] /\ i[1] = f
      BY <1>4, <2>2
    <3>. QED  BY <1>1, <1>2, <3>1
  <2>. QED  BY <1>3, <2>1, <2>2
<1>9. ASSUME NEW i \in new, NEW k \in new, i # k
      PROVE  i[2] + 1 < k[1] \/ k[2] + 1 < i[1]
  <2>1. CASE i \in whole /\ k \in whole
    BY <1>1, <1>9, <2>1
  <2>2. CASE i \in cut /\ k \in cut
    BY <1>4, <1>5, <1>9, <2>2
  <2>3. CASE i \in cut /\ k \in whole
    <3>1. PICK h \in across : i[2] = h[2]
      BY <1>4, <2>3
    <3>. QED  BY <1>6, <2>3, <3>1
  <2>4. CASE i \in whole /\ k \in cut
    <3>1. PICK h \in across : k[2] = h[2]
      BY <1>4, <2>4
    <3>. QED  BY <1>6, <2>4, <3>1
  <2>. QED  BY <1>3, <2>1, <2>2, <2>3, <2>4
<1>10. ASSUME NEW i \in new, NEW s \in {t \in keys : t >= f}, i[1] <= s, s <= i[2]
       PROVE  s \in {t \in released : t >= f}
  <2>1. CASE i \in whole
    BY <1>1, <1>10, <2>1
  <2>2. CASE i \in cut
    <3>1. PICK k \in across : i[2] = k[2]
      BY <1>4, <2>2
    <3>2. k \in memo /\ k[1] <= s /\ s <= k[2]
      BY <1>2, <1>10, <3>1
    <3>. QED  BY <1>1, <3>2
  <2>. QED  BY <1>3, <1>10, <2>1, <2>2
<1>11. MemoTrue(new, {s \in keys : s >= f}, {s \in released : s >= f}, top)
  BY <1>7, <1>8, <1>9, <1>10 DEF MemoTrue
<1>. QED  BY <1>11 DEF new

(* What an account holds for a path.                                       *)
Held(acct, p) == {s \in DOMAIN acct : acct[s] = p}

(* The counts of a path are those of the account.                          *)
OutTrue(acct, out) ==
    /\ IsFiniteSet(DOMAIN acct)
    /\ out \in [LedgerPaths -> Nat]
    /\ \A p \in LedgerPaths : out[p] = Cardinality(Held(acct, p))

(* A release takes off what leaves the account.                            *)
LEMMA ReleaseCounts ==
    ASSUME NEW acct, NEW out, OutTrue(acct, out), NEW S, NEW less,
           DOMAIN less = DOMAIN acct \ S, \A s \in DOMAIN less : less[s] = acct[s]
    PROVE  OutTrue(less, percap_release(acct, out, S))
<1> DEFINE new == percap_release(acct, out, S)
<1>1. /\ IsFiniteSet(DOMAIN acct) /\ out \in [LedgerPaths -> Nat]
      /\ \A p \in LedgerPaths : out[p] = Cardinality(Held(acct, p))
  BY DEF OutTrue
<1>2. IsFiniteSet(DOMAIN less)
  BY <1>1, FS_Subset
<1>3. ASSUME NEW p \in LedgerPaths
      PROVE  new[p] = Cardinality(Held(less, p)) /\ new[p] \in Nat
  <2> DEFINE gone == Charged(acct, p, S)
  <2>1. gone \subseteq DOMAIN acct /\ Held(less, p) \subseteq DOMAIN acct
    BY DEF Charged, Held
  <2>2. IsFiniteSet(gone) /\ IsFiniteSet(Held(less, p))
    <3>. HIDE DEF gone
    <3>. QED  BY <1>1, <2>1, FS_Subset
  <2>3. Held(acct, p) = gone \cup Held(less, p) /\ gone \cap Held(less, p) = {}
    BY DEF Charged, Held
  <2>4. new[p] = Monus(out[p], Cardinality(gone))
    BY DEF percap_release
  <2>. HIDE DEF gone, new
  <2>5. /\ Cardinality(gone) \in Nat /\ Cardinality(Held(less, p)) \in Nat
        /\ Cardinality(Held(acct, p)) = Cardinality(gone) + Cardinality(Held(less, p))
    BY <2>2, <2>3, CountParts
  <2>6. out[p] = Cardinality(gone) + Cardinality(Held(less, p))
    BY <1>1, <2>5
  <2>. QED  BY <2>4, <2>5, <2>6 DEF Monus
<1>4. new = [p \in LedgerPaths |-> new[p]]
  BY DEF percap_release
<1>. HIDE DEF new
<1>5. new \in [LedgerPaths -> Nat]
  BY <1>3, <1>4
<1>6. OutTrue(less, new)
  BY <1>2, <1>3, <1>5 DEF OutTrue
<1>. QED  BY <1>6 DEF new

-----------------------------------------------------------------------------
(* Accounts: seqs, each charged to a path.                                 *)
Accts == UNION {[D -> LedgerPaths] : D \in SUBSET Nat}

BookRecords == [memo : SUBSET (Nat \X Nat), released : SUBSET Nat, acct : Accts,
                out : [LedgerPaths -> Nat], walked : SUBSET Nat]

(***************************************************************************)
(* The sender's books against its store and what is delivered.             *)
(***************************************************************************)
BooksTrue(w, store, got, top) ==
    /\ w \in BookRecords
    /\ w.released = w.walked
    /\ w.walked \subseteq RingKeys(store) \cap got
    /\ DOMAIN w.acct = RingKeys(store) \ w.released
    /\ \A s \in DOMAIN w.acct : w.acct[s] = ring_get(store, s)
    /\ OutTrue(w.acct, w.out)
    /\ MemoTrue(w.memo, RingKeys(store), w.released, top)

(* An account cut down is one.                                             *)
LEMMA LessAccount ==
    ASSUME NEW acct \in Accts, NEW S
    PROVE  /\ [s \in DOMAIN acct \ S |-> acct[s]] \in Accts
           /\ DOMAIN [s \in DOMAIN acct \ S |-> acct[s]] = DOMAIN acct \ S
           /\ \A s \in DOMAIN acct \ S : [x \in DOMAIN acct \ S |-> acct[x]][s] = acct[s]
           /\ DOMAIN acct \in SUBSET Nat
<1>1. PICK D \in SUBSET Nat : acct \in [D -> LedgerPaths]
  BY DEF Accts
<1> DEFINE E == D \ S
<1>2. [s \in E |-> acct[s]] \in [E -> LedgerPaths] /\ E \in SUBSET Nat
  BY <1>1
<1>3. DOMAIN acct \ S = E /\ DOMAIN acct = D
  BY <1>1
<1>. HIDE DEF E
<1>4. [s \in E |-> acct[s]] \in Accts
  BY <1>2 DEF Accts
<1>. QED  BY <1>3, <1>4

(* A range of a report keeps the books true.                               *)
LEMMA RangeKeepsBooks ==
    ASSUME SoundRing(LedgerPaths, sent_store), NEW top \in Nat,
           \A s \in RingKeys(sent_store) : s < top,
           NEW got, NEW w, BooksTrue(w, sent_store, got, top), NEW range \in TrueRanges(got)
    PROVE  BooksTrue(MarkRange(w, range), sent_store, got, top)
<1> DEFINE K    == RingKeys(sent_store)
           m    == mark_into(w.memo, sent_store, w.released, range)
           new  == m.newly
           more == w.released \cup new
           acct == [s \in DOMAIN w.acct \ new |-> w.acct[s]]
           out  == percap_release(w.acct, w.out, new)
           v    == MarkRange(w, range)
<1>1. /\ w \in BookRecords /\ w.released = w.walked /\ w.walked \subseteq K \cap got
      /\ DOMAIN w.acct = K \ w.released
      /\ \A s \in DOMAIN w.acct : w.acct[s] = ring_get(sent_store, s)
      /\ OutTrue(w.acct, w.out)
      /\ MemoTrue(w.memo, K, w.released, top)
  BY DEF BooksTrue
<1>2. range \in Nat \X Nat /\ \A s \in range[1] .. range[2] : s \in got
  BY DEF TrueRanges
<1>3. K \in SUBSET Nat
  BY RingContents DEF SoundRing
<1>4. /\ more = sack_release_mark(sent_store, w.released, range)
      /\ new \subseteq {s \in K : range[1] <= s /\ s <= range[2]}
      /\ MemoTrue(m.covered, K, more, top)
  BY <1>1, <1>2, MarkIsTheWalk
<1>5. /\ v = [memo |-> m.covered, released |-> more, acct |-> acct, out |-> out,
              walked |-> sack_release_mark(sent_store, w.walked, range)]
  BY DEF MarkRange
<1>. HIDE DEF m, v
<1>6. new \subseteq K \cap got
  <2>1. \A s \in Nat : range[1] <= s /\ s <= range[2] => s \in range[1] .. range[2]
    BY <1>2
  <2>. QED  BY <1>2, <1>3, <1>4, <2>1
<1>7. /\ acct \in Accts /\ DOMAIN acct = DOMAIN w.acct \ new
      /\ \A s \in DOMAIN w.acct \ new : acct[s] = w.acct[s]
  <2>1. w.acct \in Accts
    BY <1>1 DEF BookRecords
  <2>. QED  BY <2>1, LessAccount
<1>8. OutTrue(acct, out)
  <2>. HIDE DEF acct, out, new
  <2>1. \A s \in DOMAIN acct : acct[s] = w.acct[s]
    BY <1>7
  <2>. QED  BY <1>1, <1>7, <2>1, ReleaseCounts DEF out
<1>9. out \in [LedgerPaths -> Nat]
  BY <1>8 DEF OutTrue
<1>10. m.covered \in SUBSET (Nat \X Nat)
  BY <1>4 DEF MemoTrue
<1>. HIDE DEF acct, out, new, more
<1>11. more \in SUBSET Nat /\ more \subseteq K \cap got
  BY <1>1, <1>3, <1>6 DEF more
<1>12. v.memo = m.covered /\ v.released = more /\ v.acct = acct /\ v.out = out /\ v.walked = more
  BY <1>1, <1>4, <1>5
<1>13. v \in BookRecords
  BY <1>1, <1>4, <1>5, <1>7, <1>9, <1>10, <1>11 DEF BookRecords
<1>14. DOMAIN acct = K \ more
  BY <1>1, <1>7 DEF more
<1>15. \A s \in DOMAIN acct : acct[s] = ring_get(sent_store, s)
  BY <1>1, <1>7
<1>16. BooksTrue(v, sent_store, got, top)
  BY <1>4, <1>8, <1>11, <1>12, <1>13, <1>14, <1>15 DEF BooksTrue
<1>. QED  BY <1>16 DEF v

-----------------------------------------------------------------------------
(* A fold of ranges stays in a set that every range keeps.                 *)
LEMMA FoldStays ==
    ASSUME NEW V, NEW base \in V, NEW T, NEW ranges \in Seq(T),
           \A w \in V, r \in T : MarkRange(w, r) \in V
    PROVE  FoldLeft(MarkRange, base, ranges) \in V
<1> DEFINE n == Len(ranges)
           Eq(f) == f = [s \in SUBSET (1 .. n) |->
                            IF s = {} THEN base ELSE MarkRange(f[s \ {Max(s)}], ranges[Max(s)])]
           iter == CHOOSE f : Eq(f)
           step == [p \in V \X (1 .. n) |-> MarkRange(p[1], ranges[p[2]])]
<1>1. n \in Nat /\ DOMAIN ranges = 1 .. n /\ ranges \in [1 .. n -> T]
  BY LenProperties
<1>2. FoldLeft(MarkRange, base, ranges)
         = (CHOOSE f : f = [s \in SUBSET (DOMAIN ranges) |->
                               IF s = {} THEN base
                               ELSE MarkRange(f[s \ {Max(s)}], ranges[Max(s)])])[DOMAIN ranges]
  BY DEF FoldLeft, MapThenFoldSet
<1>. HIDE DEF n
<1>3. FoldLeft(MarkRange, base, ranges) = iter[1 .. n]
  BY <1>1, <1>2
<1>4. \A s : Max(s) = Greatest(s)
  BY DEF Max, Greatest
<1>5. \E f : Eq(f)
  <2>1. step \in [V \X (1 .. n) -> V]
    BY <1>1
  <2>2. PICK h \in [SUBSET (1 .. n) -> V] : FoldBy(h, n, base, step)
    BY <1>1, <2>1, FoldExists
  <2>3. ASSUME NEW s \in SUBSET (1 .. n), s # {}
        PROVE  step[<<h[s \ {Greatest(s)}], Greatest(s)>>]
                  = MarkRange(h[s \ {Greatest(s)}], ranges[Greatest(s)])
    <3>1. Greatest(s) \in 1 .. n /\ h[s \ {Greatest(s)}] \in V
      BY <1>1, <2>3, PositionsCount
    <3>. QED  BY <3>1
  <2>4. Eq(h)
    BY <2>2, <2>3, <1>4 DEF FoldBy
  <2>. QED  BY <2>4
<1>6. Eq(iter)
  BY <1>5
<1>. HIDE DEF iter
<1>7. iter[1 .. 0] = base
  BY <1>6
<1>8. ASSUME NEW k \in 1 .. n
      PROVE  iter[1 .. k] = MarkRange(iter[1 .. k - 1], ranges[k])
  <2>1. /\ 1 .. k \in SUBSET (1 .. n) /\ 1 .. k # {}
        /\ Greatest(1 .. k) = k /\ (1 .. k) \ {k} = 1 .. k - 1
    BY <1>1, IntervalTop
  <2>2. Max(1 .. k) = k
    BY <2>1, <1>4
  <2>. QED  BY <1>6, <2>1, <2>2
<1> DEFINE S == {k \in 0 .. n : iter[1 .. k] \in V}
<1>9. 0 \in S
  BY <1>1, <1>7
<1>10. ASSUME NEW k \in 0 .. n - 1, k \in S
       PROVE  k + 1 \in S
  <2>1. k + 1 \in 1 .. n /\ (k + 1) - 1 = k /\ k + 1 \in 0 .. n
    BY <1>1
  <2>2. iter[1 .. k + 1] = MarkRange(iter[1 .. k], ranges[k + 1])
    BY <1>8, <2>1
  <2>3. ranges[k + 1] \in T /\ iter[1 .. k] \in V
    BY <1>1, <1>10, <2>1
  <2>4. iter[1 .. k + 1] \in V
    BY <2>2, <2>3
  <2>. QED  BY <2>1, <2>4
<1>. HIDE DEF S
<1>11. 0 .. n \subseteq S
  BY <1>1, <1>9, <1>10, IntervalInduction
<1>12. n \in 0 .. n
  BY <1>1
<1>. QED  BY <1>3, <1>11, <1>12 DEF S

(* The sender's books as one record.                                       *)
SenderRecord == [memo |-> sack_memo, released |-> sack_released, acct |-> percap_acct,
                 out |-> percap_out, walked |-> walked]

(***************************************************************************)
(* The sender's books: the store holds what lies between the cumulative    *)
(* point last processed and the next seq, without a hole; nothing beyond   *)
(* is delivered; the other books are true of it.                           *)
(***************************************************************************)
SenderBooks ==
    /\ SoundRing(LedgerPaths, sent_store)
    /\ prev_ack \in Nat /\ prev_ack <= ack_seq
    /\ next_seq \in Nat /\ prev_ack <= next_seq /\ next_seq <= LastSeq + 1
    /\ RingKeys(sent_store) = prev_ack .. next_seq - 1
    /\ recovered \in SUBSET (0 .. next_seq - 1)
    /\ BooksTrue(SenderRecord, sent_store, recovered, next_seq)

(* The next seq, from the keys.                                            *)
LEMMA NextSeq ==
    ASSUME NEW store, SoundRing(LedgerPaths, store), NEW a \in Nat, NEW n \in Nat, a <= n,
           RingKeys(store) = a .. n - 1
    PROVE  (IF store.slots = <<>> THEN a ELSE last_key(store) + 1) = n
<1> DEFINE last == last_key(store)
<1>1. /\ store.slots = <<>> <=> RingKeys(store) = {}
      /\ RingKeys(store) # {} => last \in RingKeys(store) /\ \A s \in RingKeys(store) : s <= last
  BY RingEnds
<1>. HIDE DEF last
<1>2. CASE a = n
  <2>1. RingKeys(store) = {}
    BY <1>2
  <2>. QED  BY <1>1, <1>2, <2>1
<1>3. CASE a < n
  <2>1. n - 1 \in RingKeys(store) /\ RingKeys(store) # {}
    BY <1>3
  <2>2. last \in a .. n - 1 /\ n - 1 <= last
    BY <1>1, <2>1
  <2>3. last + 1 = n
    BY <2>2
  <2>. QED  BY <1>1, <2>1, <2>3 DEF last
<1>. QED  BY <1>2, <1>3

(* It holds at the start.                                                  *)
LEMMA SenderBooksInit == LedgerInit => SenderBooks
<1> SUFFICES ASSUME LedgerInit PROVE SenderBooks
  OBVIOUS
<1>1. /\ sent_store = EmptyRing /\ sack_memo = {} /\ sack_released = {} /\ percap_acct = <<>>
      /\ percap_out = [p \in LedgerPaths |-> 0] /\ prev_ack = 0 /\ ack_seq = 0 /\ recovered = {}
      /\ walked = {}
  BY DEF LedgerInit
<1>2. LastSeq \in Nat
  BY LedgerAssumption DEF LedgerAssumption
<1>3. /\ sent_store.slots = <<>> /\ sent_store.base = 0 /\ sent_store.len = 0
      /\ sent_store \in Rings(LedgerPaths) /\ Len(sent_store.slots) = 0
  BY <1>1 DEF EmptyRing, Rings
<1>4. RingKeys(sent_store) = {}
  <2>1. RingEnd(sent_store) = 0
    BY <1>3 DEF RingEnd
  <2>. QED  BY <1>3, <2>1 DEF RingKeys
<1>5. SoundRing(LedgerPaths, sent_store)
  BY <1>3, <1>4, FS_EmptySet DEF SoundRing, WellFormed
<1>6. next_seq = 0
  BY <1>1, <1>3 DEF next_seq
<1>7. DOMAIN percap_acct = {} /\ percap_acct \in Accts
  <2>1. percap_acct = [x \in {} |-> 0]
    BY <1>1
  <2>2. [x \in {} |-> 0] \in [{} -> LedgerPaths]
    OBVIOUS
  <2>. QED  BY <2>1, <2>2 DEF Accts
<1>8. OutTrue(percap_acct, percap_out)
  <2>1. \A p \in LedgerPaths : Held(percap_acct, p) = {}
    BY <1>7 DEF Held
  <2>. QED  BY <1>1, <1>7, <2>1, FS_EmptySet DEF OutTrue
<1>9. SenderRecord \in BookRecords
  BY <1>1, <1>7 DEF SenderRecord, BookRecords
<1>10. MemoTrue({}, {}, {}, 0)
  BY DEF MemoTrue
<1>11. BooksTrue(SenderRecord, sent_store, recovered, 0)
  BY <1>1, <1>4, <1>7, <1>8, <1>9, <1>10 DEF BooksTrue, SenderRecord
<1>. QED  BY <1>1, <1>2, <1>4, <1>5, <1>6, <1>11 DEF SenderBooks

(* A new seq in the books.                                                 *)
LEMMA SenderBooksEmit ==
    ASSUME SenderBooks, EmitSource
    PROVE  SenderBooks'
<1> DEFINE n == next_seq
           p == Placement[n]
           K == RingKeys(sent_store)
           acct == [s \in DOMAIN percap_acct \cup {n} |-> IF s = n THEN p ELSE percap_acct[s]]
           out == [percap_out EXCEPT ![p] = @ + 1]
<1>1. /\ SoundRing(LedgerPaths, sent_store)
      /\ prev_ack \in Nat /\ prev_ack <= ack_seq
      /\ n \in Nat /\ prev_ack <= n /\ n <= LastSeq + 1
      /\ K = prev_ack .. n - 1 /\ recovered \in SUBSET (0 .. n - 1)
  BY DEF SenderBooks
<1>2. /\ SenderRecord \in BookRecords /\ sack_released = walked
      /\ walked \subseteq K \cap recovered /\ DOMAIN percap_acct = K \ sack_released
      /\ \A s \in DOMAIN percap_acct : percap_acct[s] = ring_get(sent_store, s)
      /\ OutTrue(percap_acct, percap_out)
      /\ MemoTrue(sack_memo, K, sack_released, n)
  BY DEF SenderBooks, BooksTrue, SenderRecord
<1>3. /\ n <= LastSeq /\ sent_store' = ring_insert(sent_store, n, p)
      /\ percap_acct' = acct /\ percap_out' = out
      /\ sack_memo' = sack_memo /\ sack_released' = sack_released /\ prev_ack' = prev_ack
      /\ ack_seq' = ack_seq /\ walked' = walked /\ recovered' = recovered
  BY DEF EmitSource, receiverBooks
<1>4. p \in LedgerPaths /\ p # None /\ LastSeq \in Nat
  <2>1. LastSeq \in Nat /\ Placement \in [0 .. LastSeq -> LedgerPaths] /\ None \notin LedgerPaths
    BY LedgerAssumption DEF LedgerAssumption
  <2>2. n \in 0 .. LastSeq
    BY <1>1, <1>3, <2>1
  <2>. QED  BY <2>1, <2>2
<1>. HIDE DEF n, p
<1>5. /\ SoundRing(LedgerPaths, sent_store') /\ RingKeys(sent_store') = K \cup {n}
      /\ \A s \in Int : ring_get(sent_store', s) = IF s = n THEN p ELSE ring_get(sent_store, s)
  BY <1>1, <1>3, <1>4, RingInserts
<1>6. RingKeys(sent_store') = prev_ack' .. (n + 1) - 1
  BY <1>1, <1>3, <1>5
<1>7. next_seq' = n + 1
  <2>1. prev_ack' \in Nat /\ n + 1 \in Nat /\ prev_ack' <= n + 1
    BY <1>1, <1>3
  <2>2. (IF sent_store'.slots = <<>> THEN prev_ack' ELSE last_key(sent_store') + 1) = n + 1
    BY <1>5, <1>6, <2>1, NextSeq
  <2>. QED  BY <2>2 DEF next_seq
<1>8. n \notin K /\ n \notin recovered /\ n \notin sack_released /\ n \notin DOMAIN percap_acct
  BY <1>1, <1>2
<1>9. /\ DOMAIN acct = DOMAIN percap_acct \cup {n} /\ acct[n] = p
      /\ \A s \in DOMAIN percap_acct : acct[s] = percap_acct[s]
      /\ acct \in Accts
  <2> DEFINE D == DOMAIN percap_acct \cup {n}
             f == [x \in D |-> IF x = n THEN p ELSE percap_acct[x]]
  <2>1. acct = f
    OBVIOUS
  <2>2. PICK E \in SUBSET Nat : percap_acct \in [E -> LedgerPaths]
    BY <1>2 DEF SenderRecord, BookRecords, Accts
  <2>3. f \in [D -> LedgerPaths] /\ D \in SUBSET Nat
    BY <1>1, <1>4, <2>2
  <2>4. f \in Accts
    <3>. HIDE DEF f, D
    <3>. QED  BY <2>3 DEF Accts
  <2>5. DOMAIN f = D /\ f[n] = p /\ \A s \in DOMAIN percap_acct : f[s] = percap_acct[s]
    BY <1>8
  <2>. HIDE DEF f, acct
  <2>. QED  BY <2>1, <2>4, <2>5
<1>. HIDE DEF acct
<1>10. OutTrue(acct, out) /\ out \in [LedgerPaths -> Nat]
  <2>1. /\ IsFiniteSet(DOMAIN percap_acct) /\ percap_out \in [LedgerPaths -> Nat]
        /\ \A q \in LedgerPaths : percap_out[q] = Cardinality(Held(percap_acct, q))
    BY <1>2 DEF OutTrue
  <2>2. IsFiniteSet(DOMAIN acct)
    BY <1>9, <2>1, FS_AddElement
  <2>3. ASSUME NEW q \in LedgerPaths
        PROVE  out[q] = Cardinality(Held(acct, q)) /\ out[q] \in Nat
    <3>1. IsFiniteSet(Held(percap_acct, q))
      BY <2>1, FS_Subset DEF Held
    <3>2. CASE q = p
      <4>1. Held(acct, q) = Held(percap_acct, q) \cup {n} /\ n \notin Held(percap_acct, q)
        BY <1>8, <1>9, <3>2 DEF Held
      <4>2. Cardinality(Held(acct, q)) = Cardinality(Held(percap_acct, q)) + 1
        BY <3>1, <4>1, FS_AddElement
      <4>. QED  BY <2>1, <3>2, <4>2
    <3>3. CASE q # p
      <4>1. Held(acct, q) = Held(percap_acct, q)
        BY <1>8, <1>9, <3>3 DEF Held
      <4>. QED  BY <2>1, <3>3, <4>1
    <3>. QED  BY <3>2, <3>3
  <2>4. out \in [LedgerPaths -> Nat]
    BY <2>1, <2>3
  <2>. HIDE DEF out
  <2>. QED  BY <2>2, <2>3, <2>4 DEF OutTrue
<1>. HIDE DEF out
<1>11. /\ sack_memo \in SUBSET (Nat \X Nat) /\ sack_released \in SUBSET Nat /\ walked \in SUBSET Nat
  BY <1>2 DEF SenderRecord, BookRecords
<1>12. SenderRecord' \in BookRecords
  BY <1>3, <1>9, <1>10, <1>11 DEF SenderRecord, BookRecords
<1>13. MemoTrue(sack_memo, K \cup {n}, sack_released, n + 1)
  <2>1. /\ \A i \in sack_memo : i[1] <= i[2] /\ i[2] < n
        /\ \A i, k \in sack_memo : i # k => i[2] + 1 < k[1] \/ k[2] + 1 < i[1]
        /\ \A i \in sack_memo, s \in K : i[1] <= s /\ s <= i[2] => s \in sack_released
    BY <1>2 DEF MemoTrue
  <2>2. \A i \in sack_memo : i[2] \in Nat /\ i[2] < n + 1 /\ ~(n <= i[2])
    BY <1>1, <1>11, <2>1
  <2>. QED  BY <1>11, <2>1, <2>2 DEF MemoTrue
<1>14. DOMAIN acct = (K \cup {n}) \ sack_released
  BY <1>2, <1>8, <1>9
<1>15. \A s \in DOMAIN acct : acct[s] = ring_get(sent_store', s)
  <2>1. DOMAIN acct \subseteq Int
    BY <1>1, <1>14
  <2>. QED  BY <1>2, <1>5, <1>8, <1>9, <2>1
<1>16. BooksTrue(SenderRecord', sent_store', recovered', n + 1)
  BY <1>2, <1>3, <1>5, <1>10, <1>12, <1>13, <1>14, <1>15 DEF BooksTrue, SenderRecord
<1>17. recovered' \in SUBSET (0 .. (n + 1) - 1)
  BY <1>1, <1>3
<1>. QED  BY <1>1, <1>3, <1>4, <1>5, <1>6, <1>7, <1>16, <1>17 DEF SenderBooks

(* What the sender's books give of its variables.                          *)
LEMMA SenderBooksGive ==
    ASSUME SenderBooks
    PROVE  /\ SoundRing(LedgerPaths, sent_store) /\ RingKeys(sent_store) \in SUBSET Nat
           /\ prev_ack \in Nat /\ next_seq \in Nat /\ prev_ack <= next_seq
           /\ \A s \in RingKeys(sent_store) : s < next_seq
           /\ SenderRecord \in BookRecords /\ sack_released = walked
           /\ walked \subseteq RingKeys(sent_store) \cap recovered
           /\ DOMAIN percap_acct = RingKeys(sent_store) \ sack_released
           /\ \A s \in DOMAIN percap_acct : percap_acct[s] = ring_get(sent_store, s)
           /\ OutTrue(percap_acct, percap_out)
           /\ MemoTrue(sack_memo, RingKeys(sent_store), sack_released, next_seq)
<1>1. /\ SoundRing(LedgerPaths, sent_store) /\ prev_ack \in Nat /\ next_seq \in Nat
      /\ prev_ack <= next_seq /\ RingKeys(sent_store) = prev_ack .. next_seq - 1
  BY DEF SenderBooks
<1>2. RingKeys(sent_store) \in SUBSET Nat /\ \A s \in RingKeys(sent_store) : s < next_seq
  BY <1>1
<1>3. /\ SenderRecord \in BookRecords /\ sack_released = walked
      /\ walked \subseteq RingKeys(sent_store) \cap recovered
      /\ DOMAIN percap_acct = RingKeys(sent_store) \ sack_released
      /\ \A s \in DOMAIN percap_acct : percap_acct[s] = ring_get(sent_store, s)
      /\ OutTrue(percap_acct, percap_out)
      /\ MemoTrue(sack_memo, RingKeys(sent_store), sack_released, next_seq)
  BY DEF SenderBooks, BooksTrue, SenderRecord
<1>. QED  BY <1>1, <1>2, <1>3

(* The drain of the queue keeps them.                                      *)
LEMMA SenderBooksDrain ==
    ASSUME SenderBooks, WireTrue, DrainSack
    PROVE  SenderBooks'
<1> DEFINE V == {w \in BookRecords : BooksTrue(w, sent_store, recovered, next_seq)}
           ranges == FlattenSeq(sack_rx)
           w == FoldLeft(MarkRange, SenderRecord, ranges)
<1>1. ranges \in Seq(TrueRanges(recovered))
  BY FlattenTyped DEF WireTrue
<1>2. SenderRecord \in V
  BY SenderBooksGive DEF SenderBooks
<1>3. ASSUME NEW v \in V, NEW r \in TrueRanges(recovered)
      PROVE  MarkRange(v, r) \in V
  <2>1. SoundRing(LedgerPaths, sent_store) /\ next_seq \in Nat /\ \A s \in RingKeys(sent_store) : s < next_seq
    BY SenderBooksGive
  <2>2. BooksTrue(MarkRange(v, r), sent_store, recovered, next_seq)
    BY <1>3, <2>1, RangeKeepsBooks
  <2>. QED  BY <2>2 DEF BooksTrue
<1>. HIDE DEF V, ranges
<1>4. w \in V
  BY <1>1, <1>2, <1>3, FoldStays
<1>5. /\ sack_memo' = w.memo /\ sack_released' = w.released /\ percap_acct' = w.acct
      /\ percap_out' = w.out /\ walked' = w.walked
      /\ UNCHANGED <<sent_store, prev_ack, ack_seq, recovered>>
  BY DEF DrainSack, SenderRecord, ranges, receiverBooks
<1>. HIDE DEF w
<1>6. w \in BookRecords /\ BooksTrue(w, sent_store, recovered, next_seq)
  BY <1>4 DEF V
<1>7. SenderRecord' = w
  BY <1>5, <1>6 DEF SenderRecord, BookRecords
<1>8. next_seq' = next_seq
  BY <1>5 DEF next_seq
<1>9. BooksTrue(SenderRecord', sent_store', recovered', next_seq')
  BY <1>5, <1>6, <1>7, <1>8
<1>. QED  BY <1>5, <1>8, <1>9 DEF SenderBooks

(* The cut at a new cumulative point keeps them.                           *)
LEMMA SenderBooksAdvance ==
    ASSUME ReceiverBooks, WireTrue, SenderBooks, OnAckAdvance
    PROVE  SenderBooks'
<1> DEFINE K == RingKeys(sent_store)
           n == next_seq
           below == {s \in DOMAIN percap_acct : s < ack_seq}
           acct == [s \in DOMAIN percap_acct \ below |-> percap_acct[s]]
           gone == 0 .. ack_seq - 1
           out == percap_release(percap_acct, percap_out, gone)
           kept == {s \in sack_released : s >= ack_seq}
           memo == memo_prune(sack_memo, ack_seq)
<1>1. /\ SoundRing(LedgerPaths, sent_store) /\ prev_ack \in Nat /\ prev_ack <= ack_seq
      /\ n \in Nat /\ prev_ack <= n /\ n <= LastSeq + 1 /\ K = prev_ack .. n - 1
      /\ recovered \in SUBSET (0 .. n - 1)
  BY DEF SenderBooks
<1>2. /\ SenderRecord \in BookRecords /\ sack_released = walked /\ walked \subseteq K \cap recovered
      /\ DOMAIN percap_acct = K \ sack_released /\ K \in SUBSET Nat
      /\ \A s \in DOMAIN percap_acct : percap_acct[s] = ring_get(sent_store, s)
      /\ OutTrue(percap_acct, percap_out)
      /\ MemoTrue(sack_memo, K, sack_released, n)
  BY SenderBooksGive
<1>3. /\ ack_seq > prev_ack /\ prev_ack' = ack_seq /\ ack_seq' = ack_seq
      /\ sent_store' = prune_below(sent_store, ack_seq)
      /\ sack_released' = kept /\ walked' = {s \in walked : s >= ack_seq}
      /\ sack_memo' = memo /\ percap_out' = out /\ percap_acct' = acct
      /\ recovered' = recovered
  BY DEF OnAckAdvance, receiverBooks
<1>4. ack_seq \in Nat /\ ack_seq <= n
  <2>1. /\ recovered \in SUBSET (0 .. LastSeq) /\ ack_seq \in 0 .. PointOf(recovered)
    BY DEF ReceiverBooks, WireTrue
  <2>2. PointOf(recovered) \in Nat /\ \A s \in Nat : s < PointOf(recovered) => s \in recovered
    BY <2>1, PointFound
  <2>3. ~(n < PointOf(recovered))
    BY <1>1, <2>2
  <2>. QED  BY <1>1, <2>1, <2>2, <2>3
<1>. HIDE DEF n
<1>5. /\ SoundRing(LedgerPaths, sent_store') /\ RingKeys(sent_store') = {s \in K : s >= ack_seq}
      /\ \A s \in Int : ring_get(sent_store', s) = IF s < ack_seq THEN None ELSE ring_get(sent_store, s)
  <2>1. ack_seq \in Int
    BY <1>4
  <2>. QED  BY <1>1, <1>3, <2>1, RingPrunes
<1>6. RingKeys(sent_store') = prev_ack' .. n - 1
  BY <1>1, <1>3, <1>4, <1>5
<1>7. next_seq' = n
  <2>1. prev_ack' \in Nat /\ prev_ack' <= n
    BY <1>3, <1>4
  <2>2. (IF sent_store'.slots = <<>> THEN prev_ack' ELSE last_key(sent_store') + 1) = n
    BY <1>1, <1>5, <1>6, <2>1, NextSeq
  <2>. QED  BY <2>2 DEF next_seq
<1>8. MemoTrue(memo, {s \in K : s >= ack_seq}, kept, n)
  BY <1>1, <1>2, <1>4, CutMemo
<1>9. /\ acct \in Accts /\ DOMAIN acct = DOMAIN percap_acct \ below
      /\ \A s \in DOMAIN percap_acct \ below : acct[s] = percap_acct[s]
  <2>1. percap_acct \in Accts
    BY <1>2 DEF SenderRecord, BookRecords
  <2>. HIDE DEF below
  <2>. QED  BY <2>1, LessAccount
<1>10. DOMAIN percap_acct \ below = DOMAIN percap_acct \ gone
  <2>1. \A s \in DOMAIN percap_acct : s \in Nat
    BY <1>2
  <2>2. \A s \in Nat : s < ack_seq <=> s \in gone
    BY <1>4
  <2>. HIDE DEF gone
  <2>. QED  BY <2>1, <2>2
<1>11. OutTrue(acct, out)
  <2>. HIDE DEF acct, gone, below
  <2>1. \A s \in DOMAIN acct : acct[s] = percap_acct[s]
    BY <1>9
  <2>2. DOMAIN acct = DOMAIN percap_acct \ gone
    BY <1>9, <1>10
  <2>. QED  BY <1>2, <2>1, <2>2, ReleaseCounts
<1>. HIDE DEF acct, gone, out, memo
<1>12. /\ memo \in SUBSET (Nat \X Nat) /\ kept \in SUBSET Nat /\ out \in [LedgerPaths -> Nat]
       /\ kept \subseteq {s \in K : s >= ack_seq} \cap recovered
  BY <1>2, <1>8, <1>11 DEF MemoTrue, OutTrue
<1>13. walked' = kept
  BY <1>2, <1>3
<1>14. SenderRecord' \in BookRecords
  BY <1>3, <1>9, <1>12, <1>13 DEF SenderRecord, BookRecords
<1>15. DOMAIN acct = {s \in K : s >= ack_seq} \ kept
  <2>1. \A s \in DOMAIN percap_acct : s \notin below <=> s >= ack_seq
    <3>1. \A s \in DOMAIN percap_acct : s \in Nat
      BY <1>2
    <3>. QED  BY <1>4, <3>1
  <2>. QED  BY <1>2, <1>9, <2>1
<1>16. \A s \in DOMAIN acct : acct[s] = ring_get(sent_store', s)
  <2>1. \A s \in DOMAIN acct : s \in Int /\ ~(s < ack_seq) /\ s \in DOMAIN percap_acct
    <3>1. \A s \in DOMAIN acct : s \in Nat /\ s >= ack_seq /\ s \in DOMAIN percap_acct
      BY <1>2, <1>9, <1>15
    <3>. QED  BY <1>4, <3>1
  <2>. QED  BY <1>2, <1>5, <1>9, <2>1
<1>. HIDE DEF kept
<1>17. BooksTrue(SenderRecord', sent_store', recovered', next_seq')
  BY <1>3, <1>5, <1>7, <1>8, <1>11, <1>12, <1>13, <1>14, <1>15, <1>16 DEF BooksTrue, SenderRecord
<1>18. prev_ack' <= ack_seq'
  BY <1>3, <1>4
<1>. QED  BY <1>1, <1>3, <1>4, <1>5, <1>6, <1>7, <1>17, <1>18 DEF SenderBooks

(* Every step keeps them.                                                  *)
LEMMA SenderBooksStep ==
    ASSUME ReceiverBooks, WireTrue, SenderBooks, [LedgerNext]_ledgerVars
    PROVE  SenderBooks'
<1>1. ASSUME UNCHANGED senderBooks, ack_seq' \in Nat, ack_seq <= ack_seq',
             recovered \subseteq recovered', recovered' \in SUBSET (0 .. next_seq - 1)
      PROVE  SenderBooks'
  <2>1. /\ UNCHANGED <<sent_store, prev_ack, next_seq>> /\ SenderRecord' = SenderRecord
    BY <1>1 DEF senderBooks, SenderRecord, next_seq
  <2>2. /\ SoundRing(LedgerPaths, sent_store) /\ prev_ack \in Nat /\ prev_ack <= ack_seq
        /\ next_seq \in Nat /\ prev_ack <= next_seq /\ next_seq <= LastSeq + 1
        /\ RingKeys(sent_store) = prev_ack .. next_seq - 1
        /\ BooksTrue(SenderRecord, sent_store, recovered, next_seq)
    BY DEF SenderBooks
  <2>3. BooksTrue(SenderRecord, sent_store, recovered', next_seq)
    BY <1>1, <2>2 DEF BooksTrue
  <2>4. ack_seq \in Nat
    BY PointFound DEF WireTrue, ReceiverBooks
  <2>5. prev_ack <= ack_seq'
    BY <1>1, <2>2, <2>4
  <2>. QED  BY <1>1, <2>1, <2>2, <2>3, <2>5 DEF SenderBooks
<1>2. /\ ack_seq \in Nat /\ recovered \in SUBSET (0 .. next_seq - 1) /\ next_seq \in Nat
  BY PointFound DEF WireTrue, ReceiverBooks, SenderBooks
<1>3. ASSUME NEW s \in 0 .. LastSeq, SymbolArrives(s)
      PROVE  SenderBooks'
  <2>1. /\ UNCHANGED senderBooks /\ ack_seq' = ack_seq /\ recovered' = recovered \cup {s} /\ s < next_seq
    BY <1>3 DEF SymbolArrives
  <2>2. LastSeq \in Nat
    BY LedgerAssumption DEF LedgerAssumption
  <2>3. s \in 0 .. next_seq - 1
    BY <1>2, <2>1, <2>2
  <2>. QED  BY <1>1, <1>2, <2>1, <2>3
<1>4. ASSUME NEW report \in wire, NEW repeated \in BOOLEAN, AckArrives(report, repeated)
      PROVE  SenderBooks'
  <2>1. /\ UNCHANGED senderBooks /\ recovered' = recovered
        /\ ack_seq' = Larger(ack_seq, report.next_expected)
    BY <1>4 DEF AckArrives, receiverBooks
  <2>2. report.next_expected \in 0 .. PointOf(recovered)
    BY DEF WireTrue
  <2>3. ack_seq' \in Nat /\ ack_seq <= ack_seq'
    BY <1>2, <2>1, <2>2 DEF Larger
  <2>. QED  BY <1>1, <1>2, <2>1, <2>3
<1>5. ASSUME UNCHANGED senderBooks, UNCHANGED <<ack_seq, recovered>>
      PROVE  SenderBooks'
  <2>1. ack_seq <= ack_seq'
    BY <1>2, <1>5
  <2>. QED  BY <1>1, <1>2, <1>5, <2>1
<1>6. CASE EmitSource
  BY <1>6, SenderBooksEmit
<1>7. CASE PruneReceived
  BY <1>5, <1>7 DEF PruneReceived
<1>8. CASE ReportLost
  BY <1>5, <1>8 DEF ReportLost, receiverBooks
<1>9. CASE DrainSack
  BY <1>9, SenderBooksDrain
<1>10. CASE OnAckAdvance
  BY <1>10, SenderBooksAdvance
<1>11. CASE UNCHANGED ledgerVars
  BY <1>5, <1>11 DEF ledgerVars, senderBooks
<1>. QED
  BY <1>3, <1>4, <1>6, <1>7, <1>8, <1>9, <1>10, <1>11 DEF LedgerNext

-----------------------------------------------------------------------------
(***************************************************************************)
(* The inductive invariant: the receiver's books, the reports under way    *)
(* and the sender's books.                                                 *)
(***************************************************************************)
LedgersTrue ==
    /\ ReceiverBooks
    /\ WireTrue
    /\ SenderBooks

(***************************************************************************)
(* The books of both ends are true, always: for any number of seqs and     *)
(* paths, any width of word and span of the bitmap, whatever reports are   *)
(* lost, repeated or overtaken.                                            *)
(***************************************************************************)
THEOREM LedgersInvariance == LedgerSpec => []LedgersTrue
<1>1. LedgerInit => LedgersTrue
  BY ReceiverBooksInit, WireTrueInit, SenderBooksInit DEF LedgersTrue
<1>2. LedgersTrue /\ [LedgerNext]_ledgerVars => LedgersTrue'
  BY ReceiverBooksStep, WireTrueStep, SenderBooksStep DEF LedgersTrue
<1>. QED  BY <1>1, <1>2, PTL DEF LedgerSpec

(***************************************************************************)
(* BitsExact, always: the bitmap, its counts and its runs are those of the *)
(* plain set it stands for.                                                *)
(***************************************************************************)
THEOREM BitmapIsTheSet == LedgerSpec => []BitsExact
<1>1. LedgersTrue => BitsExact
  BY BooksMakeBitsExact DEF LedgersTrue
<1>. QED  BY <1>1, LedgersInvariance, PTL

(***************************************************************************)
(* MemoExact, always: the memo of ranges seen marks what the full walk of  *)
(* every range would have marked.                                          *)
(***************************************************************************)
THEOREM MemoSavesTheWalk == LedgerSpec => []MemoExact
<1>1. LedgersTrue => MemoExact
  BY SenderBooksGive DEF LedgersTrue, MemoExact, MemoTrue
<1>. QED  BY <1>1, LedgersInvariance, PTL

(***************************************************************************)
(* AccountsExact, always: what is retained and not released is charged to  *)
(* its path, once, and the store holds all that is not delivered.          *)
(***************************************************************************)
THEOREM AccountsStayExact == LedgerSpec => []AccountsExact
<1>1. ASSUME LedgersTrue
      PROVE  AccountsExact
  <2>1. /\ ReceiverBooks /\ WireTrue /\ SenderBooks
    BY <1>1 DEF LedgersTrue
  <2>2. WellFormed(sent_store)
    BY <2>1, SenderBooksGive DEF SoundRing
  <2>3. /\ sack_released = walked /\ walked \subseteq RingKeys(sent_store) \cap recovered
        /\ DOMAIN percap_acct = RingKeys(sent_store) \ sack_released
        /\ \A s \in DOMAIN percap_acct : percap_acct[s] = ring_get(sent_store, s)
        /\ OutTrue(percap_acct, percap_out)
    BY <2>1, SenderBooksGive
  <2>4. \A p \in LedgerPaths :
           percap_out[p] = Cardinality({s \in DOMAIN percap_acct : percap_acct[s] = p})
    BY <2>3 DEF OutTrue, Held
  <2>5. cumulative_point .. next_seq - 1 \subseteq RingKeys(sent_store)
    <3>1. /\ prev_ack \in Nat /\ prev_ack <= ack_seq /\ next_seq \in Nat
          /\ RingKeys(sent_store) = prev_ack .. next_seq - 1
      BY <2>1 DEF SenderBooks
    <3>2. ack_seq \in 0 .. PointOf(recovered) /\ recovered \in SUBSET (0 .. LastSeq)
      BY <2>1 DEF WireTrue, ReceiverBooks
    <3>3. PointOf(recovered) \in Nat
      BY <3>2, PointFound
    <3>4. prev_ack <= PointOf(recovered)
      BY <3>1, <3>2, <3>3
    <3>5. PointOf(recovered) .. next_seq - 1 \subseteq prev_ack .. next_seq - 1
      BY <3>1, <3>3, <3>4
    <3>. QED  BY <3>1, <3>5 DEF cumulative_point, PointOf
  <2>. QED  BY <2>2, <2>3, <2>4, <2>5 DEF AccountsExact
<1>. QED  BY <1>1, LedgersInvariance, PTL
=============================================================================
