----------------------------- MODULE GapServer -----------------------------
(***************************************************************************)
(* Which reported holes the sender of a reliable window sends again.  A    *)
(* report is answered under a budget, a cooldown per seq and one of three  *)
(* laws of patience; under the law of several paths, evidence read off the *)
(* reports may overrule the clock.                                         *)
(*                                                                         *)
(* Clocks are sets: `young` holds the seqs whose flight is younger than    *)
(* its threshold, `cooling` those resent less than a cooldown ago; a seq   *)
(* leaves either at any time.  The hold-down gate is disarmed, its         *)
(* default; its records are kept, as the code does.                        *)
(***************************************************************************)
EXTENDS SackLaws, Enumerations, SequencesExt

CONSTANTS
    GapCount,        \* seqs 0 .. GapCount - 1 are sent
    source_path_map, \* seq -> the path its original takes
    GapThreshold,    \* MP_PACKET_THRESHOLD
    GapRanges,       \* ranges a SACK, and gaps a report, can name
    GapChan,         \* depth of gap_rx
    GapAcks,         \* WindowAcks in flight at a time
    GapRepairs       \* MAX_NACK_REPAIRS_PER_NACK

ASSUME GapAssumption ==
    /\ {GapCount, GapThreshold, GapRanges, GapChan, GapAcks, GapRepairs} \subseteq Nat \ {0}
    /\ DOMAIN source_path_map = 0 .. GapCount - 1

Laws == {"several", "single", "age"}
GapSeqs == 0 .. GapCount - 1
GapPaths == {source_path_map[s] : s \in GapSeqs}

VARIABLES
    law,          \* recov_mp_law with several paths, recov_sp with one, or neither
    gap_pc,       \* "wait" in the select!, "serve" after it
    pending_gaps, \* the report the arm took, first to be served
    gap_rx,      \* queued reports
    allowed,      \* cached_max_repairs
    nack_budget,  \* cached_nack_budget
    gap_next,     \* the next seq to emit
    gap_acked,    \* window_ack_seq
    gap_pruned,   \* prev_ack
    young,        \* seqs whose flight is below its threshold
    cooling,      \* seqs whose cooldown runs
    nack_retx_at, \* seqs resent for a report
    mp_delivered, \* path -> seqs taken to be delivered
    mp_evid_max,  \* the highest seq taken in as evidence
    first_report, \* seqs with a hold-down record
    air,          \* seqs with a copy in flight
    gap_received,      \* the receiver's received set
    gap_acks      \* WindowAcks in flight

senderGapVars == <<pending_gaps, gap_rx, allowed, nack_budget, gap_next, gap_acked,
                   gap_pruned, young, cooling, nack_retx_at, mp_delivered, mp_evid_max,
                   first_report>>
gapVars == <<law, gap_pc, senderGapVars, air, gap_received, gap_acks>>

NoReport == [reported |-> FALSE, gaps |-> {}]

GapInit ==
    /\ law \in Laws
    /\ gap_pc = "wait"
    /\ pending_gaps = NoReport
    /\ gap_rx = <<>>
    /\ allowed = 0 /\ nack_budget = 0
    /\ gap_next = 0 /\ gap_acked = 0 /\ gap_pruned = 0
    /\ young = {} /\ cooling = {} /\ nack_retx_at = {}
    /\ mp_delivered = [p \in GapPaths |-> <<>>] /\ mp_evid_max = 0
    /\ first_report = {}
    /\ air = {} /\ gap_received = {} /\ gap_acks = {}

-----------------------------------------------------------------------------
(***************************************************************************)
(* What the sender retains, and watches: the seqs not yet acknowledged.    *)
(***************************************************************************)
Retained == gap_pruned .. gap_next - 1

(***************************************************************************)
(* mp_delivered_intervals: what lies between two gaps is taken to be       *)
(* delivered, and the seq just past the last gap.                          *)
(***************************************************************************)
delivered_intervals(gaps) ==
    {s \in 1 .. last_seq(gaps) + 1 : s \notin gaps /\ \E g \in gaps : g < s}

(* Variant: a report's evidence is taken in whatever was taken in before.  *)
FreshAnew(gaps) == delivered_intervals(gaps) \cap Retained

(* Above the watermark, and of a path still on record.                     *)
Fresh(gaps) == {s \in delivered_intervals(gaps) \cap Retained : s > mp_evid_max}

Ingested(gaps) ==
    [p \in GapPaths |->
        mp_delivered[p] \o Ascending({s \in Fresh(gaps) : source_path_map[s] = p})]

(***************************************************************************)
(* mp_fast_lost: enough seqs above s are in its path's evidence.           *)
(***************************************************************************)
fast_lost(evidence, s) ==
    Cardinality({i \in DOMAIN evidence : evidence[i] > s}) >= GapThreshold

(* Variant: a seq is sent again for a report but once.                     *)
Ripe_once(s, evidence) == s \notin young /\ s \notin nack_retx_at

(***************************************************************************)
(* Does the law in force let a reported seq be sent again?  A seq without  *)
(* a flight on record is never held back, and the packet threshold speaks  *)
(* of originals only.                                                      *)
(***************************************************************************)
Ripe(s, evidence) ==
    \/ s \notin young
    \/ /\ law = "several"
       /\ s \notin nack_retx_at
       /\ fast_lost(evidence[source_path_map[s]], s)

Eligible(gaps, evidence) ==
    {s \in gaps \cap Retained : s \notin cooling /\ Ripe(s, evidence)}

(* The lowest k members of S.                                              *)
Lowest(S, k) == {s \in S : Cardinality({q \in S : q < s}) < k}

(* Variant: every record the report does not list is closed.               *)
resolved_all(gaps) == first_report \ gaps

(***************************************************************************)
(* HoldDownGauge::on_report: of the holes on record, those in the span the *)
(* report speaks of that it no longer lists.                               *)
(***************************************************************************)
resolved(gaps) == {s \in first_report \ gaps : s <= last_seq(gaps)}

(***************************************************************************)
(* A batch of gaps is answered, from the lowest up until the round's or    *)
(* the period's budget is spent.  The records it closes are closed before  *)
(* it opens its own; a sweep opens none.  A seq resent clocks its new      *)
(* flight, but for the age gate, which reads the original's.               *)
(***************************************************************************)
Answer(report) ==
    LET gaps     == report.gaps
        evidence == IF law = "several" THEN Ingested(gaps) ELSE mp_delivered
        eligible == Eligible(gaps, evidence)
        visited  == {s \in gaps : Cardinality({q \in eligible : q < s})
                                     < Smaller(allowed, nack_budget)}
    IN  \E served \in {Lowest(eligible, Smaller(allowed, nack_budget))} :
        /\ mp_delivered' = evidence
        /\ mp_evid_max' = IF law = "several" THEN Larger(mp_evid_max, last_seq(gaps) + 1)
                                             ELSE mp_evid_max
        /\ first_report' = (first_report \ resolved(gaps))
                             \cup (IF report.reported THEN visited ELSE {})
        /\ nack_retx_at' = nack_retx_at \cup served
        /\ cooling' = cooling \cup served
        /\ young' = IF law = "age" THEN young ELSE young \cup served
        /\ air' = air \cup (served \ gap_received)
        /\ \E margin \in 0 .. Cardinality(served) :
              nack_budget' = Monus(nack_budget, Cardinality(served) + margin)

(***************************************************************************)
(* One turn of serve_gaps: the arm's own report, then the queue; under the *)
(* law of several paths only its newest.  Without budget a report is       *)
(* dropped unread.                                                         *)
(***************************************************************************)
NextReport == IF pending_gaps # NoReport THEN pending_gaps
              ELSE IF law = "several" THEN Last(gap_rx) ELSE Head(gap_rx)

ServeReport ==
    /\ gap_pc = "serve"
    /\ pending_gaps # NoReport \/ gap_rx # <<>>
    /\ pending_gaps' = NoReport
    /\ gap_rx' = IF pending_gaps # NoReport THEN gap_rx
                  ELSE IF law = "several" THEN <<>> ELSE Tail(gap_rx)
    /\ IF allowed = 0 \/ nack_budget = 0
       THEN UNCHANGED <<mp_delivered, mp_evid_max, first_report, nack_retx_at, cooling,
                        young, air, nack_budget>>
       ELSE Answer(NextReport)
    /\ UNCHANGED <<law, gap_pc, allowed, gap_next, gap_acked, gap_pruned, gap_received,
                   gap_acks>>

(***************************************************************************)
(* on_ack_advance: the books forget what the cumulative ack covers.        *)
(***************************************************************************)
AdvanceAck ==
    /\ gap_pc = "serve"
    /\ pending_gaps = NoReport /\ gap_rx = <<>>
    /\ gap_pc' = "wait"
    /\ allowed' = 0 /\ nack_budget' = 0
    /\ gap_pruned' = gap_acked
    /\ young' = {s \in young : s >= gap_acked}
    /\ cooling' = {s \in cooling : s >= gap_acked}
    /\ nack_retx_at' = {s \in nack_retx_at : s >= gap_acked}
    /\ first_report' = IF gap_acked > gap_pruned THEN {s \in first_report : s >= gap_acked}
                                                 ELSE first_report
    /\ mp_delivered' = [p \in GapPaths |->
                          Kept(mp_delivered[p], {s \in GapSeqs : s >= gap_acked})]
    /\ UNCHANGED <<law, pending_gaps, gap_rx, gap_next, gap_acked, mp_evid_max, air,
                   gap_received, gap_acks>>

(***************************************************************************)
(* The loop wakes.  Its budgets, of a round and of the period, are what is *)
(* left or what a refresh grants: any; without one the other is no use.    *)
(***************************************************************************)
Rooms == {<<0, 0>>} \cup ((1 .. GapRepairs) \X (1 .. GapRepairs))

Wake(report, room) ==
    /\ gap_pc = "wait"
    /\ gap_pc' = "serve"
    /\ pending_gaps' = report
    /\ allowed' = room[1] /\ nack_budget' = room[2]
    /\ UNCHANGED <<law, gap_acked, gap_pruned, cooling, nack_retx_at, mp_delivered,
                   mp_evid_max, first_report, gap_received, gap_acks>>

GapArm(room) ==
    /\ gap_rx # <<>>
    /\ Wake(Head(gap_rx), room)
    /\ gap_rx' = Tail(gap_rx)
    /\ UNCHANGED <<gap_next, young, air>>

(* The tail sweep names the cumulative blocker in a batch of its own.      *)
SweepArm(room) ==
    /\ Retained # {}
    /\ Wake([reported |-> FALSE, gaps |-> {gap_pruned}], room)
    /\ UNCHANGED <<gap_rx, gap_next, young, air>>

(* Any other arm; a packet is emitted or not.                              *)
OtherArm(n, room) ==
    /\ gap_next + n <= GapCount
    /\ Wake(NoReport, room)
    /\ gap_next' = gap_next + n
    /\ young' = young \cup {s \in GapSeqs : gap_next <= s /\ s < gap_next + n}
    /\ air' = air \cup {s \in GapSeqs : gap_next <= s /\ s < gap_next + n}
    /\ UNCHANGED gap_rx

-----------------------------------------------------------------------------
(***************************************************************************)
(* Time passes.                                                            *)
(***************************************************************************)
Ripens(s) ==
    /\ s \in young
    /\ young' = young \ {s}
    /\ UNCHANGED <<law, gap_pc, pending_gaps, gap_rx, allowed, nack_budget, gap_next, gap_acked,
                   gap_pruned, cooling, nack_retx_at, mp_delivered, mp_evid_max, first_report,
                   air, gap_received, gap_acks>>

Cools(s) ==
    /\ s \in cooling
    /\ cooling' = cooling \ {s}
    /\ UNCHANGED <<law, gap_pc, pending_gaps, gap_rx, allowed, nack_budget, gap_next, gap_acked,
                   gap_pruned, young, nack_retx_at, mp_delivered, mp_evid_max, first_report,
                   air, gap_received, gap_acks>>

(***************************************************************************)
(* A copy arrives or is lost; or the receiver solves for the symbol.       *)
(***************************************************************************)
CopyArrives(s) ==
    /\ s \in air
    /\ air' = air \ {s}
    /\ gap_received' = gap_received \cup {s}
    /\ UNCHANGED <<law, gap_pc, senderGapVars, gap_acks>>

CopyLost(s) ==
    /\ s \in air
    /\ air' = air \ {s}
    /\ UNCHANGED <<law, gap_pc, senderGapVars, gap_received, gap_acks>>

SymbolSolved(s) ==
    /\ s < gap_next
    /\ s \notin gap_received
    /\ gap_received' = gap_received \cup {s}
    /\ air' = air \ {s}
    /\ UNCHANGED <<law, gap_pc, senderGapVars, gap_acks>>

GapFrontier ==
    CHOOSE f \in 0 .. GapCount : f \notin gap_received /\ 0 .. f - 1 \subseteq gap_received

(***************************************************************************)
(* A WindowAck leaves, from the data arm or the refresh timer.             *)
(***************************************************************************)
SendWindowAck ==
    /\ gap_acks' = gap_acks \cup
          {[next_expected |-> GapFrontier,
            sacked |-> received_sack_ranges(gap_received, GapFrontier, GapCount, GapRanges)]}
    /\ Cardinality(gap_acks') <= GapAcks
    /\ UNCHANGED <<law, gap_pc, senderGapVars, air, gap_received>>

(* Lost, at a time the sender could have taken it.                         *)
GapAckLost(a) ==
    /\ gap_pc = "wait"
    /\ a \in gap_acks
    /\ gap_acks' = gap_acks \ {a}
    /\ UNCHANGED <<law, gap_pc, senderGapVars, air, gap_received>>

(***************************************************************************)
(* on_window_ack: the point moves forward only, and the holes are queued   *)
(* when there is room.                                                     *)
(***************************************************************************)
OnWindowAck(a) ==
    LET gaps == sack_to_gaps(a.next_expected, a.sacked, GapRanges)
    IN  /\ gap_pc = "wait"
        /\ a \in gap_acks
        /\ gap_acks' = gap_acks \ {a}
        /\ gap_acked' = Larger(gap_acked, a.next_expected)
        /\ gap_rx' = IF gaps # {} /\ Len(gap_rx) < GapChan
                      THEN Append(gap_rx, [reported |-> TRUE, gaps |-> gaps]) ELSE gap_rx
        /\ UNCHANGED <<law, gap_pc, pending_gaps, allowed, nack_budget, gap_next, gap_pruned,
                       young, cooling, nack_retx_at, mp_delivered, mp_evid_max, first_report,
                       air, gap_received>>

GapNext ==
    \/ ServeReport \/ AdvanceAck
    \/ \E room \in Rooms : GapArm(room)
    \/ \E room \in Rooms : SweepArm(room)
    \/ \E n \in 0 .. 1, room \in Rooms : OtherArm(n, room)
    \/ \E s \in GapSeqs : Ripens(s)
    \/ \E s \in GapSeqs : Cools(s)
    \/ \E s \in GapSeqs : CopyArrives(s)
    \/ \E s \in GapSeqs : CopyLost(s)
    \/ \E s \in GapSeqs : SymbolSolved(s)
    \/ SendWindowAck
    \/ \E a \in gap_acks : GapAckLost(a)
    \/ \E a \in gap_acks : OnWindowAck(a)

GapSpec == GapInit /\ [][GapNext]_gapVars

(***************************************************************************)
(* Fairness.  The loop goes on; clocks run; the sweep timer fires again    *)
(* and again, and while the sender is idle the throttle's floor leaves it  *)
(* a repair; a symbol sent again and again arrives, and so does an ack.    *)
(***************************************************************************)
GapFairness ==
    /\ WF_gapVars(ServeReport) /\ WF_gapVars(AdvanceAck)
    /\ SF_gapVars(SweepArm(<<GapRepairs, GapRepairs>>))
    /\ WF_gapVars(SendWindowAck) /\ SF_gapVars(\E a \in gap_acks : OnWindowAck(a))
    /\ \A s \in GapSeqs : /\ WF_gapVars(Ripens(s)) /\ WF_gapVars(Cools(s))
                        /\ SF_gapVars(CopyArrives(s))

FairGapSpec == GapSpec /\ GapFairness

-----------------------------------------------------------------------------
(***************************************************************************)
(* The evidence of each path is in ascending order, as the binary searches *)
(* over it need, each seq once, of that path and not yet acknowledged; it  *)
(* was delivered, or it follows the blocker some sweep named (every seq    *)
(* below the blocker was).                                                 *)
(***************************************************************************)
EvidenceSound ==
    \A p \in GapPaths : LET evidence == mp_delivered[p] IN
        \A i \in DOMAIN evidence :
            /\ source_path_map[evidence[i]] = p
            /\ gap_pruned <= evidence[i] /\ evidence[i] <= mp_evid_max
            /\ \A j \in 1 .. i - 1 : evidence[j] < evidence[i]
            /\ evidence[i] \in gap_received \/ 0 .. evidence[i] - 2 \subseteq gap_received

(***************************************************************************)
(* Everything taken for evidence was delivered.                            *)
(***************************************************************************)
EvidenceProvable == \A p \in GapPaths : Range(mp_delivered[p]) \subseteq gap_received

(***************************************************************************)
(* A hole's record is closed only when the receiver has the symbol: no     *)
(* late, truncated or overtaken report, and no sweep, reads as its repair. *)
(***************************************************************************)
HealsTrue == [][\A s \in first_report \ first_report' : s \in gap_received]_gapVars

(***************************************************************************)
(* No law of patience, cooldown or budget strands a hole: every symbol     *)
(* sent is received in the end, whatever reports are lost.                 *)
(***************************************************************************)
HolesClose == \A s \in GapSeqs : (s < gap_next) ~> (s \in gap_received)
=============================================================================
