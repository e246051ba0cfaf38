--------------------------- MODULE EvictReceiver ---------------------------
(***************************************************************************)
(* The receiver task of a window with rho < 1 (EVICT): recovered symbols   *)
(* go through a hold that gives holes up, and the gauges beside it must    *)
(* keep a true account of every hole and every delivery while two sites,   *)
(* the message arm and the hold timer, move the frontier.                  *)
(*                                                                         *)
(* The decoder is abstracted as in WindowReceiver: it puts out a seq once, *)
(* remembers what it put out down to its floor and refuses what lies below *)
(* it.  The consumer's channel, which EVICT drops into when it is full,    *)
(* and the acks, WindowReceiver's, are left out.  Every seq may    *)
(* arrive any number of times.                                             *)
(***************************************************************************)
EXTENDS ReorderBuffer, SuccGauge, LatGauge

CONSTANTS
    Sent,       \* seqs 0 .. Sent - 1 are sent
    WinCap,     \* recv_win_cap, in symbols
    AbandonedTrackMax,  \* ABANDONED_TRACK_MAX
    MaxCascade  \* symbols one arrival recovers besides its own

ASSUME EvictAssumption ==
    /\ Sent \in Nat \ {0}
    /\ WinCap \in Nat
    /\ AbandonedTrackMax \in Nat
    /\ MaxCascade \in Nat
    /\ None # TRUE     \* an arrival record is not an empty slot

VARIABLES
    waiting,        \* the drained batch is exhausted: at the select!
    decoded,        \* the decoder's output set
    decoder_floor,
    reorder_buf,
    next_expected,
    succ,           \* blk.succ
    abandoned_seqs,
    lat_pending,    \* blk.lat's pending store
    once,           \* blk.lat's debug check
    recv_shed_holes,
    handed,         \* history: seqs handed to the consumer, in order
    parked,         \* history: the records a plain map would hold
    forced          \* history: holes given up for capacity

evictVars == <<waiting, decoded, decoder_floor, reorder_buf, next_expected, succ, abandoned_seqs,
               lat_pending, once, recv_shed_holes, handed, parked, forced>>

SentSeqs == 0 .. Sent - 1

EvictInit ==
    /\ waiting = TRUE
    /\ decoded = {}
    /\ decoder_floor = 0
    /\ reorder_buf = EmptyBuffer
    /\ next_expected = 0
    /\ succ = EmptyGauge
    /\ abandoned_seqs = {}
    /\ lat_pending = EmptyPending
    /\ once = NothingDelivered
    /\ recv_shed_holes = 0
    /\ handed = <<>>
    /\ parked = {}
    /\ forced = 0

-----------------------------------------------------------------------------
(***************************************************************************)
(* The loop's working state while one message is processed.                *)
(***************************************************************************)
Working(g, p, m) ==
    [rb |-> reorder_buf, g |-> g, p |-> p, m |-> m, o |-> once, ne |-> next_expected,
     ab |-> abandoned_seqs, out |-> handed, fc |-> forced]

(* The plain map's half of Pending::insert and Pending::deliver.           *)
ParkedInsert(seq, order) ==
    LET hi   == Max(parked)
        fit  == IF parked = {} THEN {} ELSE {s \in parked : seq - s < PendingSpanMax}
        next == Append(order, seq)
    IN  IF seq < lat_pending.floor THEN parked
        ELSE IF parked # {} /\ seq < Min(parked) /\ hi - seq >= PendingSpanMax THEN parked
        ELSE IF seq \in fit \/ Len(order) < PendingMax THEN fit \cup {seq}
        ELSE (fit \cup {seq}) \ {Head(next)}

ParkedDeliver(m, seq, floor) ==
    IF seq >= floor THEN {s \in m : s > seq} ELSE m \ {seq}

(***************************************************************************)
(* One symbol handed over by a push: the gauge first, then the consumer.   *)
(***************************************************************************)
Deliver(w, d, late) ==
    [w EXCEPT !.o   = check(@, d, late),
              !.p   = pending_deliver(@, d).p,
              !.m   = ParkedDeliver(@, d, w.p.floor),
              !.out = Append(@, d),
              !.ne  = Max({@, d + 1})]

Deliveries(w, out, late) == FoldLeft(LAMBDA v, d : Deliver(v, d, late), w, out)

(***************************************************************************)
(* The abandonment sweep, and the bounded set of what was given up.        *)
(***************************************************************************)
Newest(S, n) == {s \in S : Cardinality({q \in S : q > s}) < n}

Sweep(w) ==
    [w EXCEPT !.g  = abandon_below(@, w.rb.next),
              !.ab = Newest(@ \cup Abandoned(w.g, w.rb.next), AbandonedTrackMax)]

(* Variant: a late fill is declared in order.                              *)
push_symbol_unlate(w, seq) ==
    LET pushed == push(w.rb, seq)
        next   == [w EXCEPT !.rb = pushed.rb, !.ab = @ \ {seq}]
    IN  Sweep(Deliveries(next, pushed.out, FALSE))

(***************************************************************************)
(* One recovered seq: lateness is judged before the push, for every symbol *)
(* the push hands over.                                                    *)
(***************************************************************************)
push_symbol(w, seq) ==
    LET late   == seq < w.rb.next
        pushed == push(w.rb, seq)
        passed == pushed.rb.next - w.rb.next
        next   == [w EXCEPT !.rb = pushed.rb, !.ab = @ \ {seq},
                            !.fc = IF late THEN @ ELSE @ + passed - Len(pushed.out)]
    IN  Sweep(Deliveries(next, pushed.out, late))

Pushes(w, order) == FoldLeft(LAMBDA v, seq : push_symbol(v, seq), w, order)

(***************************************************************************)
(* Hold expiry: the entries buffered first, j of them, have expired.  The  *)
(* gauge is not told of these deliveries.                                  *)
(***************************************************************************)
Expire(w, j) ==
    LET expired == drain_expired(w.rb, j)
    IN  [w EXCEPT !.rb  = expired.rb,
                  !.out = @ \o expired.out,
                  !.ne  = Max({@} \cup {s + 1 : s \in ToSet(expired.out)})]

GivenUp(before, after, n) == recv_shed_holes + (after.next - before.next) - n

Observed(g, order) == FoldLeft(observe_high_at, g, order)

(***************************************************************************)
(* A data message of one symbol: `own` is its seq when it is a source      *)
(* symbol, `order` what the decoder puts out, in the order it does.  The   *)
(* arrival is recorded, then the holes it closes, then those it exposes;   *)
(* then each seq is pushed, and last the j expired entries are drained.    *)
(***************************************************************************)
Message(own, order) ==
    LET R     == ToSet(order)
        src   == own # {}
        s     == CHOOSE x \in own : TRUE
        p     == IF src THEN pending_insert(lat_pending, s, TRUE).p ELSE lat_pending
        m     == IF src THEN ParkedInsert(s, lat_pending.order) ELSE parked
        g     == resolve_at(succ, R, own)
        high  == Observed(g, order)
    IN  /\ \E fed \in {Pushes(Working(high, p, m), order)} :
           \E j \in 0 .. Len(fed.rb.pending) :
           \E w \in {Expire(fed, j)} :
               /\ reorder_buf' = w.rb
               /\ succ' = w.g
               /\ lat_pending' = w.p
               /\ parked' = w.m
               /\ once' = w.o
               /\ next_expected' = w.ne
               /\ abandoned_seqs' = w.ab
               /\ handed' = w.out
               /\ forced' = w.fc
               /\ recv_shed_holes' = GivenUp(fed.rb, w.rb, Len(w.out) - Len(fed.out))
        /\ decoded' = decoded \cup R
        /\ waiting' = FALSE
        /\ UNCHANGED decoder_floor

fresh(s) == s >= decoder_floor /\ s \notin decoded

(***************************************************************************)
(* The decoder puts out an arriving symbol before what follows from it.    *)
(***************************************************************************)
SourceArrives(s, C) ==
    /\ \A c \in C : fresh(c) /\ c # s
    /\ IF fresh(s)
       THEN \E order \in SetToSeqs(C) : Message({s}, <<s>> \o order)
       ELSE C = {} /\ Message({s}, <<>>)

RepairArrives(C) ==
    /\ \A c \in C : fresh(c)
    /\ \E order \in SetToSeqs(C) : Message({}, order)

(***************************************************************************)
(* The hold timer.  Unlike the message arm it sweeps at once.              *)
(***************************************************************************)
HoldTimer(j) ==
    /\ waiting
    /\ j \in 1 .. Len(reorder_buf.pending)
    /\ \E w \in {Sweep(Expire(Working(succ, lat_pending, parked), j))} :
           /\ reorder_buf' = w.rb
           /\ succ' = w.g
           /\ next_expected' = w.ne
           /\ abandoned_seqs' = w.ab
           /\ handed' = w.out
           /\ recv_shed_holes' = GivenUp(reorder_buf, w.rb, Len(w.out) - Len(handed))
    /\ UNCHANGED <<waiting, decoded, decoder_floor, lat_pending, once, parked, forced>>

(***************************************************************************)
(* The top of the loop with the drained batch exhausted: the decoder       *)
(* forgets what is inert.                                                  *)
(***************************************************************************)
InertFloor == LET below == next_expected - 1 - 2 * WinCap
              IN  IF below > decoder_floor THEN below ELSE decoder_floor

Wait ==
    /\ ~waiting
    /\ waiting' = TRUE
    /\ decoder_floor' = InertFloor
    /\ decoded' = {s \in decoded : s >= InertFloor}
    /\ UNCHANGED <<reorder_buf, next_expected, succ, abandoned_seqs, lat_pending, once,
                   recv_shed_holes, handed, parked, forced>>
-----------------------------------------------------------------------------
EvictSource ==
    \E s \in SentSeqs, C \in SUBSET SentSeqs :
        Cardinality(C) <= MaxCascade /\ SourceArrives(s, C)

EvictRepair ==
    \E C \in SUBSET SentSeqs :
        Cardinality(C) \in 1 .. MaxCascade + 1 /\ RepairArrives(C)

EvictTimer == \E j \in 1 .. MaxBuffered : HoldTimer(j)

EvictNext == EvictSource \/ EvictRepair \/ EvictTimer \/ Wait

EvictSpec == EvictInit /\ [][EvictNext]_evictVars

-----------------------------------------------------------------------------
(***************************************************************************)
(* HandedOnce: what the decoder put out is handed to the consumer once or  *)
(* is still held, whichever of the push, the capacity drain and the two    *)
(* expiry sites released it, although the decoder forgets and copies keep  *)
(* arriving.                                                               *)
(***************************************************************************)
HandedOnce ==
    /\ \A i, k \in DOMAIN handed : handed[i] = handed[k] => i = k
    /\ ToSet(handed) \cap ToSet(reorder_buf.pending) = {}
    /\ decoded \subseteq ToSet(handed) \cup ToSet(reorder_buf.pending)

(***************************************************************************)
(* OnceHolds: the debug build's assertions on the delivery order never     *)
(* fail, although the gauge is not told of the deliveries of a hold        *)
(* expiry: lateness is declared right at every delivery.                   *)
(***************************************************************************)
OnceHolds == once.ok

(***************************************************************************)
(* FrontierAgrees: the cumulative point the receiver acknowledges is the   *)
(* hold's frontier, which the gauge's floor never overtakes, and every seq *)
(* below it was handed over in order or given up and counted: by an expiry *)
(* in recv_shed_holes, or for capacity.                                    *)
(***************************************************************************)
HandedInOrder == {i \in DOMAIN handed : \A k \in 1 .. i - 1 : handed[k] < handed[i]}

FrontierAgrees ==
    /\ next_expected = reorder_buf.next
    /\ once.floor <= reorder_buf.next
    /\ next_expected = Cardinality(HandedInOrder) + recv_shed_holes + forced

(***************************************************************************)
(* HolesAccounted: the account of the holes adds up, through every bound.  *)
(***************************************************************************)
HolesAccounted ==
    succ.det = succ.orig + succ.rep + succ.aban + Cardinality(succ.open) + succ.over

(***************************************************************************)
(* ParkedExact: the ring of arrival records is the plain map it replaced,  *)
(* for the insertions in any order, the removals and the prunes it sees,   *)
(* and stays within both its bounds.                                       *)
(***************************************************************************)
ParkedExact ==
    LET r == lat_pending.ring
    IN  /\ WellFormed(r)
        /\ RingKeys(r) = parked
        /\ Len(r.slots) <= PendingSpanMax
        /\ r.len <= PendingMax
        /\ \A f \in 0 .. Sent + 1 :
              /\ count_below(r, f) = Cardinality({s \in parked : s < f})
              /\ \A hi \in 0 .. Sent : ring_range(r, f, hi) = {s \in parked : f <= s /\ s <= hi}
=============================================================================
