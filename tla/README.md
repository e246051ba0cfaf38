# A verification project for raptorpath

raptorpath carries the packets of a TUN device over several QUIC paths at once
and protects them by forward error correction (a sliding-window RLC code) and by
targeted retransmission. This directory holds TLA+ models of it, the TLC runs
that check them and TLAPS proofs about them: of the reliable window and its
data structures, the window and generation codecs, the EVICT receiver, the
answering of gap reports, the accounts of a path, and the tasks around it.

## The system

Each side is one process with a few long-lived tokio tasks.

| part | source (under `raptorpath/src`) | state it keeps | operations |
|---|---|---|---|
| window sender task | `net/mod.rs`, `net/sender_phases.rs`, `net/emit_source.rs`, `net/tx_inputs.rs` | encoder window, sent-data store, retransmit buffer, SACK marks, newest above-report, repair debt, path maps | one loop: take inputs, drain SACK reports, compute the store gate, `select!` over packet / input / gap / deficit / request / tail / flush arms, serve gaps, apply the cumulative ack |
| window receiver task | `net/receiver.rs`, `net/delivery.rs`, `net/reorder.rs` | received set, decoder, in-order hold, packets held for the consumer, ack bookkeeping | one loop: prune, `select!` over timers, `reserve()` wake and inbound batches; decode, deliver, acknowledge |
| SACK and gate laws | `net/sack.rs`, `net/delivery.rs` | none (pure), except the incremental counters | ranges, gap inversion, counter sync, report fold, released slots |
| control handling | `net/control_msg.rs` | atomics and bounded channels | `on_window_ack`, `on_ack`, `on_path_report`, requests, deficits |
| containers | `net/seq_ring.rs`, `net/seq_bits.rs` | a ring and a bitmap indexed by seq | insert, prune, count, runs |
| codecs | `fec/rlc_window.rs`, `fec/generation.rs`, `fec/unified.rs` | equations, recovered payloads, floor | add symbol, advance, repair (the unified decoder is the default, the sliding and the generation decoder its forerunners) |
| path I/O owner | `transport/io_owner.rs`, `transport/quic.rs`, `transport/protocol.rs` | one task and bounded lanes per path | stage, flush, send, receive, close |
| scheduler | `scheduler/{mod,path,place}.rs` | paths, in-flight counts, placement | add, remove, revive, charge, release, expire |
| rate control | `scheduler/copa.rs`, `transport/bbr_rs.rs`, `control/*` | estimators | feed, rate, window |
| cold tasks | `net/tasks/*`, `net/shed.rs` | none | path commands, fast-path control, reports, shutdown |
| front end | `main.rs`, `config.rs`, `gates.rs`, `routing.rs` | configuration | parse, open the TUN, routes |

The tasks meet at bounded channels (inbound batches, sender inputs, gap reports
16 deep, SACK reports 64 deep, the TUN inject channel) and at a few atomics
(`peer_window_ack`). Most control channels are written with `try_send`: a report
that finds its channel full is dropped. Datagrams are lost, reordered and, since
copies and acks go out on several paths, duplicated.

What is hard in it: the receiver acknowledges cumulatively, and the ack frees the
sender's only copy, yet delivery can stop at a full consumer channel in the
middle of a symbol; the sender's gate counts slots free from reports that are
late and reordered, against a store that moved on; both ends forget old state
and must still recognise old copies; and the end of a transfer has no later
traffic to reveal a loss. In the codec one symbol may set off a cascade of
deliveries, displaced rows and new pivots, inside a loop without a bound, over
state that is forgotten from below. `PROJECT.json` lists the hazards at their lines.

What makes each part correct:

- receiver: packets reach the consumer once, in order unless out-of-order was
  asked for; the cumulative point never passes a held packet;
- sender: a symbol is retained until the consumer has it; the gate never reuses
  more slots than the receiver accounts for; a full store drains;
- laws: the counters are exact, the reports truthful, the readings conservative;
- codec: what is decoded is what was sent, each symbol once; no equation is
  lost and every source that the equations determine is handed on;
- EVICT receiver: a hole given up, or filled late, is accounted for once; nothing
  is handed on twice; the point acknowledged is the frontier of the hold;
- ledgers: the memo, the accounts, the ring and the bitmap are what the plain
  walk, map and set they replace would be;
- gap answers: what counts as evidence of delivery was delivered, a repair is
  seen where there was one, and no hole waits for ever;
- path accounting: reorder is not loss; the budget stays between what is sent and
  unaccounted for and that less what left uncharged, expired or was cleared;
- generation coding: a payload still referred to is retained, a reported deficit
  is what is missing, and every generation decodes;
- I/O owner and cold tasks: what was read is neither lost nor overtaken while a lane
  is full (quinn's buffer may overflow meanwhile), and no full lane blocks the tasks
  for good.

## The modules

| module | models | kind |
|---|---|---|
| `SackLaws` | `net/sack.rs`, `delivered_prefix`, `decode_inert_floor` | operators; a list of ranges is the set of seqs it covers |
| `WindowLink` | the datagrams in flight | state and loss; external code |
| `RetentionSender` | the sender's loop at rho = 1 | one action per `select!` arm, with the loop tail in each |
| `WindowReceiver` | the receiver's loop at rho = 1 | one action per arm, the data arm split into source and coded symbol |
| `WindowArq` | the composition, the properties, fairness | specification |
| `ReliableStream` | what the window promises | abstract specification |
| `WindowArqProofs` | theorems of `WindowArq`: store, acks and marks; then order, counts, gate and refinement | proofs |
| `CodedRows` | `URow`, `gf256`, the symbols | the field and the rows, as operators |
| `RlcEncoder` | the encoder of `fec/rlc_window.rs`, and a network | state and actions |
| `UnifiedDecoder` | `fec/unified.rs` | one action per step of `assimilate`, `add_symbol` and `advance` |
| `SlidingDecoder` | the decoder of `fec/rlc_window.rs` | one action per call, and the cascade |
| `WindowCodec` | encoder, network and unified decoder, the properties | specification |
| `ErasureCode` | what a window decoder promises | abstract specification |
| `DecoderPair` | both decoders fed the same symbols | specification |
| `WindowCodecProofs` | theorems of `WindowCodec` and of `DecoderPair` | proofs |
| `Enumerations`, `DataLemmas` | sets and positions in ascending order; lemmas on them, on folds, on intervals and on the ring of `SeqRing` | operators; proofs |
| `RowLemmas` | what the row operations of `CodedRows` preserve | proofs |
| `ReorderBuffer`, `SuccGauge`, `LatGauge` | `net/reorder.rs`, `net/succ.rs`, `net/lat.rs` | operators on records |
| `EvictReceiver`, `EvictProofs` | the receiver's loop at rho < 1; theorems | state and actions over the three; proofs |
| `SeqRing`, `SeqBits`, `SackMemo` | `net/seq_ring.rs`, `net/seq_bits.rs`, `SackMemo` of `net/sack.rs` | operators on records |
| `SentLedger` | the per-seq books of both ends, over the three | specification |
| `GapServer` | `serve_gaps`, the recovery laws, the reported-hole records of `net/holddown.rs` | specification, fairness |
| `PathLedger` | `PathBatchTracker`, `PathState`'s charges, `LossCredit`, death and revival | specification |
| `LedgerProofs` | theorems of `PathLedger`, `GapServer` and `SentLedger` | proofs |
| `GenerationEncoder`, `GenerationDecoder`, `GenerationCodec` | `fec/generation.rs`, and a network | state and actions; composition |
| `GenerationProofs` | theorems of `GenerationCodec` | proofs |
| `GenFeedback` | the deficit loop of generation coding | specification, fairness |
| `PathOwner`, `PathOwnerProofs` | `transport/io_owner.rs`, `net/tasks/*`, the channels between them and the loops; theorems | specification, fairness; proofs |
| `SmallField` | a field of four elements | for the instances |
| `MCWindowArq`, `MCDecoderPair`, `MCGapServer`, `MCPathOwner` | instances for TLC | model values |
| `MCWindowLoops` | `WindowArq` or `GapServer` | a suite |
| `MCBooks` | `EvictReceiver`, `SentLedger`, `PathLedger` or `GapServer` | a suite |
| `MCGeneration` | `GenerationCodec` or `GenFeedback` | a suite |

A suite checks components that share no state in one run: its variable `subject`
is chosen at the start and only that component moves. Its states are the sum of
the components' states, not their product.

**Sender.** `pc` is the position in an iteration: `"top"` (inputs may be taken,
then `DrainSack`), `"select"` (waiting), `"input"` (the input arm has resolved;
it may take several acks). Every arm ends in `FinishIteration`, the code after
the `select!`: `serve_gaps` empties the gap queue, `on_ack_advance` prunes the
store, the retransmit buffer and the marks. `EmitArm` is the packet arm with the
burst loop, or with the packer (`TaperCopy` is the correction of `emit_source`
that repeats the oldest watched symbol); `PackerFlush` the flush timer, which the gate
does not guard; `TailArm` the sweep of the cumulative blocker.

**Receiver.** `ReceiveSource` and `ReceiveRepair` are the data arm for a data
message of one symbol: decode, hand over, acknowledge. `Wait` is the loop top
with the drained batch exhausted (counter sync and prune), which the timers and
the `reserve()` wake need (`waiting`). `HoleRefresh` is the reliable branch of
the hold timer, `ReserveWake` the `reserve()` arm. `ConsumerTake` is the task
that writes the TUN.

**Unified decoder.** A call (`FeedSource`, `FeedRepair`) passes the floor, the
dedup sets and the fast path for known spans, and puts one item on the worklist
`work`. The loop of `assimilate` is then cut into steps: `KnownAlready` and
`AssimilateKnown` for a payload (back-substitution, the displaced row, rows that
became unit); `EliminateKnown`, `ReduceByPivot` a column at a time, and then
`Dependent`, `Solved` or `StoreRow` (Gauss-Jordan and the unit sweep) for an
equation. An item is `"eq"` until its known columns are gone and `"row"` after.
The next call comes when the worklist is empty, as the code is synchronous.
`Advance` is the pruning at the floor. `given` is a history variable, the
deliveries that reach the caller: one below the floor is filtered by the code.

**Sliding decoder.** `FeedSource`, `FeedRepair`, `insert_equation` and the
cascade, which discards the pivot row of a recovered source.

**EVICT receiver.** `push_symbol` is what the loop does with one recovered seq:
the lateness judgement, the push into the hold, the drain it allows and a drain
for capacity, the gauges at each delivery. `Message` is the arm of a data
message, with the hold expiry that follows it; `HoldTimer` the expiry arm when
nothing arrives; `Wait` the pruning with the drained batch exhausted. `handed`
is a history variable. `SuccGauge` has the holes' three outcomes and both its
bounds, `LatGauge` the ring of arrival records and the debug build's check of
the delivery order, whose assertion is the flag `once.ok`.

**Books of the window.** `SentLedger` has `EmitSource` (store and charge
together), `DrainSack` (marks through the memo, releases), `OnAckAdvance` (every
prune at one cumulative point), and at the receiver the bitmap with its running
count. Each structure runs beside the plain one it replaced, as the history
variables of the properties. `WindowArq` takes the memo's marks to be those of
the full walk; `MemoExact`, a theorem, is what allows it.

**Gap answers.** `Wake` is the `select!` with the budgets the round starts from;
`GapArm` and `SweepArm` put a batch in `pending_gaps`, `OtherArm` none.
`ServeReport` is one turn of the loop of `serve_gaps`, from the batch taken to
the evidence, the records and the seqs sent again; `AdvanceAck` the prunes of
`on_ack_advance`. `law` is which of the three rules of patience is in force: of
several paths (`RWM_RECOV_MP`), of one (`RWM_RECOV_SP`), or the age gate.

**Path accounts.** `SendBatch` takes a `path_seq` and charges it, as every sender of
source symbols, copies and coded symbols does; `SendUncharged` is the gap loop's
retransmit and margin repair, which charge only under `RWM_CHARGE_RECOVERY` (off by
default). `BatchArrives` is the tracker's record of a batch, and the
totals go out in `WindowAck`s; `WindowAck` at the sender diffs them, feeds the
estimator through the credit and releases the charge log; `ExpireInFlight`,
`PathDies` and `HeardOf` are the sweep, the death and the revival.

**Generation coding.** The encoder's codable generations, filling prefixes and
floors; the decoder's systems, one per (anchor, width), over one payload store.
`FeedSource` and `FeedRepair` are a call up to the first delivery, `Propagate`
injects one delivered seq into the other systems. `GenFeedback` is the loop
around it: `SendDeficits` at the receiver, `OnDeficits` (the arm that takes what
it believes in flight off the deficits), `EmitProactive` and `EmitRecovery`.

**Path and tasks.** `PathOwner` has one path, from `add_path` to `remove_path`:
the owner's connect phase and `serve` loop arm by arm, with the batches it holds
when a channel is full and the reading it then stops; the sender's stage and
flush over two lanes; the receiver's sends; the control fast path; the report
task with its timeout; and the path command task.

**Abstractions of the window.**

- A seq stands for its symbol. `SymbolOf` says which symbol carries each packet:
  one each, or several when the sender packs.
- Field arithmetic (of this composition; `WindowCodec` has it): a coded symbol, or an equation buffered, resolves at most one
  emitted symbol that is not yet recovered, or none. `pivots` bounds the
  equations buffered; it is not lowered when the floor drops some, which only
  allows more.
- The received set and the decoder's output set receive the same inserts and the
  same prunes, and are one variable.
- Clocks: cooldowns, repair budgets and ripeness choose which reported gaps are
  sent again, so any subset is allowed. The gap rate limit is a Boolean input.
- Pacing and congestion pauses only delay emission, which nothing forces.
- `Accept` lets the consumer, another task, take packets between two `try_send`s.
- At rho = 1 a late symbol (below the hold's frontier) is never handed over, which
  `ReleasedRefused` in the proofs establishes; its definition is kept since a
  decoder that forgot would reach it.
- Store release by SACK (`RWM_STORE_SACK_RELEASE`) is on, its default;
  `RWM_ACK_MERGE` is the constant `AckMerge`.
- Acks wait in the staging batch before they are sent: a delay of the network.
  When `AckCap` acks are in flight, a new one displaces one: a loss.
- `SackMemo`, a cache that skips ranges marked before, is taken to mark what a
  full walk would (checked and proved: `MemoExact`).

**Abstractions of the codec.**

- A payload is the vector of what it is made of: source `s` is `Unit(s)` and a
  coded payload the combination that was computed. An equation is then right
  exactly when its payload equals its coefficients, and a delivery when it is
  `Unit(s)`. Padding and lengths are left out.
- The field is any field of characteristic 2, with non-zero coefficients, which
  is what `generate_window_coefficients` draws from GF(256). Nothing is assumed
  of their independence. The instances use GF(4), with coefficients that depend
  on span, index and offset, so dependent and independent equations both occur.
- Rows are dense vectors; a row's start and its growth are the code's layout.
- Any range of retained sources may be coded at any time, and the floor may be
  raised to any point of the stream: more than the sender and the receiver do.
- `FILL_FLAG` (a repair over the filled prefix of a generation) is in
  `GenerationEncoder` only; the probes and the counters are left out.

**Abstractions of the others.**

- Instants: an expiry, a charge or a flight is older than its bound at any time,
  oldest first where the code's order makes it so. The clocks follow measured
  round-trip times, so no order between two of them can be relied on.
- Batches carry one symbol, as in window mode, and a charge is of one: that is what
  the shipped senders pass to `charge_in_flight`. `RWM_CHARGE_RECOVERY` is off, its
  default.
- `generation` runs with `ReactCap` on (one deficit acted on per round trip), and
  `RaiseFloor` asks that everything below the new floor has been handed on, as is so
  of `run_receiver`'s floor, which lies below its in-order frontier.
- `GapServer`: reliable mode; the law does not change; the hold-down is disarmed,
  its default; one packet threshold. A budget is any value it may have after the
  margin's repairs. A copy of a symbol already received is left out.
- `GenFeedback` keeps of `gen_emitted` and `gen_emitted_at_report` their difference;
  an arrival adds a degree of freedom until the generation is whole (that ranks
  are honest is `DeficitHonest`).
- `PathOwner` bounds the work by a load of datagrams, messages and ticks; every
  channel has one slot, so that being full is ordinary. quinn's incoming buffer,
  bounded in bytes in the code (`datagram_receive_buffer_size`, 4 MiB), holds
  `QuinnCap` datagrams here; full, it drops its oldest, and `overflowed` records it.
  The other paths and the end of the tunnel are left out.

## The runs

| run | instance | what it shows |
|---|---|---|
| `in_order` | 3 symbols of 4 packets, packing, store 1, channel 1, one SACK range | type, loss-freedom, order, gate, marks, counter, acks; the flush timer's excess is one symbol; refinement of `ReliableStream` where a symbol's packets are held apart |
| `ooo` | 2 symbols (3 packets), store 1, a coded symbol, 2 acks | the same refinement in the out-of-order corner: each packet once |
| `loops` | 2 symbols, store 2, bursts of 2; 2 gaps of one path, under each law; fairness | the store drains, every packet is delivered, every hole closes |
| `codec` | 3 sources, 2 coded symbols, fairness | type, true payloads, echelon form, each source once, refinement of `ErasureCode`, nothing missed that the sliding decoder finds; the worklist runs empty |
| `books` | 5 seqs (EVICT, ledgers), 4 batches (path), 3 gaps on 2 paths | the exactness of every account, ring, memo and gauge; evidence and healing of gap reports |
| `generation` | 3 sources in generations of 2, 2 coded symbols; 2 generations of width 2 | payloads, ranks; every generation decodes |
| `path_tasks` | channels of one slot, 6 loads | nothing lost or out of order, no ack before the path is known, no wedge |
| `no_merge` | 2 symbols, store 1, `AckMerge = FALSE`, fairness | violated: finding below |
| `reorder_bound` | 4 symbols, store 2 | violated: finding below |
| `pair_in_order` | 3 sources, 3 coded symbols, in order | violated: finding below |
| `path_missing` | 4 batches | violated: finding below |
| `sweep_evidence` | 2 gaps on 2 paths | violated: finding below |

Why these bounds are enough for the questions asked: a hole needs one symbol
missing and one above it (2 symbols), a gate reopened by SACK behind a hole a
third, a report that a later emission outruns a third too. A channel of 1 is
full after every packet, so every symbol meets the held path. `WinCap = 0`
makes the floor follow the cumulative point at distance one, so pruning happens
in every run. One SACK range makes the prefix rule bite. The queue depths of 1
make `try_send` losses ordinary. `MaxRepairs`, `AckCap` and `N` bound what is in
flight and sent. With a store of 1 a packing sender still has up to three symbols
retained: SACK frees slots, and the flush timer ignores the gate.

For the codec: a displaced row needs a stored row and a late source of it (2
sources, 1 coded symbol); a cascade through two rows needs 3 sources and 2 coded
symbols. Symbols stay on the wire, so each is repeated at will. A third coded
symbol, which makes new pivots meet stored rows from both sides, is in
`pair_in_order`; the theorems hold for any number.

For the books: a hold of 2 is drained for capacity by the third symbol buffered;
one open hole and a span of 2 put both bounds of the gauge in play; a ring of
span 3 with 2 entries sheds by both of its rules; words of 2 bits and a span of 4
make a prune end inside a word and an insert be refused. Two reports on the wire
overtake each other. Four batches give a gap, its late filling and a loss after
it, two acks an overtaking; a fifth leaves room for one sent without a charge, whose
ack then releases another's, and for a death and a revival with charges behind it.
For the gaps: 3 seqs on two alternating paths put two on one path, so that one is
evidence about the other (`GapThreshold` is 1, the code's is 3); one gap a
report leaves others unlisted, one repair a round makes the budget bite. In
`loops` both gaps are on one path, for the same reason.

For generation coding: the last generation is partial (3 sources of 4), a
generation of 2 with 2 coded symbols is solved by sources, by repairs and by
both, on two grids (an anchored and a sliding range). For the tasks: the loads let every two
producers compete for a channel's only slot; five datagrams in one lane are one taken,
one in the channel or held, two in quinn's buffer and one that overflows it while the
reads pause, and two lanes make the one dropped be of the other lane.

Deadlock is not checked: in every instance a bounded supply (packets of the TUN,
sources, batches, loads) is used up and the system then stops, as it should.

**Fairness.** In the window, the loops keep running (`WF` on the drain, the input
arm, the receiver's wait and the consumer). `select!` polls its arms in random
order, so an arm ready again and again is taken (`SF` on the tail sweep and on
`reserve()`, which other arms may interrupt). The tail sweep's send is fair because
the NACK throttle has an idle floor that restores its budget. Paths are fair-lossy:
a symbol, or an ack that carries the current cumulative point, that is sent again
and again arrives. Nothing is assumed of the TUN, the hole timer or coded symbols:
the sweep and the merged ack suffice.

`WindowArq` assumes that the sweep's send happens; `GapServer` says why: its
fairness is that the loop goes on, that time passes (`WF` on `Ripens` and `Cools`),
that the sweep timer fires again and again with the idle floor's budget, and
fair-lossy paths, and `HolesClose` then shows that no cooldown, rule of patience or
budget holds a seq back for ever. Nothing is assumed of the gap reports: each may
be lost or find its channel full.

In `codec` the only fairness is that a call that has begun runs on (`WF` on
`DecoderStep`): it is a plain loop. In `GenFeedback` the report timer and the
sender's arm run on (`WF`), recovery symbols are emitted and those of a generation
that are sent again and again arrive (`SF`), and so do reports. In `PathOwner`
every task whose next step stays ready takes it and a connection attempt ends
(`WF` only; as the work is bounded, a task that waits for room needs no stronger
turn). Nothing is assumed of the peer, the timeouts, the ticks and the removals.

## What is proved

`WindowArqProofs` proves, for all values of the constants that the named
assumptions `LinkAssumption`, `SenderAssumption` and `ReceiverAssumption` admit:

- `TypeCorrect`: `TypeOK` always holds;
- `NothingIsLost`: a symbol that left the store was wholly accepted by the
  consumer's channel;
- `AcksAreTruthful`: no cumulative point passes a held packet;
- `MarksAreSound`: a SACK-marked slot is retained and its symbol received.

They follow from `Invariance`, `Spec => []IInv`. None of the properties is
inductive alone. `IInv` joins to them:

- `PackerHasRoom`: a partial symbol always has a seq left to take;
- `Retained`: the store holds every symbol from the applied ack to the newest;
- `AcksTrail`: the applied ack trails the heard one, which trails the receiver's
  cumulative point, as do all acks in flight, and so does the floor;
- `ReleasedRefused`: the decoder refuses everything the hold has released;
- `ReleasedKept`: a released packet is with the consumer or held;
- `SacksTruthful`: what a SACK range covers, in flight or queued, is received or
  already below the cumulative point.

`NothingLost` is then: not retained, so below the applied ack, so below the
receiver's point, so released, and not held since `AckTruthful`. The chief
lemmas are about the data: `AcceptKeeps` (accepting part of a queue loses and
reorders nothing), `DeliverablePackets` (what is handed over are exactly the
packets of the released symbols), `FrontierEndsRun`, `SendAckAdds`, `NewestReport`
(a fold's maximum exists), `RecoveredKeeps` and `RecoveredAdvances` (a recovery
keeps what was released and only moves the frontiers forward). `NextInvariant`
has one step per action.

It then goes on from `IInv`, with two more inductive invariants.

- `StreamInvariance`: `StreamInv`. The flow is what the consumer took, then what
  its channel and the hold for it still have: only packets of emitted symbols
  (`OnlyEmitted`), all of those below the frontier (`FlowPassed`), each once
  (`FlowOnce`), and in order in the in-order corner (`FlowInOrder`).
  `ConsumerSeesOrder` is `InOrder`; `WindowImplementsStream` is the refinement
  `ImplementsStream`: a step lets the flow grow by symbols emitted, or moves
  packets along it, and is a step of `ReliableStream` or a stutter.
- `GateInvariance`: `GateInv`. A report's *measure* is its cumulative point and its
  count above it. `CountsTruthful` says that no report on the wire, queued or
  folded measures more than the receiver has, and that a higher point never
  measures less, so reports may overtake each other; `StoreIsInterval` that the
  store is all from the applied ack on; `CapKept` that the excess of a flush over
  the cap is one symbol, and none while the packer still holds one. Its theorems are
  `AboveIsExact`, `OutstandingStaysBounded` and `GateIsSound`.

`WindowCodecProofs` proves, for every field of characteristic 2, all non-zero
coefficients and any number of sources and coded symbols (`SizeAssumption`,
`FieldAssumption`, `CoefficientAssumption`):

- `TypeCorrect`: `TypeOK` always holds;
- `PayloadsAreTrue`: what is known is what was sent, and every row holds;
- `RowsStayReduced`: reduced echelon form between any two steps;
- `HandedOnOnce`: no source reaches the caller twice;
- `CodecImplementsCode`: `ImplementsCode`, the refinement of `ErasureCode`; and
  `PairImplementsCode`, the same beside the sliding decoder;
- `UnifiedIsSuperset`: `Superset`, of the two decoders side by side.

The first four follow from its `Invariance`. The echelon form is not inductive without the
worklist: `WorkSound` adds that only the item at the head can have lost its known
columns, and that it has none of them left, which is why a row stored from it is
zero at every known source; `WireSound`, that a symbol in flight is the
combination its header names; `Once`, that what was handed on above the floor is
remembered. The lemmas on rows are in `RowLemmas` (`SubstituteSound`, `SubScaledSound`,
`NormalizedSound`, `UnitRow`); then there is one lemma per action.

The refinement maps the decoder to the space its equations span (`Space`): what it
knows, its rows and the items of the worklist. A *linear form* is a function from
vectors to the field that respects the row operations (`Forms` in `RowLemmas`), and
a vector is *entailed* by equations when every form that vanishes on those vanishes
on it. `SpanIsEntailed` shows that the combinations the fold of `Span` gathers are
exactly the vectors entailed, so that a span can be reasoned about without its
combinations. Then, for each action of the codec:

- a call with a symbol adds its equation, or nothing (`ReceiveLearns`,
  `EquationLearnt`). A call starts with the worklist empty, and `IdleIsComplete`
  gives the promise that then everything the space determines has been handed on: a
  source not known can be told from the rows by a form (`Undetermined`, which needs
  that no pivot is known: `Apart`);
- a step of the worklist neither loses nor invents an equation
  (`AssimilateKeepsForms`), and it hands over only what the space determines
  (`AssimilateGives`);
- raising the floor keeps exactly what follows without the columns below it
  (`RaiseFloorForgets`): `AnnulsFrom` and `ColumnCleared` take a vector of the space
  that is zero below the floor to one of the rows kept, column by column, which is where
  the reduced echelon form is needed.

`CodecInv` is the invariant of all this: `Invariance` with `Apart` and `HandedOn`
(what is known above the floor has been handed on once).

`Superset` relates two eliminations that store different rows, so it is proved
through what both entail. No step of the worklist invents an equation, the cascade of
the sliding decoder invents none (`CascadeKeeps`), and so `PairInv` (`CodecInv`, the
soundness of the sliding decoder, `Joint`) says that a form that vanishes on all the
unified decoder has vanishes on all the sliding one has (`Covered`). A source the
unified decoder does not know can be told from its rows by a form (`Undetermined`,
from `FormExists`): so the sliding decoder does not know it either.

`LedgerProofs` proves of `PathLedger`, for any number of batches and acks in flight
(`PathAssumption`):

- `ReorderIsNotLoss`: `LossCounted` always holds. It is not inductive alone:
  `ArrivalsTyped` adds that what has arrived was sent and is no longer in flight,
  and that the tracker's mark is the highest that arrived. A batch above the mark
  adds its gap to what is missing, one below takes itself off; the lemmas
  (`CountedFinite` and those after it) are the cardinalities of the two.
- `FedAddsUp`: `FedExactly` always holds. `CountersPast` adds that every total on
  the wire is one the tracker has had, or less, so that a cursor never passes it;
  `CreditLaw` is the step: what is fed and what is held sum to the gap of the
  pair, whatever its sign.
- `LedgerAlwaysCloses`: `LedgerCloses` always holds: the charge log is the budget, the
  budget never exceeds what is sent and not accounted for by an ack, and it falls
  short of that (and of the batches on the wire nothing has overtaken) by no more
  than `forgone`: what left uncharged, expired, or went with a revival since the acks
  last accounted for all that was sent. An ack cannot tell an uncharged batch from a
  charged one and releases somebody else's charge for it, so equality does not hold.
  `BudgetInv` adds what makes it inductive: the bounds are those of the log's sum and
  the tracker never expects more than its mark. The log is reasoned about through
  its partial sums (`ChargesAreSums`); a release cuts them at a value, within a charge
  or between two.

`EvictProofs` proves, for any number of symbols, any hold capacity and any bounds
of the gauges (`EvictAssumption`, `ReorderAssumption`, `GaugeAssumption`,
`PendingAssumption`):

- `HandsOnce` (`HandedOnce`), `NoFalseAlarm` (`OnceHolds`), `FrontiersAgree`
  (`FrontierAgrees`) and `HoleAccountCloses` (`HolesAccounted`).

They follow from `EvictInvariance`: between two messages the `Books` are in order,
and the decoder puts out nothing it was entrusted with before. `Books` are `Holds`
(what is handed on and what is buffered are disjoint and each once), `Leads` (the
frontier is one past the last seq handed on, counts those handed on in order and
those given up, and the debug check trails it) and `Accounts` (the gauge's sum).
One message is a fold of pushes, each a fold of deliveries, each of several
records: a lemma for each level says what it keeps, and `MessageKeeps` joins them.

`ParkedStaysExact` is `ParkedExact`. `RecordInv` joins `Parks` to the books: the ring of
`net/seq_ring.rs` is sound (its first and last slots are taken, it counts those taken)
and stands for the map `parked`. The lemmas on the ring are in `DataLemmas`, one for
each operation: what `RingInserts`, `RingRemoves` and `RingPrunes` leave taken, and that
the result is sound again, whether the base moves down, the span grows at the top, or
holes are trimmed at either end. The proof showed that the value stored for a seq and the
mark of a free slot must differ: `None # TRUE` is part of `EvictAssumption`.

`GenerationProofs` proves, for every field of characteristic 2, all non-zero
coefficients, any width of generation and any number of sources and coded symbols:

- `RetainedPayloads` (`PayloadsRetained`), `HonestDeficit` (`DeficitHonest`).

`GenerationInvariance` keeps three parts: what the encoder knows is in range
(`EncoderSound`), a symbol in flight carries what its header names (`WireSound`), and
`DecoderSound`: in every live system each row is reduced, true and independent of the
others (`PivotRow`), the store has a payload for every column a system knows, and what is
recovered but not yet told to a system is still in the queue (`Told`). The last
is why the deficit is exact only between calls: while the queue is not empty, a system
may hold as unknown a column that another one has just solved.

`LedgerProofs` proves of `GapServer`, for any number of seqs, paths and reports and each law
(`GapAssumption`):

- `EvidenceIsSound` (`EvidenceSound`), `HealingIsTrue` (the action property
  `HealsTrue`).

`GapInvariance` adds that a batch waiting to be served is `Honest` (everything up
to its last gap is listed or received, and above the gap is a received seq, or, of
a sweep, nothing is missing below it), that points and acks are true, and that the
evidence of a path is what was sent on it, ascending, between prune and watermark.

`LedgerProofs` proves of `SentLedger`, for any number of seqs and paths, width of a word,
span, window cap, report size and channel capacity (`LedgerAssumption`,
`BitsAssumption`):

- `BitmapIsTheSet` (`BitsExact`), `MemoSavesTheWalk` (`MemoExact`) and
  `AccountsStayExact` (`AccountsExact`).

`LedgersInvariance` has three parts. `ReceiverBooks`: the bitmap is based on the word of
its floor, has nothing below it and counts its members (`SoundBits`), which
`InsertIsExact` and `PruneIsExact` preserve; the counter counts from its frontier,
because `count_in` between two frontiers is exact (`CountsBetween`: head, tail and
whole words). `WireTrue`: whatever is on the wire, queued or merged speaks of
delivered seqs only, because `each_run` lists the maximal runs (`EachRunExact`).
`SenderBooks`: the store is the interval from the last cumulative point to the next
seq, no memo interval reaches the next seq (why a seq sent later is never taken for
walked), and all that an interval covers and the store retains is released.
`JoinedHasNoGap` says that a range and the intervals it touches join without a gap,
`MarkIsTheWalk` that a range then releases what the walk would; `FoldStays` carries
that over a drain of any length.

`PathOwnerProofs` proves, for any load, batch size and channel capacity
(`OwnerAssumption`):

- `PathKnownFirst` (`KnownFirst`), `ControlFollowsData` (`ControlAfterData`) and
  `InboundHandedOnce` (`InboundOnce`).

`TasksInvariance` keeps `Phases` (how far the path command is, which commands can be
queued then), `Quiet` (before the readers are started nothing of the path is on its
way: why `KnownFirst` holds), `Pipeline` (everything staged, queued for the owner or
on the wire may go in the order it stands in) and `Inbound`: the numbers of a lane
are cut, by three points, into those its consumer saw, those in its channel (cut
again at each batch), those of the held batch and those still with quinn, each part
ascending and complete but for what quinn dropped. A read or a hand-over moves a cut,
so it can neither skip a number nor repeat one; an overflow takes the lowest number
above the last cut of its lane (`FlowsDropped`).

**Data.** The library's induction theorems take an operator and cannot be used here.
`DataLemmas` states induction for a *set* of naturals (`IntervalInduction`,
`LeastMember`), which suffices when the hypothesis is a set comprehension, and
`FoldExists` turns a fold into the function of its partial results; that is how
`FoldLeft`, `FlattenSeq` and sums are proved about. The prover has no definition of
`SelectSeq` and `SortSeq`, so the models enumerate by `Enumerations` instead
(`Ascending`, `At`, `Kept`), which TLC and the prover read alike.

**Only model-checked.** The liveness properties (`StoreDrains`,
`ConsumerServed`, `HolesClose`, `CallReturns`, `GenDecodes`, `NoWedge`) are beyond the
prover, as is anything that needs ENABLED; every safety invariant and action
property of a passing run is a theorem. A theorem, as a run, says nothing of what
the models leave out.

## Findings

- `no_merge`. `net/mod.rs:2329` says a paused sender keeps servicing acks and
  sweeps "so the store drains". With `RWM_ACK_MERGE=0` a duplicate moves neither
  the cumulative point nor the highest seq, so it is not answered
  (`net/receiver.rs:2020`); if the last WindowAck is lost, the sweep repeats
  for ever and the store keeps its symbols. The default (merging on) answers
  every data message, and `loops` shows that it drains.
- `reorder_bound`. `net/reorder.rs:85` says the reliable hold is bounded by the
  sender's store cap. Slots released by SACK leave the sender's count, so while
  a hole stands the sender goes on and the hold outgrows the cap.

- `pair_in_order`. `fec/unified.rs:46` says that the two decoders deliver the same
  "on in-order traces", but for a source that arrives late for a stored pivot.
  With sources 0, 1 and 2 lost, a repair over all three and then one over source
  0 alone, in order, the sliding decoder eliminates column 0 by the stored row
  (`fec/rlc_window.rs:327`) and keeps the remainder as a second row; it delivers
  nothing, and the unified decoder delivers 0. Nothing arrives late there.
- `path_missing`. `net/mod.rs:3780` says that with one symbol a batch the totals of
  `PathBatchTracker` are exact: expected minus received is the number of sequences
  below the highest that have not arrived. The first batch to arrive charges no gap
  (`net/mod.rs:3843`), so batches missing before it are not counted; when one of
  them arrives late it is received without having been expected. From the first
  arrival on the totals are exact, which is `LossCounted`; the excess received is
  carried as a credit and hides as many later losses.
- `sweep_evidence`. `net/mod.rs:2009` describes the packet threshold's evidence as
  what gap reports imply was delivered. The tail sweep's own batch, the blocker
  alone, goes through the same loop, where `mp_delivered_intervals` takes the seq
  past the last gap for the SACK range that bounded it (`net/recovery_laws.rs:180`).
  No SACK did. That seq counts towards the threshold of its path. `EvidenceSound` is what is left:
  order, path and prune are right, and any such seq follows a blocker.

Seen while modelling, without a run of their own:

- `net/succ.rs` calls a seq above the high-water mark one "that has never been
  seen". A coded symbol may solve seqs above the mark in descending order; the
  lower ones are opened as holes and then counted as passed by the frontier.
- `recv_shed_holes` counts holes given up by an expiry, not those of a capacity drain.
- An expired charge whose ack comes late releases newer charges in its place, and
  `src_inflight` is not reset when a path is revived.
- `scheduler/path.rs:1170` says that in-flight is charged exactly once per symbol. A
  SACK-gap retransmit and a margin repair are not charged unless
  `RWM_CHARGE_RECOVERY` is set (`net/sender_phases.rs:1253`), but take a `path_seq`
  and are counted by the acks, which release charges of other symbols for them.
- A datagram that arrives while the owner's reads pause may push the oldest one out of
  quinn's buffer (`transport/quic.rs:499`): a local loss that the tracker takes for one
  on the wire. `InboundOnce` says that this is the only loss between the two.
- The anti-wedge of generation coding leaves the last, partial generation to a
  repair's header: until one arrives the receiver does not know its width.
- `transport/io_owner.rs:1129` says that an ack never waits behind the receiver's
  channel, but reading stops while a data batch is held, and acks behind it wait.
- `path_cmd` awaits `add_path` without watching for shutdown, and on a server an
  accept may never end, so later commands wait. A path whose runtime add fails
  stays in the transport's map, where `all_connections_lost` waits for it.
- A gap's packet-threshold evidence also counts copies sent on another path and
  symbols solved by the decoder, although `net/recovery_laws.rs` says that gaps made
  by the scheduler's placement can never trigger it.
- Under EVICT a shed seq is forgotten at the cumulative ack while the window keeps
  it, so a late gap report may have it served again
  (`net/sender_phases.rs` says never), and `on_report` takes a hole the receiver
  gave up for healed.

## Not modelled, and why

- Congestion control (`scheduler/copa.rs`, `transport/bbr_rs.rs`), the FEC rate laws
  and estimators (`control/*`), the store-cap laws: real-valued, and what they
  choose (a rate, a window, a cap) is free or a constant in the models.
- Of the recovery clocks, the values: cooldowns, thresholds and budgets are any.
  The armed hold-down, the arrival estimates (`net/eta.rs`) and the shedding of
  seqs past a deadline under EVICT.
- The request arms of the receiver's seat (`req_*`), a gated alternative.
- Block mode (`net/recv_block.rs`), the forerunner of the window, and framing and
  wire encoding, which are pure conversions.
- Configuration, command line, routing, signals and the end of the process; the
  handshake; observability, which nothing in the protocol reads back.
- `raptorpath-math` and `raptorpath-wasm`: numerical kernels and a demonstration.

So the map covers the protocol's state machines and not most of the lines of the
repository: those are, for the greater part, the laws, gauges, configuration and
numerical crates above.

What a continuation would do next is model more, the control laws and the paths of
datagrams first: of the models here, no safety property is left without a theorem.
