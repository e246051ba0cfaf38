------------------------- MODULE WindowCodecProofs -------------------------
(***************************************************************************)
(* Theorems about the window codec, for any field of characteristic 2, any *)
(* coefficients and any number of sources and coded symbols.               *)
(***************************************************************************)
EXTENDS DecoderPair, RowLemmas

(* A unit row with a 1 at p carries the payload of p.                      *)
LEMMA UnitRow ==
    ASSUME NEW row \in SoundRow, NEW p \in Seqs, row.c[p] = One, IsUnit(row)
    PROVE  Support(row) = {p} /\ lead(row) = p /\ row.d = Unit(p)
<1>1. p \in Support(row)
  BY FieldAssumption DEF Support
<1>2. Support(row) = {p}
  BY <1>1 DEF IsUnit
<1>3. lead(row) = p
  BY <1>2, LeadIsLeast
<1>4. \A q \in Seqs \ {p} : row.c[q] = Nought
  BY <1>2 DEF Support
<1>5. row.d = Unit(p)
  BY <1>4, SoundRowIsVector, UnitVector DEF Vec
<1>. QED  BY <1>2, <1>3, <1>5

-----------------------------------------------------------------------------
(***************************************************************************)
(* The state: functions, and the worklist.                                 *)
(***************************************************************************)

(* Items that a worklist may hold anywhere: what they say is true, and     *)
(* equations are still to lose their known columns.                        *)
Plain == {Known(s, Unit(s)) : s \in Seqs} \cup {Eq(row) : row \in SoundRow}

(* An equation without known columns.                                      *)
Fresh == {Unknowns(row) : row \in {r \in SoundRow : Support(r) \cap DOMAIN recovered = {}}}

(* Only the equation at the head can have lost its known columns, and then *)
(* none of its columns is known.                                           *)
WorkSound ==
    work = <<>> \/ \E first \in Plain \cup Fresh, rest \in Seq(Plain) : work = <<first>> \o rest

(* A worklist of plain items splits into its head and the rest.            *)
LEMMA PlainWork ==
    ASSUME NEW seq \in Seq(Plain), NEW S
    PROVE  seq = <<>> \/ \E first \in Plain \cup S, rest \in Seq(Plain) : seq = <<first>> \o rest
<1>1. CASE seq # <<>>
  <2>1. /\ Head(seq) \in Plain /\ Tail(seq) \in Seq(Plain) /\ Len(Tail(seq)) = Len(seq) - 1
        /\ \A i \in 1 .. Len(Tail(seq)) : Tail(seq)[i] = seq[i + 1]
    BY <1>1, HeadTailProperties
  <2>2. seq = <<Head(seq)>> \o Tail(seq)
    BY <1>1, <2>1
  <2>. QED  BY <2>1, <2>2, Zenon
<1>. QED  BY <1>1, Zenon

(* The parts of a worklist that is not empty.                              *)
LEMMA WorkParts ==
    ASSUME WorkSound, ~Idle
    PROVE  /\ Head(work) \in Plain \cup Fresh
           /\ Tail(work) \in Seq(Plain)
<1>1. PICK first \in Plain \cup Fresh, rest \in Seq(Plain) : work = <<first>> \o rest
  BY DEF WorkSound, Idle
<1>2. Head(work) = first /\ Tail(work) = rest
  BY <1>1
<1>. QED  BY <1>2

(* The deliveries of true unit rows are true.                              *)
LEMMA DeliveriesPlain ==
    ASSUME NEW table, NEW P \in SUBSET Seqs,
           \A p \in P : table[p] \in SoundRow /\ table[p].c[p] = One,
           NEW q \in InOrderOf(Units(table, P))
    PROVE  Deliveries(table, q) \in Seq(Plain)
<1>1. Units(table, P) \subseteq P /\ \A p \in Units(table, P) : IsUnit(table[p])
  BY DEF Units
<1>2. \A p \in Units(table, P) : Known(lead(table[p]), table[p].d) \in Plain
  BY <1>1, UnitRow DEF Plain
<1>3. Cardinality(Units(table, P)) \in Nat
  <2>1. IsFiniteSet(Seqs)
    BY SizeAssumption, FS_Interval DEF Seqs
  <2>. QED  BY <1>1, <2>1, FS_Subset, FS_CardinalityType
<1>4. q \in [1 .. Cardinality(Units(table, P)) -> Units(table, P)]
  BY DEF InOrderOf
<1>. QED  BY <1>2, <1>3, <1>4 DEF Deliveries

(* What an item says.                                                      *)
LEMMA ItemFacts ==
    ASSUME NEW item \in Plain \cup Fresh
    PROVE  /\ item \in Item
           /\ item.kind \in {"known", "eq", "row"}
           /\ item.kind = "known" => item.seq \in Seqs /\ item.data = Unit(item.seq)
           /\ item.kind # "known" => item.row \in SoundRow
           /\ item.kind = "row" => Support(item.row) \cap DOMAIN recovered = {}
<1>1. CASE \E s \in Seqs : item = Known(s, Unit(s))
  BY <1>1, UnitVector DEF Known, Item
<1>2. CASE \E row \in SoundRow : item = Eq(row)
  BY <1>2 DEF Eq, Item, SoundRow
<1>3. CASE item \in Fresh
  <2>1. PICK row \in SoundRow : item = Unknowns(row) /\ Support(row) \cap DOMAIN recovered = {}
    BY <1>3 DEF Fresh
  <2>. QED  BY <2>1 DEF Unknowns, Item, SoundRow
<1>. QED  BY <1>1, <1>2, <1>3 DEF Plain

-----------------------------------------------------------------------------
(***************************************************************************)
(* The parts of the inductive invariant.                                   *)
(***************************************************************************)
BoundsSound ==
    /\ EncoderTypeOK
    /\ delivered \subseteq Seqs
    /\ src_seen \subseteq Seqs
    /\ repairs_seen \subseteq Seqs \X (0 .. MaxRepairs)
    /\ floor \in 0 .. N

(* A coded symbol in flight is the combination its header names.           *)
WireSound ==
    \A symbol \in wire :
        /\ symbol.start + symbol.count <= N
        /\ symbol.is_repair =>
              symbol.data = CoefficientsOf(symbol.start, symbol.count, symbol.index)
        /\ ~symbol.is_repair => symbol.data = Unit(symbol.start)

KnownSound ==
    /\ DOMAIN recovered \subseteq Seqs
    /\ \A s \in DOMAIN recovered : recovered[s] = Unit(s)

RowsSound ==
    /\ DOMAIN rows \subseteq Seqs
    /\ \A p \in DOMAIN rows : rows[p] \in SoundRow

(* What was handed on and is not below the floor is remembered.            *)
Once ==
    /\ given \in [Seqs -> 0 .. 1]
    /\ \A s \in Seqs : given[s] = 1 /\ floor <= s => s \in delivered

IInv ==
    /\ BoundsSound /\ WireSound
    /\ KnownSound /\ RowsSound /\ ReducedEchelon
    /\ WorkSound /\ Once

(* The invariant holds when both ends start.                               *)
LEMMA InitInv == Init => IInv
<1> SUFFICES ASSUME Init
             PROVE  IInv
  OBVIOUS
<1> USE DEF Init, EncoderInit, UnifiedInit
<1>1. BoundsSound
  BY SizeAssumption DEF BoundsSound, EncoderTypeOK
<1>2. WireSound
  BY DEF WireSound
<1>3. KnownSound /\ RowsSound /\ ReducedEchelon
  BY DEF KnownSound, RowsSound, ReducedEchelon
<1>4. WorkSound
  BY DEF WorkSound
<1>5. Once
  BY DEF Once
<1>. QED  BY <1>1, <1>2, <1>3, <1>4, <1>5 DEF IInv

(* The coefficients of a coded symbol are a vector.                        *)
LEMMA CoefficientsVector ==
    ASSUME NEW start \in Seqs, NEW count \in 1 .. N, NEW index \in 0 .. MaxRepairs - 1
    PROVE  CoefficientsOf(start, count, index) \in Vec
<1>1. ASSUME NEW s \in Seqs, s \in start .. start + count - 1
      PROVE  Coefficient(start, count, index, s - start) \in Field
  <2>1. s - start \in Seqs
    BY <1>1, SizeAssumption DEF Seqs
  <2>. QED  BY <2>1, CoefficientAssumption
<1>. QED  BY <1>1, FieldAssumption DEF CoefficientsOf, Vec

(* What the encoder puts on the wire is the combination its header names,  *)
(* and the decoder is not touched.                                         *)
LEMMA EncodeKeepsInv == IInv /\ EncoderStep => IInv'
<1> SUFFICES ASSUME IInv, EncoderStep
             PROVE  IInv'
  OBVIOUS
<1> USE DEF EncoderStep, unifiedVars
<1>1. KnownSound' /\ RowsSound' /\ ReducedEchelon' /\ WorkSound' /\ Once'
  BY DEF IInv, KnownSound, RowsSound, ReducedEchelon, WorkSound, Plain, Fresh, Once
<1>2. BoundsSound' /\ WireSound'
  <2>1. ASSUME NEW symbol \in Symbol, Send(symbol),
               symbol.start + symbol.count <= N,
               symbol.is_repair =>
                  symbol.data = CoefficientsOf(symbol.start, symbol.count, symbol.index),
               ~symbol.is_repair => symbol.data = Unit(symbol.start)
        PROVE  wire' \subseteq Symbol /\ WireSound'
    <3>1. wire' \subseteq wire \cup {symbol}
      BY <2>1 DEF Send
    <3>2. wire \subseteq Symbol /\ WireSound
      BY DEF IInv, BoundsSound, EncoderTypeOK
    <3>3. \A x \in wire' : x \in Symbol /\ (x \in wire \/ x = symbol)
      BY <3>1, <3>2
    <3>. QED  BY <2>1, <3>2, <3>3 DEF WireSound
  <2>2. CASE add_source
    <3> DEFINE symbol == [is_repair |-> FALSE, start |-> next_seq, count |-> 1, index |-> 0,
                          data |-> Unit(next_seq)]
    <3>1. next_seq \in Seqs /\ Unit(next_seq) \in Vec
      BY <2>2, SizeAssumption, UnitVector DEF add_source, IInv, BoundsSound, EncoderTypeOK, Seqs
    <3>2. symbol \in Symbol /\ symbol.start + symbol.count <= N
      BY <3>1, SizeAssumption DEF Symbol, Seqs
    <3>3. wire' \subseteq Symbol /\ WireSound'
      BY <2>1, <2>2, <3>2 DEF add_source
    <3>4. next_seq' \in 0 .. N /\ window_start' \in 0 .. next_seq' /\ repair_counter' \in 0 .. MaxRepairs
      BY <2>2, SizeAssumption DEF add_source, IInv, BoundsSound, EncoderTypeOK
    <3>. QED  BY <3>3, <3>4 DEF IInv, BoundsSound, EncoderTypeOK
  <2>3. ASSUME NEW start \in Seqs, NEW count \in 1 .. N, generate_repair_range(start, count)
        PROVE  BoundsSound' /\ WireSound'
    <3> DEFINE data == CoefficientsOf(start, count, repair_counter)
               symbol == [is_repair |-> TRUE, start |-> start, count |-> count,
                          index |-> repair_counter, data |-> data]
    <3>1. repair_counter \in 0 .. MaxRepairs - 1 /\ start + count <= N
      BY <2>3, SizeAssumption
      DEF generate_repair_range, retained, IInv, BoundsSound, EncoderTypeOK, Seqs
    <3>2. data \in Vec
      BY <3>1, CoefficientsVector
    <3>3. symbol \in Symbol
      <4>. HIDE DEF data
      <4>. QED  BY <3>1, <3>2, SizeAssumption DEF Symbol
    <3>4. wire' \subseteq Symbol /\ WireSound'
      BY <2>1, <2>3, <3>1, <3>3 DEF generate_repair_range
    <3>5. next_seq' \in 0 .. N /\ window_start' \in 0 .. next_seq' /\ repair_counter' \in 0 .. MaxRepairs
      BY <2>3, <3>1, SizeAssumption DEF generate_repair_range, IInv, BoundsSound, EncoderTypeOK
    <3>. QED  BY <3>4, <3>5 DEF IInv, BoundsSound, EncoderTypeOK
  <2>4. CASE \E oldest_seq \in 0 .. next_seq : encoder_advance(oldest_seq)
    BY <2>4 DEF encoder_advance, IInv, BoundsSound, EncoderTypeOK, WireSound
  <2>. QED  BY <2>2, <2>3, <2>4 DEF Encode
<1>. QED  BY <1>1, <1>2 DEF IInv

(* A call starts with an equation that holds, or with a true payload.      *)
LEMMA ReceiveKeepsInv ==
    ASSUME IInv, NEW symbol \in wire, Receive(symbol)
    PROVE  IInv'
<1>1. symbol \in Symbol /\ wire' \subseteq wire
  BY DEF Receive, Take, IInv, BoundsSound, EncoderTypeOK
<1>2. /\ UNCHANGED <<next_seq, window_start, repair_counter>>
      /\ UNCHANGED <<recovered, delivered, rows, floor, given>>
      /\ Idle
  BY DEF Receive, Take, FeedSource, FeedRepair
<1>3. WireSound'
  BY <1>1 DEF IInv, WireSound
<1>4. KnownSound' /\ RowsSound' /\ ReducedEchelon' /\ Once'
  BY <1>2 DEF IInv, KnownSound, RowsSound, ReducedEchelon, Once
<1>5. ASSUME NEW item \in Plain, work' = <<item>>
      PROVE  WorkSound'
  <2>1. <<>> \in Seq(Plain) /\ <<item>> = <<item>> \o <<>>
    OBVIOUS
  <2>2. \E first \in Plain \cup Fresh', rest \in Seq(Plain) : work' = <<first>> \o rest
    BY <1>5, <2>1
  <2>. QED  BY <2>2 DEF WorkSound
<1>6. BoundsSound' /\ WorkSound'
  <2>1. CASE FeedSource(symbol)
    <3>1. src_seen' \subseteq Seqs /\ repairs_seen' = repairs_seen
      BY <1>1, <2>1 DEF FeedSource, IInv, BoundsSound, Symbol
    <3>2. work' = <<>> \/ work' = <<Known(symbol.start, symbol.data)>>
      BY <2>1 DEF FeedSource, Idle
    <3>3. Known(symbol.start, symbol.data) \in Plain
      BY <1>1, <2>1 DEF FeedSource, IInv, WireSound, Symbol, Plain
    <3>4. WorkSound'
      BY <1>5, <3>2, <3>3 DEF WorkSound
    <3>. QED  BY <1>1, <1>2, <3>1, <3>4 DEF IInv, BoundsSound, EncoderTypeOK
  <2>2. CASE FeedRepair(symbol)
    <3>1. RepairKey(symbol) \in Seqs \X (0 .. MaxRepairs)
      BY <1>1, SizeAssumption DEF RepairKey, Symbol, Seqs, IInv, WireSound
    <3>2. repairs_seen' \subseteq Seqs \X (0 .. MaxRepairs) /\ src_seen' = src_seen
      BY <2>2, <3>1 DEF FeedRepair, IInv, BoundsSound
    <3>3. work' = <<>> \/ work' = <<Eq(WireRow(symbol))>>
      BY <2>2 DEF FeedRepair, Idle
    <3>4. Eq(WireRow(symbol)) \in Plain
      <4>1. symbol.data \in Vec /\ WireRow(symbol) = [c |-> symbol.data, d |-> symbol.data]
        BY <1>1, <2>2 DEF FeedRepair, WireRow, IInv, WireSound, Symbol
      <4>. QED  BY <4>1, VectorIsSoundRow DEF Plain
    <3>5. WorkSound'
      BY <1>5, <3>3, <3>4 DEF WorkSound
    <3>. QED  BY <1>1, <1>2, <3>2, <3>5 DEF IInv, BoundsSound, EncoderTypeOK
  <2>. QED  BY <2>1, <2>2 DEF Receive
<1>. QED  BY <1>3, <1>4, <1>6 DEF IInv

(* Forgetting below the floor leaves what is kept as it was; a source      *)
(* forgotten is below the floor and is not counted again.                  *)
LEMMA RaiseFloorKeepsInv == IInv /\ RaiseFloor => IInv'
<1> SUFFICES ASSUME IInv, NEW oldest_seq \in 0 .. next_seq, Advance(oldest_seq), UNCHANGED encVars
             PROVE  IInv'
  BY DEF RaiseFloor
<1> DEFINE f == IF oldest_seq > floor THEN oldest_seq ELSE floor
<1>1. f \in 0 .. N /\ floor <= f /\ floor' = f
  BY SizeAssumption DEF Advance, IInv, BoundsSound, EncoderTypeOK
<1>. HIDE DEF f
<1>2. /\ rows' = Restrict(rows, DOMAIN rows \cap kept(f))
      /\ recovered' = Restrict(recovered, DOMAIN recovered \cap kept(f))
      /\ delivered' = delivered \cap kept(f)
      /\ src_seen' = src_seen \cap kept(f)
      /\ repairs_seen' \subseteq repairs_seen
      /\ work' = <<>> /\ given' = given
  BY DEF Advance, Idle, f
<1>3. BoundsSound' /\ WireSound'
  BY <1>1, <1>2 DEF IInv, BoundsSound, EncoderTypeOK, WireSound, encVars
<1>4. /\ DOMAIN recovered' \subseteq DOMAIN recovered
      /\ \A s \in DOMAIN recovered' : recovered'[s] = recovered[s]
      /\ DOMAIN rows' \subseteq DOMAIN rows
      /\ \A p \in DOMAIN rows' : rows'[p] = rows[p]
  BY <1>2 DEF Restrict
<1>5. KnownSound' /\ RowsSound'
  BY <1>4 DEF IInv, KnownSound, RowsSound
<1>6. ReducedEchelon'
  <2>. SUFFICES ASSUME NEW p \in DOMAIN rows'
                PROVE  /\ rows'[p].c[p] = One
                       /\ \A s \in Support(rows'[p]) : p <= s
                       /\ Support(rows'[p]) # {p}
                       /\ Support(rows'[p]) \cap (DOMAIN recovered' \cup DOMAIN rows') = {p}
    BY DEF ReducedEchelon
  <2>1. /\ rows[p].c[p] = One
        /\ \A s \in Support(rows[p]) : p <= s
        /\ Support(rows[p]) # {p}
        /\ Support(rows[p]) \cap (DOMAIN recovered \cup DOMAIN rows) = {p}
    BY <1>4 DEF IInv, ReducedEchelon
  <2>. QED  BY <1>4, <2>1
<1>7. WorkSound'
  BY <1>2 DEF WorkSound
<1>8. Once'
  BY <1>1, <1>2 DEF IInv, Once, kept, BoundsSound, Seqs
<1>. QED  BY <1>3, <1>5, <1>6, <1>7, <1>8 DEF IInv

-----------------------------------------------------------------------------
(***************************************************************************)
(* The steps of the elimination.                                           *)
(***************************************************************************)
(* A worklist of plain items is sound.                                     *)
LEMMA PlainWorkIsSound ==
    ASSUME NEW seq \in Seq(Plain), work' = seq
    PROVE  WorkSound'
<1>1. seq = <<>> \/ \E first \in Plain \cup Fresh', rest \in Seq(Plain) : seq = <<first>> \o rest
  BY PlainWork
<1>. QED  BY <1>1 DEF WorkSound

(* A step that changes the worklist alone.                                 *)
LEMMA OnlyWorkMoves ==
    ASSUME IInv, WorkSound', UNCHANGED encVars,
           UNCHANGED <<recovered, delivered, rows, src_seen, repairs_seen, floor, given>>
    PROVE  IInv'
<1>1. BoundsSound' /\ WireSound' /\ Once'
  BY DEF IInv, BoundsSound, EncoderTypeOK, WireSound, Once, encVars
<1>2. KnownSound' /\ RowsSound' /\ ReducedEchelon'
  BY DEF IInv, KnownSound, RowsSound, ReducedEchelon
<1>. QED  BY <1>1, <1>2 DEF IInv

(* The row at the head of the list.                                        *)
LEMMA HeadRow ==
    ASSUME IInv, AtEquation
    PROVE  /\ Head(work).row \in SoundRow
           /\ KnownColumns \subseteq Support(Head(work).row) \cap DOMAIN recovered
           /\ KnownColumns = {} => Support(Head(work).row) \cap DOMAIN recovered = {}
<1>1. Head(work) \in Plain \cup Fresh
  BY WorkParts DEF IInv, AtEquation
<1>. QED  BY <1>1, ItemFacts DEF AtEquation, KnownColumns

(* A known column leaves the equation.                                     *)
LEMMA EliminateKnownKeepsInv == IInv /\ EliminateKnown /\ UNCHANGED encVars => IInv'
<1> SUFFICES ASSUME IInv, EliminateKnown, UNCHANGED encVars
             PROVE  IInv'
  OBVIOUS
<1>1. PICK s \in Leftmost(KnownColumns) :
         work' = <<Eq(substitute(Head(work).row, s, recovered[s]))>> \o Tail(work)
  BY DEF EliminateKnown
<1>2. Head(work).row \in SoundRow /\ s \in DOMAIN recovered /\ Tail(work) \in Seq(Plain)
  BY <1>1, HeadRow, WorkParts DEF EliminateKnown, AtEquation, Leftmost, IInv
<1>3. s \in Seqs /\ recovered[s] = Unit(s)
  BY <1>2 DEF IInv, KnownSound
<1>4. substitute(Head(work).row, s, recovered[s]) \in SoundRow
  BY <1>2, <1>3, SubstituteSound
<1>5. Eq(substitute(Head(work).row, s, recovered[s])) \in Plain
  BY <1>4 DEF Plain
<1>6. WorkSound'
  BY <1>1, <1>2, <1>5 DEF WorkSound
<1>. QED  BY <1>6, OnlyWorkMoves DEF EliminateKnown

(* A stored row brings no known column into the equation.                  *)
LEMMA ReduceByPivotKeepsInv == IInv /\ ReduceByPivot /\ UNCHANGED encVars => IInv'
<1> SUFFICES ASSUME IInv, ReduceByPivot, UNCHANGED encVars
             PROVE  IInv'
  OBVIOUS
<1> DEFINE row == Head(work).row
<1>1. PICK s \in Leftmost(PivotColumns) :
         work' = <<Unknowns(sub_scaled(row, row.c[s], rows[s]))>> \o Tail(work)
  BY DEF ReduceByPivot
<1>2. /\ row \in SoundRow /\ Support(row) \cap DOMAIN recovered = {}
      /\ s \in Support(row) /\ s \in DOMAIN rows
      /\ Tail(work) \in Seq(Plain)
  BY <1>1, HeadRow, WorkParts DEF ReduceByPivot, AtEquation, Leftmost, PivotColumns, IInv
<1>. HIDE DEF row
<1>3. rows[s] \in SoundRow /\ row.c[s] \in Field /\ s \notin DOMAIN recovered
  BY <1>2, SoundRowIsVector DEF IInv, RowsSound, Support
<1>4. Support(rows[s]) \cap DOMAIN recovered = {}
  BY <1>2, <1>3 DEF IInv, ReducedEchelon
<1> DEFINE reduced == sub_scaled(row, row.c[s], rows[s])
<1>5. /\ reduced \in SoundRow
      /\ \A q \in Seqs : reduced.c[q] = Add(row.c[q], Mul(row.c[s], rows[s].c[q]))
  BY <1>2, <1>3, SubScaledSound
<1>. HIDE DEF reduced
<1>6. \A q \in Seqs \cap DOMAIN recovered : reduced.c[q] = Nought
  <2>1. \A q \in Seqs \cap DOMAIN recovered : row.c[q] = Nought /\ rows[s].c[q] = Nought
    BY <1>2, <1>4 DEF Support
  <2>2. Mul(row.c[s], Nought) = Nought /\ Add(Nought, Nought) = Nought
    BY <1>3, Products, FieldAssumption
  <2>. QED  BY <1>5, <2>1, <2>2
<1>7. Unknowns(reduced) \in Fresh
  BY <1>5, <1>6 DEF Fresh, Support
<1>8. Fresh' = Fresh
  BY DEF Fresh, ReduceByPivot
<1>9. WorkSound'
  BY <1>1, <1>2, <1>7, <1>8 DEF WorkSound, reduced
<1>. QED  BY <1>9, OnlyWorkMoves DEF ReduceByPivot

(* An item with nothing new is dropped.                                    *)
LEMMA DroppedItemKeepsInv == IInv /\ (KnownAlready \/ Dependent) /\ UNCHANGED encVars => IInv'
<1> SUFFICES ASSUME IInv, KnownAlready \/ Dependent, UNCHANGED encVars
             PROVE  IInv'
  OBVIOUS
<1>1. Tail(work) \in Seq(Plain) /\ work' = Tail(work)
  BY WorkParts DEF KnownAlready, Dependent, Reduced, AtEquation, IInv
<1>2. WorkSound'
  BY <1>1, PlainWorkIsSound
<1>. QED  BY <1>2, OnlyWorkMoves DEF KnownAlready, Dependent

(* An equation with one column left gives that source's payload.           *)
LEMMA SolvedKeepsInv == IInv /\ Solved /\ UNCHANGED encVars => IInv'
<1> SUFFICES ASSUME IInv, Solved, UNCHANGED encVars
             PROVE  IInv'
  OBVIOUS
<1> DEFINE row == normalized(Head(work).row)
<1>1. /\ Head(work).row \in SoundRow /\ Support(Head(work).row) # {}
      /\ Tail(work) \in Seq(Plain) /\ work' = Append(Tail(work), Known(lead(row), row.d))
  BY HeadRow, WorkParts DEF Solved, Reduced, AtEquation, IsUnit, IInv
<1>2. /\ row \in SoundRow /\ Support(row) = Support(Head(work).row)
      /\ lead(row) = lead(Head(work).row) /\ row.c[lead(Head(work).row)] = One
  BY <1>1, NormalizedSound
<1>. HIDE DEF row
<1>3. lead(row) \in Seqs /\ row.c[lead(row)] = One /\ IsUnit(row)
  BY <1>1, <1>2, LeadIsLeast DEF Solved, IsUnit, Support
<1>4. Known(lead(row), row.d) \in Plain
  BY <1>2, <1>3, UnitRow DEF Plain
<1>5. Append(Tail(work), Known(lead(row), row.d)) \in Seq(Plain)
  BY <1>1, <1>4, AppendProperties
<1>6. WorkSound'
  BY <1>1, <1>5, PlainWorkIsSound
<1>. QED  BY <1>6, OnlyWorkMoves DEF Solved

(* A known column that leaves a row of the table leaves the rest of it.    *)
LEMMA WithoutKnownColumn ==
    ASSUME IInv, NEW s \in Seqs, NEW p \in DOMAIN rows, p # s
    PROVE  LET row == substitute(rows[p], s, Unit(s))
           IN  /\ row \in SoundRow /\ row.c[p] = One
               /\ Support(row) = Support(rows[p]) \ {s}
<1>1. p \in Seqs /\ rows[p] \in SoundRow /\ rows[p].c[p] = One
  BY DEF IInv, RowsSound, ReducedEchelon
<1> DEFINE row == substitute(rows[p], s, Unit(s))
<1>2. /\ row \in SoundRow /\ row.c[s] = Nought
      /\ \A q \in Seqs \ {s} : row.c[q] = rows[p].c[q]
  BY <1>1, SubstituteSound
<1>. HIDE DEF row
<1>3. row.c[p] = One /\ Support(row) = Support(rows[p]) \ {s}
  BY <1>1, <1>2 DEF Support
<1>. QED  BY <1>2, <1>3 DEF row

(* A known payload leaves every row; the row displaced by it still holds,  *)
(* and a row with one column left gives that source's payload.             *)
LEMMA AssimilateKnownKeepsInv == IInv /\ AssimilateKnown /\ UNCHANGED encVars => IInv'
<1> SUFFICES ASSUME IInv, AssimilateKnown, UNCHANGED encVars
             PROVE  IInv'
  OBVIOUS
<1> DEFINE s     == Head(work).seq
           data  == Head(work).data
           table == [p \in DOMAIN rows \ {s} |-> substitute(rows[p], s, data)]
           P     == {p \in DOMAIN table : rows[p].c[s] # Nought}
           units == Units(table, P)
<1>1. /\ s \in Seqs /\ data = Unit(s) /\ Tail(work) \in Seq(Plain)
      /\ s \notin DOMAIN recovered
  BY WorkParts, ItemFacts, SMTT(20) DEF AssimilateKnown, IInv
<1>2. /\ recovered' = insert(recovered, s, data)
      /\ delivered' = delivered \cup {s}
      /\ given' = IF s \in delivered \/ s < floor THEN given ELSE [given EXCEPT ![s] = @ + 1]
      /\ rows' = Restrict(table, DOMAIN table \ units)
      /\ \E q \in InOrderOf(units) : work' = Tail(work) \o displaced(s, data) \o Deliveries(table, q)
      /\ UNCHANGED <<src_seen, repairs_seen, floor>>
  BY Zenon DEF AssimilateKnown
<1>3. DOMAIN table = DOMAIN rows \ {s} /\ \A p \in DOMAIN table : table[p] = substitute(rows[p], s, data)
  OBVIOUS
<1>. HIDE DEF s, data, table
<1>4. \A p \in DOMAIN table : /\ p \in Seqs /\ p # s /\ p \in DOMAIN rows
                              /\ table[p] \in SoundRow /\ table[p].c[p] = One
                              /\ Support(table[p]) = Support(rows[p]) \ {s}
  BY <1>1, <1>3, WithoutKnownColumn DEF IInv, RowsSound
<1>5. /\ DOMAIN rows' = DOMAIN table \ units
      /\ \A p \in DOMAIN rows' : rows'[p] = table[p]
  BY <1>2 DEF Restrict
<1>6. /\ DOMAIN recovered' = DOMAIN recovered \cup {s}
      /\ \A x \in DOMAIN recovered' : recovered'[x] = IF x = s THEN data ELSE recovered[x]
  BY <1>2 DEF insert
<1>7. BoundsSound' /\ WireSound'
  BY <1>1, <1>2 DEF IInv, BoundsSound, EncoderTypeOK, WireSound, encVars
<1>8. KnownSound'
  BY <1>1, <1>6 DEF IInv, KnownSound
<1>9. RowsSound'
  BY <1>4, <1>5 DEF RowsSound
<1>10. ReducedEchelon'
  <2>. SUFFICES ASSUME NEW p \in DOMAIN rows'
                PROVE  /\ rows'[p].c[p] = One
                       /\ \A x \in Support(rows'[p]) : p <= x
                       /\ Support(rows'[p]) # {p}
                       /\ Support(rows'[p]) \cap (DOMAIN recovered' \cup DOMAIN rows') = {p}
    BY DEF ReducedEchelon
  <2>1. /\ p \in DOMAIN table /\ p \notin units /\ rows'[p] = table[p]
        /\ p \in Seqs /\ p # s /\ p \in DOMAIN rows /\ table[p].c[p] = One
        /\ Support(table[p]) = Support(rows[p]) \ {s}
    BY <1>4, <1>5
  <2>2. /\ \A x \in Support(rows[p]) : p <= x
        /\ Support(rows[p]) # {p}
        /\ Support(rows[p]) \cap (DOMAIN recovered \cup DOMAIN rows) = {p}
    BY <2>1 DEF IInv, ReducedEchelon
  <2>3. Support(table[p]) # {p}
    <3>1. CASE rows[p].c[s] # Nought
      <4>1. ~IsUnit(table[p])
        BY <2>1, <3>1 DEF Units
      <4>. QED  BY <2>1, <4>1 DEF IsUnit
    <3>2. CASE rows[p].c[s] = Nought
      BY <2>1, <2>2, <3>2 DEF Support
    <3>. QED  BY <3>1, <3>2
  <2>4. DOMAIN rows' \subseteq DOMAIN rows
    BY <1>4, <1>5
  <2>. QED  BY <1>6, <2>1, <2>2, <2>3, <2>4
<1>11. WorkSound'
  <2>1. P \in SUBSET Seqs /\ \A p \in P : table[p] \in SoundRow /\ table[p].c[p] = One
    BY <1>4
  <2>2. PICK q \in InOrderOf(units) : work' = Tail(work) \o displaced(s, data) \o Deliveries(table, q)
    BY <1>2
  <2>3. Deliveries(table, q) \in Seq(Plain)
    BY <2>1, DeliveriesPlain
  <2>4. displaced(s, data) \in Seq(Plain)
    <3>1. CASE s \in DOMAIN rows
      <4>1. substitute(rows[s], s, data) \in SoundRow
        BY <1>1, <3>1, SubstituteSound DEF IInv, RowsSound
      <4>2. Eq(substitute(rows[s], s, data)) \in Plain
        BY <4>1 DEF Plain
      <4>. QED  BY <4>2 DEF displaced
    <3>2. CASE s \notin DOMAIN rows
      BY <3>2 DEF displaced
    <3>. QED  BY <3>1, <3>2
  <2>5. work' \in Seq(Plain)
    BY <1>1, <2>2, <2>3, <2>4
  <2>. QED  BY <2>5, PlainWorkIsSound
<1>12. Once'
  <2>1. CASE s \in delivered \/ s < floor
    BY <1>2, <2>1 DEF IInv, Once
  <2>2. CASE ~(s \in delivered \/ s < floor)
    <3>1. given[s] = 0
      BY <1>1, <2>2 DEF IInv, Once, BoundsSound, Seqs
    <3>. QED  BY <1>1, <1>2, <2>2, <3>1 DEF IInv, Once
  <2>. QED  BY <2>1, <2>2
<1>. QED  BY <1>7, <1>8, <1>9, <1>10, <1>11, <1>12, SMTT(20) DEF IInv

(* A row is stored under its leftmost column, which no other row keeps;    *)
(* what the others gain lies right of it, so they stay in echelon form.    *)
LEMMA StoreRowKeepsInv == IInv /\ StoreRow /\ UNCHANGED encVars => IInv'
<1> SUFFICES ASSUME IInv, StoreRow, UNCHANGED encVars
             PROVE  IInv'
  OBVIOUS
<1> DEFINE row     == normalized(Head(work).row)
           l       == lead(row)
           touched == {p \in DOMAIN rows : rows[p].c[l] # Nought}
           others  == [p \in DOMAIN rows |-> IF p \in touched THEN cleared(p, row) ELSE rows[p]]
           table   == insert(others, l, row)
           units   == Units(table, touched)
<1>1. /\ rows' = Restrict(table, DOMAIN table \ units)
      /\ \E q \in InOrderOf(units) : work' = Tail(work) \o Deliveries(table, q)
      /\ UNCHANGED <<recovered, delivered, src_seen, repairs_seen, floor, given>>
  BY ZenonT(40) DEF StoreRow
<1>2. /\ Head(work).row \in SoundRow /\ Tail(work) \in Seq(Plain)
      /\ Support(Head(work).row) # {} /\ ~IsUnit(Head(work).row)
      /\ Support(Head(work).row) \cap (DOMAIN recovered \cup DOMAIN rows) = {}
  BY HeadRow, WorkParts, Zenon DEF StoreRow, Reduced, PivotColumns, IInv, AtEquation
<1>3. /\ row \in SoundRow /\ Support(row) = Support(Head(work).row)
      /\ l = lead(Head(work).row) /\ row.c[l] = One
  BY <1>2, NormalizedSound
<1>4. /\ DOMAIN table = DOMAIN rows \cup {l} /\ table[l] = row
      /\ \A p \in DOMAIN rows \ {l} : table[p] = IF p \in touched THEN cleared(p, row) ELSE rows[p]
  BY DEF insert
<1>. HIDE DEF row, table
<1>5. /\ Support(row) \cap (DOMAIN recovered \cup DOMAIN rows) = {} /\ ~(\E q \in Seqs : Support(row) = {q})
      /\ l \in Seqs /\ l \in Support(row) /\ \A q \in Support(row) : l <= q
  BY <1>2, <1>3, LeadIsLeast DEF IsUnit, Support
<1>6. l \notin DOMAIN rows /\ l \notin DOMAIN recovered
  BY <1>5
<1>. HIDE DEF l
(* A touched row loses column l, and gains only columns of the new row.    *)
<1>7. ASSUME NEW p \in touched
      PROVE  /\ table[p] \in SoundRow /\ table[p].c[p] = One
             /\ p \in Support(table[p])
             /\ Support(table[p]) \subseteq (Support(rows[p]) \cup Support(row)) \ {l}
  <2> DEFINE old == rows[p]
             f   == old.c[l]
             new == sub_scaled(old, f, row)
  <2>1. p \in DOMAIN rows /\ p # l /\ p \in Seqs /\ old \in SoundRow /\ old.c[p] = One
    BY <1>6 DEF IInv, RowsSound, ReducedEchelon
  <2>2. f \in Field
    BY <1>5, <2>1, SoundRowIsVector
  <2>3. table[p] = new
    BY <1>4, <2>1 DEF cleared, l
  <2>. HIDE DEF f, new, old
  <2>4. \A g \in Field : /\ sub_scaled(old, g, row) \in SoundRow
                         /\ \A q \in Seqs : sub_scaled(old, g, row).c[q]
                                            = Add(old.c[q], Mul(g, row.c[q]))
    BY <1>3, <2>1, SubScaledSound
  <2>5. new \in SoundRow /\ \A q \in Seqs : new.c[q] = Add(old.c[q], Mul(f, row.c[q]))
    BY <2>2, <2>4 DEF new
  <2>6. Mul(f, Nought) = Nought /\ Mul(f, One) = f /\ Add(f, f) = Nought
    BY <2>2, Products, FieldAssumption
  <2>7. new.c[l] = Nought
    <3>1. new.c[l] = Add(f, Mul(f, One))
      BY <1>3, <1>5, <2>5 DEF f
    <3>. QED  BY <2>6, <3>1
  <2>8. \A q \in Seqs : row.c[q] = Nought => new.c[q] = Add(old.c[q], Nought)
    BY <2>5, <2>6
  <2>9. \A x \in {Nought, One} : Add(x, Nought) = x
    BY FieldAssumption
  <2>10. new.c[p] = One
    <3>1. row.c[p] = Nought
      BY <1>5, <2>1 DEF Support
    <3>. QED  BY <2>1, <2>8, <2>9, <3>1
  <2>11. \A q \in Seqs : old.c[q] = Nought /\ row.c[q] = Nought => new.c[q] = Nought
    BY <2>8, <2>9
  <2>12. p \in Support(new)
    BY <2>1, <2>10, FieldAssumption DEF Support
  <2>13. Support(new) \subseteq (Support(old) \cup Support(row)) \ {l}
    BY <2>7, <2>11 DEF Support
  <2>. QED  BY <2>3, <2>5, <2>10, <2>12, <2>13 DEF old
<1>8. \A p \in DOMAIN rows \ touched : /\ table[p] = rows[p] /\ p # l
                                       /\ l \notin Support(rows[p])
  BY <1>4, <1>6 DEF Support
<1>9. /\ DOMAIN rows' = DOMAIN table \ units
      /\ \A p \in DOMAIN rows' : rows'[p] = table[p]
  BY <1>1 DEF Restrict
<1>10. BoundsSound' /\ WireSound' /\ KnownSound' /\ Once'
  BY <1>1, SMTT(20) DEF IInv, BoundsSound, EncoderTypeOK, WireSound, KnownSound, Once, encVars
<1>11. RowsSound'
  BY <1>3, <1>4, <1>5, <1>7, <1>8, <1>9 DEF IInv, RowsSound
<1>12. ReducedEchelon'
  <2>. SUFFICES ASSUME NEW p \in DOMAIN rows'
                PROVE  /\ table[p].c[p] = One
                       /\ \A x \in Support(table[p]) : p <= x
                       /\ Support(table[p]) # {p}
                       /\ Support(table[p]) \cap (DOMAIN recovered \cup (DOMAIN rows \cup {l})) = {p}
    <3>1. DOMAIN rows' \subseteq DOMAIN rows \cup {l} /\ DOMAIN recovered' = DOMAIN recovered
      BY <1>1, <1>4, <1>9
    <3>. QED  BY <1>9, <3>1 DEF ReducedEchelon
  <2>1. \A x \in DOMAIN rows :
           /\ x \in Seqs /\ rows[x].c[x] = One
           /\ \A y \in Support(rows[x]) : x <= y
           /\ Support(rows[x]) # {x}
           /\ Support(rows[x]) \cap (DOMAIN recovered \cup DOMAIN rows) = {x}
    BY DEF IInv, ReducedEchelon, RowsSound
  <2>2. CASE p = l
    BY <1>3, <1>4, <1>5, <2>2
  <2>3. CASE p \in touched
    <3>1. Support(table[p]) # {p}
      <4>1. ~IsUnit(table[p])
        BY <1>9, <2>3 DEF Units
      <4>. QED  BY <2>1, <2>3, <4>1 DEF IsUnit
    <3>2. p <= l /\ p \in Int /\ l \in Int
      BY <1>5, <2>1, <2>3 DEF Support, Seqs
    <3>3. \A x \in Support(table[p]) : p <= x
      <4>1. \A x \in Support(row) : x \in Int /\ l <= x
        BY <1>5 DEF Support, Seqs
      <4>. QED  BY <1>7, <2>1, <2>3, <3>2, <4>1
    <3>. QED  BY <1>5, <1>7, <2>1, <2>3, <3>1, <3>3
  <2>4. CASE p \in DOMAIN rows \ touched
    BY <1>8, <2>1, <2>4
  <2>. QED  BY <1>4, <1>9, <2>2, <2>3, <2>4
<1>13. WorkSound'
  <2>1. touched \in SUBSET Seqs /\ \A p \in touched : table[p] \in SoundRow /\ table[p].c[p] = One
    BY <1>7 DEF IInv, RowsSound
  <2>2. PICK q \in InOrderOf(units) : work' = Tail(work) \o Deliveries(table, q)
    BY <1>1
  <2>3. Deliveries(table, q) \in Seq(Plain)
    BY <2>1, DeliveriesPlain
  <2>4. work' \in Seq(Plain)
    BY <1>2, <2>2, <2>3
  <2>. QED  BY <2>4, PlainWorkIsSound
<1>. QED  BY <1>10, <1>11, <1>12, <1>13, SMTT(20) DEF IInv

-----------------------------------------------------------------------------
(* A stuttering step keeps the invariant.                                  *)
LEMMA StutterKeepsInv == IInv /\ UNCHANGED vars => IInv'
<1> SUFFICES ASSUME IInv, UNCHANGED vars
             PROVE  IInv'
  OBVIOUS
<1>1. UNCHANGED encVars /\ UNCHANGED unifiedVars
  BY DEF vars
<1>2. Fresh' = Fresh
  BY <1>1 DEF Fresh, unifiedVars
<1>3. WorkSound'
  BY <1>1, <1>2 DEF IInv, WorkSound, unifiedVars
<1>. QED  BY <1>1, <1>3, OnlyWorkMoves DEF unifiedVars

(* Every step keeps the invariant, action by action.                       *)
LEMMA NextKeepsInv == IInv /\ [Next]_vars => IInv'
<1> SUFFICES ASSUME IInv, [Next]_vars
             PROVE  IInv'
  OBVIOUS
<1>1. CASE EncoderStep
  BY <1>1, EncodeKeepsInv
<1>2. CASE \E symbol \in wire : Receive(symbol)
  BY <1>2, ReceiveKeepsInv
<1>3. CASE RaiseFloor
  BY <1>3, RaiseFloorKeepsInv
<1>4. CASE DecoderStep
  BY <1>4, AssimilateKnownKeepsInv, EliminateKnownKeepsInv, ReduceByPivotKeepsInv,
     DroppedItemKeepsInv, SolvedKeepsInv, StoreRowKeepsInv DEF DecoderStep, Assimilate
<1>5. CASE UNCHANGED vars
  BY <1>5, StutterKeepsInv
<1>. QED  BY <1>1, <1>2, <1>3, <1>4, <1>5 DEF Next

(* The inductive invariant: symbols in flight, stored rows and pending     *)
(* items are equations that hold, the rows are in reduced echelon form, and *)
(* what was handed on above the floor is remembered.                       *)
THEOREM Invariance == Spec => []IInv
BY InitInv, NextKeepsInv, PTL DEF Spec

(* The items of a sound worklist.                                          *)
LEMMA WorkItems ==
    ASSUME WorkSound
    PROVE  work \in Seq(Plain \cup Fresh)
<1>1. CASE work = <<>>
  BY <1>1
<1>2. ASSUME NEW first \in Plain \cup Fresh, NEW rest \in Seq(Plain), work = <<first>> \o rest
      PROVE  work \in Seq(Plain \cup Fresh)
  <2>1. rest \in Seq(Plain \cup Fresh)
    BY SeqMonotonic
  <2>. QED  BY <1>2, <2>1
<1>. QED  BY <1>1, <1>2 DEF WorkSound

(* The decoder's variables have their types, for every field, every number *)
(* of sources and of coded symbols.                                        *)
THEOREM TypeCorrect == Spec => []TypeOK
<1>1. IInv => TypeOK
  <2> SUFFICES ASSUME IInv
               PROVE  TypeOK
    OBVIOUS
  <2>1. work \in Seq(Item)
    BY WorkItems, ItemFacts, SeqMonotonic DEF IInv
  <2>2. \A s \in DOMAIN recovered : s \in Seqs /\ recovered[s] \in Vec
    BY UnitVector DEF IInv, KnownSound
  <2>3. \A p \in DOMAIN rows : p \in Seqs /\ rows[p] \in Row
    BY DEF IInv, RowsSound, SoundRow
  <2>4. given \in [Seqs -> Nat]
    BY DEF IInv, Once
  <2>. QED  BY <2>1, <2>2, <2>3, <2>4 DEF TypeOK, IInv, BoundsSound
<1>. QED  BY <1>1, Invariance, PTL

(* What the decoder knows are the sources' own payloads, and every stored  *)
(* or pending equation holds (assimilate, fec/unified.rs).                 *)
THEOREM PayloadsAreTrue == Spec => []PayloadsTrue
<1>1. IInv => PayloadsTrue
  <2> SUFFICES ASSUME IInv
               PROVE  PayloadsTrue
    OBVIOUS
  <2>1. \A p \in DOMAIN rows : RowSound(rows[p])
    BY DEF IInv, RowsSound, SoundRow
  <2>2. ASSUME NEW i \in DOMAIN work
        PROVE  IF work[i].kind = "known" THEN work[i].data = Unit(work[i].seq)
                                         ELSE RowSound(work[i].row)
    <3>1. work[i] \in Plain \cup Fresh
      BY <2>2, WorkItems, ElementOfSeq, LenProperties DEF IInv
    <3>. QED  BY <3>1, ItemFacts DEF SoundRow
  <2>. QED  BY <2>1, <2>2 DEF PayloadsTrue, IInv, KnownSound
<1>. QED  BY <1>1, Invariance, PTL

(* The stored rows are in reduced echelon form between any two steps.      *)
THEOREM RowsStayReduced == Spec => []ReducedEchelon
<1>1. IInv => ReducedEchelon
  BY DEF IInv
<1>. QED  BY <1>1, Invariance, PTL

(* No source is handed on twice, however the floor forgets.                *)
THEOREM HandedOnOnce == Spec => []OnlyOnce
<1>1. IInv => OnlyOnce
  BY DEF IInv, Once, OnlyOnce
<1>. QED  BY <1>1, Invariance, PTL

-----------------------------------------------------------------------------
(***************************************************************************)
(* No step of the elimination loses an equation: a form that vanishes on   *)
(* all the decoder has after a step vanished on all it had before.         *)
(***************************************************************************)
Annuls(L, item) ==
    IF item.kind = "known" THEN L[Unit(item.seq)] = Nought ELSE L[item.row.c] = Nought

AnnulsAll(L, seq) == \A i \in 1 .. Len(seq) : Annuls(L, seq[i])

AnnulsUnified(L) ==
    /\ \A s \in DOMAIN recovered : L[Unit(s)] = Nought
    /\ \A p \in DOMAIN rows : L[rows[p].c] = Nought
    /\ AnnulsAll(L, work)

(* A form vanishes on a worklist when it does on its parts.                *)
LEMMA AnnulsParts ==
    ASSUME NEW L, NEW T, NEW x \in Seq(T), NEW y \in Seq(T)
    PROVE  /\ AnnulsAll(L, x \o y) <=> AnnulsAll(L, x) /\ AnnulsAll(L, y)
           /\ \A item : AnnulsAll(L, <<item>>) <=> Annuls(L, item)
<1>1. /\ Len(x) \in Nat /\ Len(y) \in Nat /\ Len(x \o y) = Len(x) + Len(y)
      /\ \A i \in 1 .. Len(x) : (x \o y)[i] = x[i]
      /\ \A i \in 1 .. Len(y) : (x \o y)[i + Len(x)] = y[i]
  OBVIOUS
<1>2. ASSUME AnnulsAll(L, x), AnnulsAll(L, y)
      PROVE  AnnulsAll(L, x \o y)
  <2>1. ASSUME NEW i \in 1 .. Len(x \o y)
        PROVE  Annuls(L, (x \o y)[i])
    <3>1. CASE i <= Len(x)
      BY <1>1, <1>2, <3>1 DEF AnnulsAll
    <3>2. CASE ~(i <= Len(x))
      <4>1. i - Len(x) \in 1 .. Len(y) /\ (i - Len(x)) + Len(x) = i
        BY <1>1, <3>2
      <4>2. (x \o y)[i] = y[i - Len(x)]
        BY <1>1, <4>1
      <4>. QED  BY <1>2, <4>1, <4>2 DEF AnnulsAll
    <3>. QED  BY <3>1, <3>2
  <2>. QED  BY <2>1 DEF AnnulsAll
<1>3. ASSUME AnnulsAll(L, x \o y)
      PROVE  AnnulsAll(L, x) /\ AnnulsAll(L, y)
  <2>1. \A i \in 1 .. Len(x) : i \in 1 .. Len(x \o y) /\ (x \o y)[i] = x[i]
    BY <1>1
  <2>2. \A i \in 1 .. Len(y) : i + Len(x) \in 1 .. Len(x \o y) /\ (x \o y)[i + Len(x)] = y[i]
    BY <1>1
  <2>3. \A i \in 1 .. Len(x \o y) : Annuls(L, (x \o y)[i])
    BY <1>3 DEF AnnulsAll
  <2>4. AnnulsAll(L, x)
    BY <2>1, <2>3, Zenon DEF AnnulsAll
  <2>5. AnnulsAll(L, y)
    BY <2>2, <2>3, Zenon DEF AnnulsAll
  <2>. QED  BY <2>4, <2>5
<1>4. \A item : AnnulsAll(L, <<item>>) <=> Annuls(L, item)
  BY DEF AnnulsAll
<1>. QED  BY <1>2, <1>3, <1>4

(* A list whose head is exchanged.                                         *)
LEMMA AnnulsHead ==
    ASSUME NEW L, NEW item, NEW rest \in Seq(Plain), Annuls(L, item), AnnulsAll(L, rest)
    PROVE  AnnulsAll(L, <<item>> \o rest) /\ AnnulsAll(L, rest \o <<item>>)
<1> DEFINE T == Plain \cup {item}
<1>1. <<item>> \in Seq(T) /\ rest \in Seq(T)
  BY SeqMonotonic
<1>. HIDE DEF T
<1>. QED  BY <1>1, AnnulsParts, Zenon

(* A worklist that is not empty is its head and its tail.                  *)
LEMMA AnnulsWork ==
    ASSUME WorkSound, ~Idle, NEW L
    PROVE  AnnulsAll(L, work) <=> Annuls(L, Head(work)) /\ AnnulsAll(L, Tail(work))
<1>1. PICK first \in Plain \cup Fresh, rest \in Seq(Plain) : work = <<first>> \o rest
  BY DEF WorkSound, Idle
<1>2. Head(work) = first /\ Tail(work) = rest
  BY <1>1
<1>3. rest \in Seq(Plain \cup Fresh) /\ <<first>> \in Seq(Plain \cup Fresh)
  BY SeqMonotonic
<1>. QED  BY <1>1, <1>2, <1>3, AnnulsParts, Zenon

(* The deliveries of a table name all of its unit rows.                    *)
LEMMA AllDelivered ==
    ASSUME NEW table, NEW P \in SUBSET Seqs, NEW q \in InOrderOf(Units(table, P)),
           NEW p \in Units(table, P)
    PROVE  \E i \in DOMAIN q : q[i] = p
<1> DEFINE units == Units(table, P)
           n == Cardinality(units)
<1>1. units \subseteq Seqs /\ IsFiniteSet(units) /\ n \in Nat
  <2>1. IsFiniteSet(Seqs)
    BY SizeAssumption, FS_Interval DEF Seqs
  <2>2. units \subseteq Seqs
    BY DEF Units
  <2>. QED  BY <2>1, <2>2, FS_Subset, FS_CardinalityType
<1>2. /\ q \in [1 .. n -> units]
      /\ \A i, j \in 1 .. n : i < j => q[i] < q[j]
  BY DEF InOrderOf
<1>. HIDE DEF units, n
<1>3. \A i, j \in 1 .. n : q[i] = q[j] => i = j
  <2>1. \A i \in 1 .. n : q[i] \in Int
    <3>1. Seqs \subseteq Int
      BY DEF Seqs
    <3>. QED  BY <1>1, <1>2, <3>1
  <2>. QED  BY <1>1, <1>2, <2>1
<1>4. q \in Injection(1 .. n, units)
  BY <1>2, <1>3 DEF Injection, IsInjective
<1>5. IsFiniteSet(1 .. n) /\ Cardinality(1 .. n) = n
  <2>1. n \in Int /\ 1 \in Int
    BY <1>1
  <2>2. IsFiniteSet(1 .. n) /\ Cardinality(1 .. n) = IF 1 > n THEN 0 ELSE n - 1 + 1
    BY <2>1, FS_Interval
  <2>. QED  BY <1>1, <2>2
<1>6. q \in Surjection(1 .. n, units)
  BY <1>1, <1>4, <1>5, FS_Injection DEF n
<1>7. p \in units
  BY DEF units
<1>. QED  BY <1>2, <1>6, <1>7 DEF Surjection

(* A form that vanishes on the deliveries vanishes on the unit rows.       *)
LEMMA AnnulsDelivered ==
    ASSUME NEW L \in Forms, NEW table, NEW P \in SUBSET Seqs,
           \A p \in P : table[p] \in SoundRow /\ table[p].c[p] = One,
           NEW q \in InOrderOf(Units(table, P)), AnnulsAll(L, Deliveries(table, q)),
           NEW p \in Units(table, P)
    PROVE  L[table[p].c] = Nought
<1>1. p \in P /\ p \in Seqs /\ IsUnit(table[p]) /\ table[p] \in SoundRow /\ table[p].c[p] = One
  BY DEF Units
<1>2. Support(table[p]) = {p} /\ lead(table[p]) = p
  BY <1>1, UnitRow
<1>3. PICK i \in DOMAIN q : q[i] = p
  BY AllDelivered
<1>4. Cardinality(Units(table, P)) \in Nat
  <2>1. IsFiniteSet(Seqs)
    BY SizeAssumption, FS_Interval DEF Seqs
  <2>2. Units(table, P) \subseteq Seqs
    BY DEF Units
  <2>. QED  BY <2>1, <2>2, FS_Subset, FS_CardinalityType
<1>5. DOMAIN q = 1 .. Cardinality(Units(table, P))
  BY DEF InOrderOf
<1>6. /\ i \in 1 .. Len(Deliveries(table, q))
      /\ Deliveries(table, q)[i] = Known(lead(table[p]), table[p].d)
  <2>1. DOMAIN Deliveries(table, q) = DOMAIN q
    BY DEF Deliveries
  <2>2. Deliveries(table, q)[i] = Known(lead(table[p]), table[p].d)
    BY <1>3 DEF Deliveries
  <2>3. Deliveries(table, q) \in Seq(Plain)
    BY DeliveriesPlain
  <2>4. DOMAIN Deliveries(table, q) = 1 .. Len(Deliveries(table, q))
    BY <2>3, LenProperties
  <2>. QED  BY <1>3, <2>1, <2>2, <2>4
<1>7. L[Unit(p)] = Nought
  <2>1. Annuls(L, Known(p, table[p].d))
    BY <1>2, <1>6 DEF AnnulsAll
  <2>. QED  BY <2>1 DEF Annuls, Known
<1>. QED  BY <1>1, <1>2, <1>7, FormUnit

(* A form that vanishes on the rows vanishes on what they deliver.         *)
LEMMA DeliveredAnnuls ==
    ASSUME NEW L \in Forms, NEW table, NEW P \in SUBSET Seqs,
           \A p \in P : table[p] \in SoundRow /\ table[p].c[p] = One,
           \A p \in Units(table, P) : L[table[p].c] = Nought,
           NEW q \in InOrderOf(Units(table, P))
    PROVE  AnnulsAll(L, Deliveries(table, q))
<1>1. Deliveries(table, q) \in Seq(Plain)
  BY DeliveriesPlain
<1>2. q \in [1 .. Cardinality(Units(table, P)) -> Units(table, P)]
  BY DEF InOrderOf
<1>3. DOMAIN Deliveries(table, q) = DOMAIN q
  BY DEF Deliveries
<1>4. 1 .. Len(Deliveries(table, q)) = DOMAIN q
  BY <1>1, <1>3, LenProperties
<1>5. ASSUME NEW i \in DOMAIN q
      PROVE  Annuls(L, Deliveries(table, q)[i])
  <2> DEFINE p == q[i]
  <2>1. p \in Units(table, P)
    BY <1>2
  <2>2. Deliveries(table, q)[i] = Known(lead(table[p]), table[p].d)
    BY DEF Deliveries
  <2>. HIDE DEF p
  <2>3. p \in P /\ p \in Seqs /\ IsUnit(table[p]) /\ table[p] \in SoundRow /\ table[p].c[p] = One
    BY <2>1 DEF Units
  <2>4. Support(table[p]) = {p} /\ lead(table[p]) = p
    BY <2>3, UnitRow
  <2>5. L[Unit(p)] = Nought
    BY <2>1, <2>3, <2>4, FormUnit
  <2>. QED  BY <2>2, <2>4, <2>5 DEF Annuls, Known
<1>. QED  BY <1>4, <1>5 DEF AnnulsAll

(* A row without columns says nothing.                                     *)
LEMMA AnnulsEmpty ==
    ASSUME NEW L \in Forms, NEW row \in SoundRow, Support(row) = {}
    PROVE  L[row.c] = Nought
<1>1. row.c \in Vec /\ Zero \in Vec
  BY SoundRowIsVector, UnitVector
<1>2. \A s \in Seqs : row.c[s] = Nought
  BY DEF Support
<1>3. row.c = Zero
  BY <1>1, <1>2 DEF Vec, Zero
<1>4. L[Zero] = Nought
  BY <1>1, FormOfSum, FieldAssumption
<1>. QED  BY <1>3, <1>4

(* An equation loses a known column, or is reduced by a stored row.        *)
LEMMA EliminationLosesNothing ==
    ASSUME IInv, EliminateKnown \/ ReduceByPivot, NEW L \in Forms, AnnulsUnified(L)'
    PROVE  AnnulsUnified(L)
<1> DEFINE row == Head(work).row
<1>1. /\ UNCHANGED <<recovered, rows>> /\ AtEquation /\ ~Idle
      /\ row \in SoundRow /\ Tail(work) \in Seq(Plain)
      /\ Annuls(L, Head(work)) <=> L[row.c] = Nought
  BY HeadRow, WorkParts DEF EliminateKnown, ReduceByPivot, AtEquation, IInv, Annuls
<1>. HIDE DEF row
<1>2. /\ \A s \in DOMAIN recovered : L[Unit(s)] = Nought
      /\ \A p \in DOMAIN rows : L[rows[p].c] = Nought
      /\ AnnulsAll(L, work')
  BY <1>1 DEF AnnulsUnified
<1>3. ASSUME NEW item, work' = <<item>> \o Tail(work)
      PROVE  Annuls(L, item) /\ AnnulsAll(L, Tail(work))
  <2> DEFINE T == Plain \cup {item}
  <2>1. <<item>> \in Seq(T) /\ Tail(work) \in Seq(T)
    BY <1>1, SeqMonotonic
  <2>. HIDE DEF T
  <2>. QED  BY <1>2, <1>3, <2>1, AnnulsParts, Zenon
<1>4. L[row.c] = Nought /\ AnnulsAll(L, Tail(work))
  <2>1. CASE EliminateKnown
    <3>1. PICK s \in Leftmost(KnownColumns) :
             work' = <<Eq(substitute(row, s, recovered[s]))>> \o Tail(work)
      BY <2>1 DEF EliminateKnown, row
    <3>2. s \in Seqs /\ recovered[s] = Unit(s) /\ L[Unit(s)] = Nought
      BY <1>1, <1>2, HeadRow DEF Leftmost, IInv, KnownSound
    <3>3. L[substitute(row, s, Unit(s)).c] = Nought /\ AnnulsAll(L, Tail(work))
      <4>1. Annuls(L, Eq(substitute(row, s, recovered[s]))) /\ AnnulsAll(L, Tail(work))
        BY <1>3, <3>1
      <4>. QED  BY <3>2, <4>1 DEF Annuls, Eq
    <3>. QED  BY <1>1, <3>2, <3>3, FormSubstitute
  <2>2. CASE ReduceByPivot
    <3>1. PICK s \in Leftmost(PivotColumns) :
             work' = <<Unknowns(sub_scaled(row, row.c[s], rows[s]))>> \o Tail(work)
      BY <2>2 DEF ReduceByPivot, row
    <3>2. s \in Seqs /\ rows[s] \in SoundRow /\ L[rows[s].c] = Nought /\ row.c[s] \in Field
      BY <1>1, <1>2, SoundRowIsVector DEF Leftmost, PivotColumns, IInv, RowsSound
    <3>3. L[sub_scaled(row, row.c[s], rows[s]).c] = Nought /\ AnnulsAll(L, Tail(work))
      <4>1. Annuls(L, Unknowns(sub_scaled(row, row.c[s], rows[s]))) /\ AnnulsAll(L, Tail(work))
        BY <1>3, <3>1
      <4>. QED  BY <4>1 DEF Annuls, Unknowns
    <3>. QED  BY <1>1, <3>2, <3>3, FormSubScaled, SMTT(20)
  <2>. QED  BY <2>1, <2>2
<1>5. AnnulsAll(L, work)
  BY <1>1, <1>4, AnnulsWork DEF IInv
<1>. QED  BY <1>2, <1>5 DEF AnnulsUnified

(* Nor is one invented.                                                    *)
LEMMA EliminationInventsNothing ==
    ASSUME IInv, EliminateKnown \/ ReduceByPivot, NEW L \in Forms, AnnulsUnified(L)
    PROVE  AnnulsUnified(L)'
<1> DEFINE row == Head(work).row
<1>1. /\ UNCHANGED <<recovered, rows>> /\ AtEquation /\ ~Idle
      /\ row \in SoundRow /\ Tail(work) \in Seq(Plain)
      /\ Annuls(L, Head(work)) <=> L[row.c] = Nought
  BY HeadRow, WorkParts DEF EliminateKnown, ReduceByPivot, AtEquation, IInv, Annuls
<1>. HIDE DEF row
<1>2. /\ \A s \in DOMAIN recovered : L[Unit(s)] = Nought
      /\ \A p \in DOMAIN rows : L[rows[p].c] = Nought
      /\ L[row.c] = Nought /\ AnnulsAll(L, Tail(work))
  BY <1>1, AnnulsWork DEF AnnulsUnified, IInv
<1>3. AnnulsAll(L, work')
  <2>1. CASE EliminateKnown
    <3>1. PICK s \in Leftmost(KnownColumns) :
             work' = <<Eq(substitute(row, s, recovered[s]))>> \o Tail(work)
      BY <2>1 DEF EliminateKnown, row
    <3>2. s \in Seqs /\ recovered[s] = Unit(s) /\ L[Unit(s)] = Nought
      BY <1>1, <1>2, HeadRow DEF Leftmost, IInv, KnownSound
    <3>3. L[substitute(row, s, recovered[s]).c] = Nought
      BY <1>1, <1>2, <3>2, FormSubstitute
    <3>4. Annuls(L, Eq(substitute(row, s, recovered[s])))
      BY <3>3 DEF Annuls, Eq
    <3>. QED  BY <1>1, <1>2, <3>1, <3>4, AnnulsHead
  <2>2. CASE ReduceByPivot
    <3>1. PICK s \in Leftmost(PivotColumns) :
             work' = <<Unknowns(sub_scaled(row, row.c[s], rows[s]))>> \o Tail(work)
      BY <2>2 DEF ReduceByPivot, row
    <3>2. s \in Seqs /\ rows[s] \in SoundRow /\ L[rows[s].c] = Nought /\ row.c[s] \in Field
      BY <1>1, <1>2, SoundRowIsVector DEF Leftmost, PivotColumns, IInv, RowsSound
    <3>3. L[sub_scaled(row, row.c[s], rows[s]).c] = Nought
      BY <1>1, <1>2, <3>2, FormSubScaled
    <3>4. Annuls(L, Unknowns(sub_scaled(row, row.c[s], rows[s])))
      BY <3>3 DEF Annuls, Unknowns
    <3>. QED  BY <1>1, <1>2, <3>1, <3>4, AnnulsHead
  <2>. QED  BY <2>1, <2>2
<1>. QED  BY <1>1, <1>2, <1>3 DEF AnnulsUnified

(* What is dropped was known, or says nothing; what is solved is a payload.*)
LEMMA ItemLosesNothing ==
    ASSUME IInv, KnownAlready \/ Dependent \/ Solved, NEW L \in Forms, AnnulsUnified(L)'
    PROVE  AnnulsUnified(L)
<1>1. /\ UNCHANGED <<recovered, rows>> /\ ~Idle
      /\ Tail(work) \in Seq(Plain) /\ Head(work) \in Plain \cup Fresh
  BY WorkParts DEF KnownAlready, Dependent, Solved, Reduced, AtEquation, IInv
<1>2. /\ \A s \in DOMAIN recovered : L[Unit(s)] = Nought
      /\ \A p \in DOMAIN rows : L[rows[p].c] = Nought
      /\ AnnulsAll(L, work')
  BY <1>1 DEF AnnulsUnified
<1>3. Annuls(L, Head(work)) /\ AnnulsAll(L, Tail(work))
  <2>1. CASE KnownAlready
    BY <1>2, <2>1 DEF KnownAlready, Annuls
  <2>2. CASE Dependent
    <3>1. Head(work).row \in SoundRow /\ Support(Head(work).row) = {} /\ Head(work).kind # "known"
      BY <2>2, HeadRow DEF Dependent, Reduced, AtEquation
    <3>2. L[Head(work).row.c] = Nought
      BY <3>1, AnnulsEmpty
    <3>. QED  BY <1>2, <2>2, <3>1, <3>2 DEF Dependent, Annuls
  <2>3. CASE Solved
    <3> DEFINE old == Head(work).row
               row == normalized(old)
    <3>1. /\ old \in SoundRow /\ Head(work).kind # "known" /\ IsUnit(old)
          /\ work' = Append(Tail(work), Known(lead(row), row.d))
      BY <2>3, HeadRow DEF Solved, Reduced, AtEquation
    <3>2. PICK t \in Seqs : Support(old) = {t}
      BY <3>1 DEF IsUnit
    <3>3. lead(row) = t
      <4>1. lead(row) = lead(old)
        BY <3>1, <3>2, NormalizedSound
      <4>2. lead(old) \in Support(old)
        BY <3>2, LeadIsLeast
      <4>. QED  BY <3>2, <4>1, <4>2
    <3> DEFINE item == Known(t, row.d)
               T == Plain \cup {item}
    <3>4. work' = Tail(work) \o <<item>> /\ Tail(work) \in Seq(T) /\ <<item>> \in Seq(T)
      BY <1>1, <3>1, <3>3, SeqMonotonic, SMTT(20)
    <3>5. Annuls(L, item) /\ AnnulsAll(L, Tail(work))
      <4>. HIDE DEF T, item
      <4>. QED  BY <1>2, <3>4, AnnulsParts, Zenon
    <3>6. L[Unit(t)] = Nought
      BY <3>5 DEF Annuls, Known
    <3>7. L[old.c] = Nought
      BY <3>1, <3>2, <3>6, FormUnit
    <3>. QED  BY <3>1, <3>5, <3>7 DEF Annuls
  <2>. QED  BY <2>1, <2>2, <2>3
<1>4. AnnulsAll(L, work)
  BY <1>1, <1>3, AnnulsWork DEF IInv
<1>. QED  BY <1>2, <1>4 DEF AnnulsUnified

(* And so here.                                                            *)
LEMMA ItemInventsNothing ==
    ASSUME IInv, KnownAlready \/ Dependent \/ Solved, NEW L \in Forms, AnnulsUnified(L)
    PROVE  AnnulsUnified(L)'
<1>1. /\ UNCHANGED <<recovered, rows>> /\ ~Idle
      /\ Tail(work) \in Seq(Plain)
  BY WorkParts DEF KnownAlready, Dependent, Solved, Reduced, AtEquation, IInv
<1>2. /\ \A s \in DOMAIN recovered : L[Unit(s)] = Nought
      /\ \A p \in DOMAIN rows : L[rows[p].c] = Nought
      /\ Annuls(L, Head(work)) /\ AnnulsAll(L, Tail(work))
  BY <1>1, AnnulsWork DEF AnnulsUnified, IInv
<1>3. AnnulsAll(L, work')
  <2>1. CASE KnownAlready \/ Dependent
    BY <1>2, <2>1 DEF KnownAlready, Dependent
  <2>2. CASE Solved
    <3> DEFINE old == Head(work).row
               row == normalized(old)
    <3>1. /\ old \in SoundRow /\ Head(work).kind # "known" /\ IsUnit(old)
          /\ work' = Append(Tail(work), Known(lead(row), row.d))
      BY <2>2, HeadRow DEF Solved, Reduced, AtEquation
    <3>2. PICK t \in Seqs : Support(old) = {t}
      BY <3>1 DEF IsUnit
    <3>3. lead(row) = t
      <4>1. lead(row) = lead(old)
        BY <3>1, <3>2, NormalizedSound
      <4>2. lead(old) \in Support(old)
        BY <3>2, LeadIsLeast
      <4>. QED  BY <3>2, <4>1, <4>2
    <3>4. L[Unit(t)] = Nought
      <4>1. L[old.c] = Nought
        BY <1>2, <3>1 DEF Annuls
      <4>. QED  BY <3>1, <3>2, <4>1, FormUnit
    <3> DEFINE item == Known(t, row.d)
    <3>5. work' = Tail(work) \o <<item>>
      BY <1>1, <3>1, <3>3, SMTT(20)
    <3>6. Annuls(L, item)
      BY <3>4 DEF Annuls, Known
    <3>. HIDE DEF item
    <3>. QED  BY <1>1, <1>2, <3>5, <3>6, AnnulsHead
  <2>. QED  BY <1>1, <2>1, <2>2
<1>. QED  BY <1>1, <1>2, <1>3 DEF AnnulsUnified

(* A row is put in: what StoreRow computes.                                *)
Storing(old, row, touched, table, q) ==
    /\ ~Idle /\ Head(work).kind # "known" /\ Tail(work) \in Seq(Plain)
    /\ old = Head(work).row /\ old \in SoundRow /\ Support(old) # {}
    /\ row = normalized(old) /\ row \in SoundRow
    /\ lead(row) \notin DOMAIN rows
    /\ DOMAIN table = DOMAIN rows \cup {lead(row)} /\ table[lead(row)] = row
    /\ touched \subseteq DOMAIN rows /\ touched \in SUBSET Seqs
    /\ \A p \in DOMAIN rows :
          /\ rows[p] \in SoundRow /\ rows[p].c[lead(row)] \in Field
          /\ table[p] = IF p \in touched THEN sub_scaled(rows[p], rows[p].c[lead(row)], row)
                                        ELSE rows[p]
    /\ \A p \in touched : table[p] \in SoundRow /\ table[p].c[p] = One
    /\ q \in InOrderOf(Units(table, touched)) /\ Deliveries(table, q) \in Seq(Plain)
    /\ work' = Tail(work) \o Deliveries(table, q)
    /\ rows' = Restrict(table, DOMAIN table \ Units(table, touched))
    /\ recovered' = recovered

(* Every step that stores a row is such.                                   *)
LEMMA RowStored ==
    ASSUME IInv, StoreRow
    PROVE  \E old, row, touched, table, q : Storing(old, row, touched, table, q)
<1> DEFINE old     == Head(work).row
           row     == normalized(old)
           l       == lead(row)
           touched == {p \in DOMAIN rows : rows[p].c[l] # Nought}
           others  == [p \in DOMAIN rows |-> IF p \in touched THEN cleared(p, row) ELSE rows[p]]
           table   == insert(others, l, row)
           units   == Units(table, touched)
<1>1. /\ rows' = Restrict(table, DOMAIN table \ units)
      /\ \E q \in InOrderOf(units) : work' = Tail(work) \o Deliveries(table, q)
      /\ recovered' = recovered
  BY ZenonT(40) DEF StoreRow
<1>2. /\ old \in SoundRow /\ Tail(work) \in Seq(Plain)
      /\ Support(old) # {} /\ ~Idle /\ Head(work).kind # "known"
      /\ Support(old) \cap DOMAIN rows = {}
  BY HeadRow, WorkParts, Zenon DEF StoreRow, Reduced, PivotColumns, IInv, AtEquation
<1>3. /\ row \in SoundRow /\ Support(row) = Support(old) /\ row.c[l] = One
      /\ l \in Seqs /\ l \in Support(row)
  <2>1. row \in SoundRow /\ Support(row) = Support(old) /\ lead(row) = lead(old) /\ row.c[lead(old)] = One
    BY <1>2, NormalizedSound
  <2>2. lead(old) \in Support(old) /\ Support(old) \subseteq Seqs
    BY <1>2, LeadIsLeast DEF Support
  <2>. QED  BY <2>1, <2>2
<1>4. /\ DOMAIN table = DOMAIN rows \cup {l} /\ table[l] = row
      /\ \A p \in DOMAIN rows \ {l} : table[p] = IF p \in touched THEN cleared(p, row) ELSE rows[p]
  BY DEF insert
<1>5. \A p \in touched : cleared(p, row) = sub_scaled(rows[p], rows[p].c[l], row)
  BY DEF cleared
<1>. HIDE DEF row, table, old
<1>6. l \notin DOMAIN rows
  BY <1>2, <1>3
<1>. HIDE DEF l
<1>7. \A p \in DOMAIN rows : /\ p \in Seqs /\ rows[p] \in SoundRow /\ rows[p].c[p] = One
                             /\ rows[p].c[l] \in Field
  BY <1>3, SoundRowIsVector DEF IInv, RowsSound, ReducedEchelon
<1>8. \A p \in touched : table[p] \in SoundRow /\ table[p].c[p] = One
  <2>. SUFFICES ASSUME NEW p \in touched
                PROVE  table[p] \in SoundRow /\ table[p].c[p] = One
    OBVIOUS
  <2>1. p \in Seqs /\ p # l /\ rows[p] \in SoundRow /\ rows[p].c[p] = One /\ row.c[p] = Nought
    BY <1>2, <1>3, <1>6, <1>7 DEF Support
  <2> DEFINE f == rows[p].c[l]
  <2>2. f \in Field /\ table[p] = sub_scaled(rows[p], f, row)
    BY <1>4, <1>5, <1>7, <2>1
  <2>. HIDE DEF f
  <2>3. /\ sub_scaled(rows[p], f, row) \in SoundRow
        /\ sub_scaled(rows[p], f, row).c[p] = Add(rows[p].c[p], Mul(f, row.c[p]))
    BY <1>3, <2>1, <2>2, SubScaledSound
  <2>4. Add(One, Mul(f, Nought)) = One
    BY <2>2, Products, FieldAssumption
  <2>. QED  BY <2>1, <2>2, <2>3, <2>4
<1>9. touched \in SUBSET Seqs /\ units \subseteq touched
  BY <1>7 DEF Units
<1>10. PICK q \in InOrderOf(units) : work' = Tail(work) \o Deliveries(table, q)
  BY <1>1
<1>11. Deliveries(table, q) \in Seq(Plain)
  BY <1>8, <1>9, DeliveriesPlain
<1>12. \A p \in DOMAIN rows : table[p] = IF p \in touched THEN sub_scaled(rows[p], rows[p].c[l], row)
                                                          ELSE rows[p]
  BY <1>4, <1>5, <1>6
<1>13. row = normalized(old) /\ l = lead(row) /\ old = Head(work).row
  BY DEF row, l, old
<1>. HIDE DEF touched, units
<1>14. touched \subseteq DOMAIN rows /\ units = Units(table, touched)
  BY DEF touched, units
<1>15. Storing(old, row, touched, table, q)
  BY <1>1, <1>2, <1>3, <1>4, <1>6, <1>7, <1>8, <1>9, <1>10, <1>11, <1>12, <1>13, <1>14 DEF Storing
<1>. QED  BY <1>15

(* A row stored is kept or delivered, and so are the rows it is cleared    *)
(* from.                                                                   *)
LEMMA StoreRowLosesNothing ==
    ASSUME IInv, StoreRow, NEW L \in Forms, AnnulsUnified(L)'
    PROVE  AnnulsUnified(L)
<1>1. PICK old, row, touched, table, q : Storing(old, row, touched, table, q)
  BY RowStored
<1> DEFINE l == lead(row)
           units == Units(table, touched)
<1>. HIDE DEF l, units
<1>2. AnnulsAll(L, Deliveries(table, q)) /\ AnnulsAll(L, Tail(work))
  <2>1. AnnulsAll(L, work')
    BY DEF AnnulsUnified
  <2>2. work' = Tail(work) \o Deliveries(table, q) /\ Tail(work) \in Seq(Plain)
        /\ Deliveries(table, q) \in Seq(Plain)
    BY <1>1 DEF Storing
  <2>. QED  BY <2>1, <2>2, AnnulsParts
<1>3. /\ \A s \in DOMAIN recovered : L[Unit(s)] = Nought
      /\ \A p \in DOMAIN table \ units : L[table[p].c] = Nought
  BY <1>1 DEF Storing, AnnulsUnified, Restrict, units
<1>4. \A p \in units : L[table[p].c] = Nought
  <2>1. /\ touched \in SUBSET Seqs /\ q \in InOrderOf(Units(table, touched))
        /\ \A p \in touched : table[p] \in SoundRow /\ table[p].c[p] = One
    BY <1>1 DEF Storing
  <2>. QED  BY <1>2, <2>1, AnnulsDelivered DEF units
<1>5. \A p \in DOMAIN table : L[table[p].c] = Nought
  BY <1>3, <1>4
<1>6. L[row.c] = Nought /\ L[old.c] = Nought
  <2>1. row = normalized(old) /\ old \in SoundRow /\ Support(old) # {} /\ L[row.c] = Nought
    BY <1>1, <1>5 DEF Storing
  <2>. QED  BY <2>1, FormNormalized
<1>7. \A p \in DOMAIN rows : L[rows[p].c] = Nought
  <2>. SUFFICES ASSUME NEW p \in DOMAIN rows
                PROVE  L[rows[p].c] = Nought
    OBVIOUS
  <2>1. /\ L[table[p].c] = Nought /\ rows[p] \in SoundRow /\ row \in SoundRow
        /\ rows[p].c[l] \in Field
        /\ table[p] = IF p \in touched THEN sub_scaled(rows[p], rows[p].c[l], row) ELSE rows[p]
    BY <1>1, <1>5 DEF Storing, l
  <2>. QED  BY <1>6, <2>1, FormSubScaled
<1>8. AnnulsAll(L, work)
  <2>1. ~Idle /\ Head(work).kind # "known" /\ old = Head(work).row
    BY <1>1 DEF Storing
  <2>. QED  BY <1>2, <1>6, <2>1, AnnulsWork DEF IInv, Annuls
<1>. QED  BY <1>3, <1>7, <1>8 DEF AnnulsUnified

(* And what is kept and delivered follows from what there was.             *)
LEMMA StoreRowInventsNothing ==
    ASSUME IInv, StoreRow, NEW L \in Forms, AnnulsUnified(L)
    PROVE  AnnulsUnified(L)'
<1>1. PICK old, row, touched, table, q : Storing(old, row, touched, table, q)
  BY RowStored
<1> DEFINE l == lead(row)
           units == Units(table, touched)
<1>. HIDE DEF l, units
<1>2. /\ Annuls(L, Head(work)) /\ AnnulsAll(L, Tail(work))
      /\ \A s \in DOMAIN recovered : L[Unit(s)] = Nought
      /\ \A p \in DOMAIN rows : L[rows[p].c] = Nought
  BY <1>1, AnnulsWork DEF Storing, IInv, AnnulsUnified
<1>3. L[row.c] = Nought
  <2>1. row = normalized(old) /\ old \in SoundRow /\ Support(old) # {} /\ L[old.c] = Nought
    BY <1>1, <1>2 DEF Storing, Annuls
  <2>. QED  BY <2>1, FormNormalized
<1>4. \A p \in DOMAIN table : L[table[p].c] = Nought
  <2>. SUFFICES ASSUME NEW p \in DOMAIN table
                PROVE  L[table[p].c] = Nought
    OBVIOUS
  <2>1. CASE p = l
    BY <1>1, <1>3, <2>1 DEF Storing, l
  <2>2. CASE p # l
    <3>1. /\ L[rows[p].c] = Nought /\ rows[p] \in SoundRow /\ row \in SoundRow
          /\ rows[p].c[l] \in Field
          /\ table[p] = IF p \in touched THEN sub_scaled(rows[p], rows[p].c[l], row) ELSE rows[p]
      BY <1>1, <1>2, <2>2 DEF Storing, l
    <3>. QED  BY <1>3, <3>1, FormSubScaled
  <2>. QED  BY <2>1, <2>2
<1>5. AnnulsAll(L, Deliveries(table, q))
  <2>1. /\ touched \in SUBSET Seqs /\ q \in InOrderOf(Units(table, touched))
        /\ touched \subseteq DOMAIN table
        /\ \A p \in touched : table[p] \in SoundRow /\ table[p].c[p] = One
    BY <1>1 DEF Storing
  <2>2. \A p \in Units(table, touched) : L[table[p].c] = Nought
    BY <1>4, <2>1 DEF Units
  <2>. QED  BY <2>1, <2>2, DeliveredAnnuls
<1>6. AnnulsAll(L, work')
  <2>1. work' = Tail(work) \o Deliveries(table, q) /\ Tail(work) \in Seq(Plain)
        /\ Deliveries(table, q) \in Seq(Plain)
    BY <1>1 DEF Storing
  <2>. QED  BY <1>2, <1>5, <2>1, AnnulsParts
<1>7. recovered' = recovered /\ \A p \in DOMAIN rows' : p \in DOMAIN table /\ rows'[p] = table[p]
  BY <1>1, SMTT(30) DEF Storing, Restrict
<1>. QED  BY <1>2, <1>4, <1>6, <1>7 DEF AnnulsUnified

(* A payload is put in: what AssimilateKnown computes.                     *)
Learning(s, data, table, P, q) ==
    /\ ~Idle /\ Head(work).kind = "known" /\ Tail(work) \in Seq(Plain)
    /\ s = Head(work).seq /\ s \in Seqs /\ data = Unit(s)
    /\ DOMAIN table = DOMAIN rows \ {s}
    /\ \A p \in DOMAIN rows : p \in Seqs /\ rows[p] \in SoundRow
    /\ \A p \in DOMAIN table : table[p] = substitute(rows[p], s, Unit(s))
    /\ P \in SUBSET Seqs /\ P \subseteq DOMAIN table
    /\ \A p \in P : table[p] \in SoundRow /\ table[p].c[p] = One
    /\ q \in InOrderOf(Units(table, P)) /\ Deliveries(table, q) \in Seq(Plain)
    /\ displaced(s, data) \in Seq(Plain)
    /\ work' = Tail(work) \o displaced(s, data) \o Deliveries(table, q)
    /\ rows' = Restrict(table, DOMAIN table \ Units(table, P))
    /\ recovered' = insert(recovered, s, data)

(* Every step that takes in a payload is such.                             *)
LEMMA PayloadLearnt ==
    ASSUME IInv, AssimilateKnown
    PROVE  \E s, data, table, P, q : Learning(s, data, table, P, q)
<1> DEFINE s     == Head(work).seq
           data  == Head(work).data
           table == [p \in DOMAIN rows \ {s} |-> substitute(rows[p], s, data)]
           P     == {p \in DOMAIN table : rows[p].c[s] # Nought}
           units == Units(table, P)
<1>1. /\ s \in Seqs /\ data = Unit(s) /\ Tail(work) \in Seq(Plain)
      /\ ~Idle /\ Head(work).kind = "known"
  BY WorkParts, ItemFacts, SMTT(20) DEF AssimilateKnown, IInv
<1>2. /\ recovered' = insert(recovered, s, data)
      /\ rows' = Restrict(table, DOMAIN table \ units)
      /\ \E q \in InOrderOf(units) : work' = Tail(work) \o displaced(s, data) \o Deliveries(table, q)
  BY Zenon DEF AssimilateKnown
<1>3. DOMAIN table = DOMAIN rows \ {s} /\ \A p \in DOMAIN table : table[p] = substitute(rows[p], s, data)
  OBVIOUS
<1>. HIDE DEF s, data, table
<1>5. \A p \in DOMAIN table : /\ p \in Seqs /\ p \in DOMAIN rows /\ p # s
                              /\ table[p] \in SoundRow /\ table[p].c[p] = One
                              /\ table[p] = substitute(rows[p], s, Unit(s))
  BY <1>1, <1>3, WithoutKnownColumn DEF IInv, RowsSound
<1>8. P \in SUBSET Seqs /\ units \subseteq P /\ \A p \in P : table[p] \in SoundRow /\ table[p].c[p] = One
  BY <1>5 DEF Units
<1>9. PICK q \in InOrderOf(units) : work' = Tail(work) \o displaced(s, data) \o Deliveries(table, q)
  BY <1>2
<1>10. s \in DOMAIN rows => substitute(rows[s], s, Unit(s)) \in SoundRow /\ rows[s] \in SoundRow
  BY <1>1, SubstituteSound DEF IInv, RowsSound
<1>11. displaced(s, data) \in Seq(Plain)
  <2>1. CASE s \in DOMAIN rows
    <3>1. Eq(substitute(rows[s], s, data)) \in Plain
      BY <1>1, <1>10, <2>1 DEF Plain
    <3>. QED  BY <3>1 DEF displaced
  <2>2. CASE s \notin DOMAIN rows
    BY <2>2 DEF displaced
  <2>. QED  BY <2>1, <2>2
<1>12. Deliveries(table, q) \in Seq(Plain)
  BY <1>8, DeliveriesPlain
<1>13. \A p \in DOMAIN rows : p \in Seqs /\ rows[p] \in SoundRow
  BY DEF IInv, RowsSound
<1>14. s = Head(work).seq /\ P \subseteq DOMAIN table
  BY DEF s
<1>. HIDE DEF P, units
<1>15. units = Units(table, P)
  BY DEF units
<1>16. Learning(s, data, table, P, q)
  BY <1>1, <1>2, <1>3, <1>5, <1>8, <1>9, <1>11, <1>12, <1>13, <1>14, <1>15 DEF Learning
<1>. QED  BY <1>16

(* The row displaced says, with the payload, what it said before.          *)
LEMMA DisplacedSays ==
    ASSUME NEW L \in Forms, NEW s \in Seqs, L[Unit(s)] = Nought,
           s \in DOMAIN rows => rows[s] \in SoundRow
    PROVE  AnnulsAll(L, displaced(s, Unit(s))) <=> (s \in DOMAIN rows => L[rows[s].c] = Nought)
<1> DEFINE row == substitute(rows[s], s, Unit(s))
<1>1. CASE s \in DOMAIN rows /\ Support(row) # {}
  <2>1. displaced(s, Unit(s)) = <<Eq(row)>>
    BY <1>1 DEF displaced
  <2>2. L[row.c] = L[rows[s].c]
    BY <1>1, FormSubstitute
  <2>. HIDE DEF row
  <2>3. AnnulsAll(L, <<Eq(row)>>) <=> Annuls(L, Eq(row))
    BY DEF AnnulsAll
  <2>4. Annuls(L, Eq(row)) <=> L[row.c] = Nought
    BY DEF Annuls, Eq
  <2>. QED  BY <1>1, <2>1, <2>2, <2>3, <2>4
<1>2. CASE s \in DOMAIN rows /\ Support(row) = {}
  <2>1. displaced(s, Unit(s)) = <<>>
    BY <1>2 DEF displaced
  <2>2. L[row.c] = L[rows[s].c] /\ row \in SoundRow
    BY <1>2, FormSubstitute, SubstituteSound
  <2>. HIDE DEF row
  <2>3. L[row.c] = Nought
    BY <1>2, <2>2, AnnulsEmpty
  <2>. QED  BY <2>1, <2>2, <2>3 DEF AnnulsAll
<1>3. CASE s \notin DOMAIN rows
  BY <1>3 DEF displaced, AnnulsAll
<1>. QED  BY <1>1, <1>2, <1>3

(* What is on the list after it.                                           *)
LEMMA LearningParts ==
    ASSUME NEW L, NEW s, NEW data, NEW table, NEW P, NEW q, Learning(s, data, table, P, q)
    PROVE  AnnulsAll(L, work') <=> /\ AnnulsAll(L, Tail(work))
                                   /\ AnnulsAll(L, displaced(s, Unit(s)))
                                   /\ AnnulsAll(L, Deliveries(table, q))
<1>1. /\ Tail(work) \in Seq(Plain) /\ displaced(s, data) \in Seq(Plain)
      /\ Deliveries(table, q) \in Seq(Plain) /\ data = Unit(s)
      /\ work' = Tail(work) \o displaced(s, data) \o Deliveries(table, q)
  BY DEF Learning
<1>2. Tail(work) \o displaced(s, data) \in Seq(Plain)
  BY <1>1
<1>3. AnnulsAll(L, work') <=> AnnulsAll(L, Tail(work) \o displaced(s, data))
                              /\ AnnulsAll(L, Deliveries(table, q))
  BY <1>1, <1>2, AnnulsParts
<1>4. AnnulsAll(L, Tail(work) \o displaced(s, data))
         <=> AnnulsAll(L, Tail(work)) /\ AnnulsAll(L, displaced(s, data))
  BY <1>1, AnnulsParts
<1>. QED  BY <1>1, <1>3, <1>4

(* A payload taken out of the rows leaves each kept, displaced or          *)
(* delivered.                                                              *)
LEMMA PayloadLosesNothing ==
    ASSUME IInv, AssimilateKnown, NEW L \in Forms, AnnulsUnified(L)'
    PROVE  AnnulsUnified(L)
<1>1. PICK s, data, table, P, q : Learning(s, data, table, P, q)
  BY PayloadLearnt
<1>2. /\ recovered' = insert(recovered, s, data) /\ s \in Seqs
      /\ rows' = Restrict(table, DOMAIN table \ Units(table, P))
  BY <1>1 DEF Learning
<1>3. /\ L[Unit(s)] = Nought /\ \A x \in DOMAIN recovered : L[Unit(x)] = Nought
      /\ \A p \in DOMAIN table \ Units(table, P) : L[table[p].c] = Nought
  <2>1. s \in DOMAIN recovered' /\ DOMAIN recovered \subseteq DOMAIN recovered'
    BY <1>2 DEF insert
  <2>. QED  BY <1>2, <2>1 DEF AnnulsUnified, Restrict
<1>4. /\ AnnulsAll(L, Tail(work)) /\ AnnulsAll(L, displaced(s, Unit(s)))
      /\ AnnulsAll(L, Deliveries(table, q))
  BY <1>1, LearningParts DEF AnnulsUnified
<1>5. \A p \in DOMAIN table : L[table[p].c] = Nought
  <2>1. /\ P \in SUBSET Seqs /\ q \in InOrderOf(Units(table, P))
        /\ \A p \in P : table[p] \in SoundRow /\ table[p].c[p] = One
    BY <1>1 DEF Learning
  <2>2. \A p \in Units(table, P) : L[table[p].c] = Nought
    BY <1>4, <2>1, AnnulsDelivered
  <2>. QED  BY <1>3, <2>2
<1>6. ASSUME NEW p \in DOMAIN rows
      PROVE  L[rows[p].c] = Nought
  <2>1. rows[p] \in SoundRow
    BY <1>1 DEF Learning
  <2>2. CASE p = s
    BY <1>2, <1>3, <1>4, <2>1, <2>2, DisplacedSays
  <2>3. CASE p # s
    <3>1. p \in DOMAIN table /\ table[p] = substitute(rows[p], s, Unit(s))
      BY <1>1, <2>3 DEF Learning
    <3>. QED  BY <1>2, <1>3, <1>5, <2>1, <3>1, FormSubstitute
  <2>. QED  BY <2>2, <2>3
<1>7. AnnulsAll(L, work)
  <2>1. ~Idle /\ Head(work).kind = "known" /\ s = Head(work).seq
    BY <1>1 DEF Learning
  <2>. QED  BY <1>3, <1>4, <2>1, AnnulsWork DEF IInv, Annuls
<1>. QED  BY <1>3, <1>6, <1>7 DEF AnnulsUnified

(* And these follow from what there was.                                   *)
LEMMA PayloadInventsNothing ==
    ASSUME IInv, AssimilateKnown, NEW L \in Forms, AnnulsUnified(L)
    PROVE  AnnulsUnified(L)'
<1>1. PICK s, data, table, P, q : Learning(s, data, table, P, q)
  BY PayloadLearnt
<1>2. /\ Annuls(L, Head(work)) /\ AnnulsAll(L, Tail(work))
      /\ \A x \in DOMAIN recovered : L[Unit(x)] = Nought
      /\ \A p \in DOMAIN rows : L[rows[p].c] = Nought
  BY <1>1, AnnulsWork DEF Learning, IInv, AnnulsUnified
<1>3. s \in Seqs /\ L[Unit(s)] = Nought
  BY <1>1, <1>2 DEF Learning, Annuls
<1>4. \A p \in DOMAIN table : L[table[p].c] = Nought
  <2>. SUFFICES ASSUME NEW p \in DOMAIN table
                PROVE  L[table[p].c] = Nought
    OBVIOUS
  <2>1. p \in DOMAIN rows /\ rows[p] \in SoundRow /\ table[p] = substitute(rows[p], s, Unit(s))
    BY <1>1 DEF Learning
  <2>. QED  BY <1>2, <1>3, <2>1, FormSubstitute
<1>5. AnnulsAll(L, Deliveries(table, q))
  <2>1. /\ P \in SUBSET Seqs /\ P \subseteq DOMAIN table /\ q \in InOrderOf(Units(table, P))
        /\ \A p \in P : table[p] \in SoundRow /\ table[p].c[p] = One
    BY <1>1 DEF Learning
  <2>2. \A p \in Units(table, P) : L[table[p].c] = Nought
    BY <1>4, <2>1 DEF Units
  <2>. QED  BY <2>1, <2>2, DeliveredAnnuls
<1>6. AnnulsAll(L, displaced(s, Unit(s)))
  <2>1. s \in DOMAIN rows => rows[s] \in SoundRow
    BY <1>1 DEF Learning
  <2>. QED  BY <1>2, <1>3, <2>1, DisplacedSays
<1>7. AnnulsAll(L, work')
  BY <1>1, <1>2, <1>5, <1>6, LearningParts
<1>8. /\ recovered' = insert(recovered, s, data)
      /\ rows' = Restrict(table, DOMAIN table \ Units(table, P))
  BY <1>1 DEF Learning
<1>9. /\ \A x \in DOMAIN recovered' : x = s \/ x \in DOMAIN recovered
      /\ \A p \in DOMAIN rows' : p \in DOMAIN table /\ rows'[p] = table[p]
  BY <1>8 DEF insert, Restrict
<1>. QED  BY <1>2, <1>3, <1>4, <1>7, <1>9 DEF AnnulsUnified

(* No step of assimilate loses or invents an equation.                     *)
LEMMA AssimilateKeepsForms ==
    ASSUME IInv, Assimilate, NEW L \in Forms
    PROVE  AnnulsUnified(L)' <=> AnnulsUnified(L)
<1>1. AnnulsUnified(L)' => AnnulsUnified(L)
  BY EliminationLosesNothing, ItemLosesNothing, StoreRowLosesNothing, PayloadLosesNothing DEF Assimilate
<1>2. AnnulsUnified(L) => AnnulsUnified(L)'
  BY EliminationInventsNothing, ItemInventsNothing, StoreRowInventsNothing, PayloadInventsNothing
  DEF Assimilate
<1>. QED  BY <1>1, <1>2

-----------------------------------------------------------------------------
(***************************************************************************)
(* What is known is no pivot, and was handed on.                           *)
(***************************************************************************)
(* No pivot is known.                                                      *)
Apart == DOMAIN rows \cap DOMAIN recovered = {}

(* What was delivered is known, and what is known reached the caller, but  *)
(* for what was found below the floor.                                     *)
HandedOn ==
    /\ delivered \subseteq DOMAIN recovered
    /\ \A s \in DOMAIN recovered : floor <= s => given[s] = 1

(* The invariant of the codec, with them.                                  *)
CodecInv == IInv /\ Apart /\ HandedOn

(* At the start there is nothing.                                          *)
LEMMA CodecInitInv == Init => CodecInv
<1> SUFFICES ASSUME Init
             PROVE  CodecInv
  OBVIOUS
<1>1. IInv
  BY InitInv
<1>2. recovered = <<>> /\ rows = <<>> /\ delivered = {}
  BY DEF Init, UnifiedInit
<1>. QED  BY <1>1, <1>2 DEF CodecInv, Apart, HandedOn

(* A payload put in, or a row.                                             *)
LEMMA AssimilateKeepsHandedOn ==
    ASSUME CodecInv, Assimilate
    PROVE  Apart' /\ HandedOn' /\ floor' = floor
<1>1. CASE KnownAlready \/ EliminateKnown \/ ReduceByPivot \/ Dependent \/ Solved
  <2>1. UNCHANGED <<rows, recovered, delivered, given, floor>>
    BY <1>1 DEF KnownAlready, EliminateKnown, ReduceByPivot, Dependent, Solved
  <2>. QED  BY <2>1 DEF CodecInv, Apart, HandedOn
<1>2. CASE AssimilateKnown
  <2>1. PICK s, data, table, P, q : Learning(s, data, table, P, q)
    BY <1>2, PayloadLearnt DEF CodecInv
  <2>2. /\ s \in Seqs /\ s = Head(work).seq /\ DOMAIN table = DOMAIN rows \ {s}
        /\ recovered' = insert(recovered, s, data)
        /\ rows' = Restrict(table, DOMAIN table \ Units(table, P))
    BY <2>1, SMTT(30) DEF Learning
  <2>3. /\ s \notin DOMAIN recovered /\ delivered' = delivered \cup {s}
        /\ given' = IF s \in delivered \/ s < floor
                    THEN given ELSE [given EXCEPT ![s] = @ + 1]
        /\ floor' = floor
    BY <1>2, <2>2 DEF AssimilateKnown
  <2>4. DOMAIN rows' \subseteq DOMAIN rows \ {s} /\ DOMAIN recovered' = DOMAIN recovered \cup {s}
    BY <2>2 DEF Restrict, insert
  <2>5. delivered' \subseteq DOMAIN recovered'
    BY <2>3, <2>4 DEF CodecInv, HandedOn
  <2>6. /\ given \in [Seqs -> 0 .. 1] /\ floor \in Int /\ s \in Int
        /\ \A x \in Seqs : given[x] = 1 /\ floor <= x => x \in delivered
        /\ DOMAIN recovered \subseteq Seqs
    BY <2>2, SizeAssumption DEF CodecInv, IInv, Once, BoundsSound, KnownSound, Seqs
  <2>7. s \notin delivered
    BY <2>3 DEF CodecInv, HandedOn
  <2>8. ASSUME NEW x \in DOMAIN recovered', floor <= x
        PROVE  given'[x] = 1
    <3>1. CASE x = s
      <4>1. ~(s < floor) /\ given[s] # 1
        BY <2>2, <2>6, <2>7, <2>8, <3>1
      <4>2. given' = [given EXCEPT ![s] = @ + 1] /\ given[s] = 0
        BY <2>2, <2>3, <2>6, <2>7, <4>1
      <4>. QED  BY <2>2, <2>6, <3>1, <4>2
    <3>2. CASE x # s
      <4>1. x \in DOMAIN recovered /\ given[x] = 1 /\ x \in Seqs
        BY <2>4, <2>6, <2>8, <3>2 DEF CodecInv, HandedOn
      <4>. QED  BY <2>3, <2>6, <3>2, <4>1
    <3>. QED  BY <3>1, <3>2
  <2>. QED  BY <2>3, <2>4, <2>5, <2>8 DEF CodecInv, Apart, HandedOn
<1>3. CASE StoreRow
  <2>1. PICK old, row, touched, table, q : Storing(old, row, touched, table, q)
    BY <1>3, RowStored DEF CodecInv
  <2>2. /\ old = Head(work).row /\ old \in SoundRow /\ Support(old) # {} /\ row = normalized(old)
        /\ DOMAIN table = DOMAIN rows \cup {lead(row)}
        /\ rows' = Restrict(table, DOMAIN table \ Units(table, touched))
    BY <2>1 DEF Storing
  <2>3. DOMAIN rows' \subseteq DOMAIN rows \cup {lead(row)}
    BY <2>2 DEF Restrict
  <2>4. lead(row) \in Support(old)
    <3>1. lead(row) = lead(old) /\ lead(old) \in Support(old)
      BY <2>2, NormalizedSound, LeadIsLeast
    <3>. QED  BY <3>1
  <2>5. Support(old) \cap DOMAIN recovered = {}
    BY <1>3, <2>2, HeadRow, ZenonT(40) DEF StoreRow, Reduced, CodecInv
  <2>6. UNCHANGED <<recovered, delivered, given, floor>>
    BY <1>3 DEF StoreRow
  <2>. QED  BY <2>3, <2>4, <2>5, <2>6 DEF CodecInv, Apart, HandedOn
<1>. QED  BY <1>1, <1>2, <1>3 DEF Assimilate

(* Raising the floor.                                                      *)
LEMMA AdvanceForgets ==
    ASSUME NEW oldest_seq, Advance(oldest_seq)
    PROVE  /\ floor' = IF oldest_seq > floor THEN oldest_seq ELSE floor
           /\ DOMAIN recovered' = DOMAIN recovered \cap kept(floor')
           /\ DOMAIN rows' = DOMAIN rows \cap kept(floor')
           /\ \A p \in DOMAIN rows' : rows'[p] = rows[p]
           /\ delivered' = delivered \cap kept(floor')
           /\ work = <<>> /\ work' = <<>> /\ given' = given
BY DEF Advance, Restrict, Idle

(* Every step of the codec keeps it.                                       *)
LEMMA CodecStep == CodecInv /\ [Next]_vars => CodecInv'
<1> SUFFICES ASSUME CodecInv, [Next]_vars
             PROVE  CodecInv'
  OBVIOUS
<1>1. IInv'
  BY NextKeepsInv DEF CodecInv
<1>2. CASE UNCHANGED <<rows, recovered, delivered, given, floor>>
  BY <1>1, <1>2 DEF CodecInv, Apart, HandedOn
<1>3. CASE DecoderStep
  <2>1. Apart' /\ HandedOn'
    BY <1>3, AssimilateKeepsHandedOn DEF DecoderStep
  <2>. QED  BY <1>1, <2>1 DEF CodecInv
<1>4. CASE RaiseFloor
  <2>1. PICK f \in 0 .. next_seq : Advance(f)
    BY <1>4 DEF RaiseFloor
  <2>2. floor \in Int /\ f \in Int /\ next_seq \in Int
    BY SizeAssumption DEF CodecInv, IInv, BoundsSound, EncoderTypeOK
  <2>3. /\ floor' = IF f > floor THEN f ELSE floor
        /\ DOMAIN recovered' = DOMAIN recovered \cap kept(floor')
        /\ DOMAIN rows' = DOMAIN rows \cap kept(floor')
        /\ delivered' = delivered \cap kept(floor') /\ given' = given
    BY <2>1, AdvanceForgets
  <2>4. floor <= floor' /\ floor' \in Int
    BY <2>2, <2>3
  <2>5. \A s \in DOMAIN recovered' : floor' <= s => given'[s] = 1
    <3>1. DOMAIN recovered \subseteq Seqs /\ \A s \in Seqs : s \in Int
      BY DEF CodecInv, IInv, KnownSound, Seqs
    <3>. QED  BY <2>2, <2>3, <2>4, <3>1 DEF CodecInv, HandedOn
  <2>. QED  BY <1>1, <2>3, <2>5 DEF CodecInv, Apart, HandedOn
<1>5. CASE EncoderStep \/ UNCHANGED vars
  BY <1>2, <1>5 DEF EncoderStep, vars, unifiedVars
<1>6. ASSUME NEW symbol \in wire, Receive(symbol)
      PROVE  CodecInv'
  BY <1>2, <1>6 DEF Receive, FeedSource, FeedRepair
<1>. QED  BY <1>3, <1>4, <1>5, <1>6 DEF Next

(* The invariant of the codec holds always: its equations are true, the    *)
(* rows are in echelon form, no pivot is known, and what is known above    *)
(* the floor was handed on.                                                *)
THEOREM CodecInvariance == Spec => []CodecInv
BY CodecInitInv, CodecStep, PTL DEF Spec

(* A source that the rows do not determine can be told from all they say.  *)
LEMMA Undetermined ==
    ASSUME IInv, Apart, work = <<>>, NEW s \in Seqs \ DOMAIN recovered
    PROVE  \E L \in Forms : AnnulsUnified(L) /\ L[Unit(s)] # Nought
<1>1. \A p \in DOMAIN rows :
         /\ p \in Seqs /\ rows[p] \in SoundRow /\ rows[p].c \in Vec /\ rows[p].c[p] = One
         /\ Support(rows[p]) # {p}
         /\ Support(rows[p]) \cap (DOMAIN recovered \cup DOMAIN rows) = {p}
         /\ \A x \in Seqs : rows[p].c[x] \in Field
  BY SoundRowIsVector DEF IInv, RowsSound, ReducedEchelon
<1>2. \E q \in Seqs \ (DOMAIN recovered \cup DOMAIN rows) :
         q = s \/ (s \in DOMAIN rows /\ rows[s].c[q] # Nought)
  <2>1. CASE s \in DOMAIN rows
    <3>1. PICK q \in Support(rows[s]) : q # s
      BY <1>1, <2>1
    <3>. QED  BY <1>1, <2>1, <3>1 DEF Support
  <2>2. CASE s \notin DOMAIN rows
    BY <2>2
  <2>. QED  BY <2>1, <2>2
<1>3. PICK q \in Seqs \ (DOMAIN recovered \cup DOMAIN rows) :
         q = s \/ (s \in DOMAIN rows /\ rows[s].c[q] # Nought)
  BY <1>2
<1> DEFINE z == [x \in Seqs |-> IF x = q THEN One
                                ELSE IF x \in DOMAIN rows THEN rows[x].c[q] ELSE Nought]
<1>4. /\ z \in Vec /\ z[q] = One /\ z[s] # Nought
      /\ \A x \in DOMAIN recovered : x \in Seqs /\ z[x] = Nought
      /\ \A p \in DOMAIN rows : z[p] = rows[p].c[q]
      /\ \A x \in Seqs : x # q /\ x \notin DOMAIN rows => z[x] = Nought
  <2>1. z \in Vec
    BY <1>1, FieldAssumption DEF Vec
  <2>2. z[s] # Nought
    BY <1>3, FieldAssumption
  <2>3. \A x \in DOMAIN recovered : x \in Seqs /\ x # q /\ x \notin DOMAIN rows
    BY DEF Apart, IInv, KnownSound
  <2>. QED  BY <1>1, <1>3, <2>1, <2>2, <2>3
<1>. HIDE DEF z
<1>5. PICK L \in Forms : /\ \A x \in Seqs : L[Unit(x)] = z[x]
                         /\ \A v \in Vec : (\A x \in Seqs : v[x] = Nought \/ z[x] = Nought)
                                              => L[v] = Nought
  BY <1>4, FormExists
<1>6. ASSUME NEW p \in DOMAIN rows
      PROVE  L[rows[p].c] = Nought
  <2> DEFINE v == rows[p].c
  <2>1. v \in Vec /\ p \in Seqs /\ p # q /\ v[p] = One /\ L[Unit(p)] = v[q] /\ L[Unit(q)] = One
    BY <1>1, <1>3, <1>4, <1>5
  <2>2. \A x \in DOMAIN rows \ {p} : x \in Seqs /\ v[x] = Nought
    BY <1>1 DEF Support
  <2>. HIDE DEF v
  <2>3. ASSUME NEW w \in Vec, w[p] = Nought, w[q] = Nought, \A x \in Seqs \ {p, q} : w[x] = v[x]
        PROVE  L[w] = Nought
    <3>1. \A x \in Seqs : w[x] = Nought \/ z[x] = Nought
      BY <1>4, <2>2, <2>3
    <3>. QED  BY <1>5, <3>1
  <2>4. L[v] = Nought
    BY <2>1, <2>3, FormVanishes
  <2>. QED  BY <2>4 DEF v
<1>7. AnnulsUnified(L)
  <2>1. AnnulsAll(L, work)
    BY DEF AnnulsAll
  <2>. QED  BY <1>4, <1>5, <1>6, <2>1 DEF AnnulsUnified
<1>. QED  BY <1>4, <1>5, <1>7

-----------------------------------------------------------------------------
(***************************************************************************)
(* The refinement: what the decoder stands for.                            *)
(***************************************************************************)
(* The equations of the decoder.                                           *)
Payloads == {Unit(s) : s \in DOMAIN recovered}

Stored == {rows[p].c : p \in DOMAIN rows}

Listed == {IF work[i].kind = "known" THEN Unit(work[i].seq) ELSE work[i].row.c : i \in DOMAIN work}

Equations == Payloads \cup Stored \cup Listed

(* They are finitely many vectors, and a form vanishes on them when it     *)
(* vanishes on what the decoder has.                                       *)
LEMMA EquationsAreVectors ==
    ASSUME IInv
    PROVE  /\ Equations \in SUBSET Vec /\ IsFiniteSet(Equations)
           /\ \A L : Vanishes(L, Equations) <=> AnnulsUnified(L)
<1>1. /\ DOMAIN recovered \in SUBSET Seqs /\ DOMAIN rows \in SUBSET Seqs
      /\ \A p \in DOMAIN rows : rows[p] \in SoundRow
      /\ IsFiniteSet(DOMAIN recovered) /\ IsFiniteSet(DOMAIN rows)
  <2>1. IsFiniteSet(Seqs)
    BY SizeAssumption, FS_Interval DEF Seqs
  <2>2. /\ DOMAIN recovered \in SUBSET Seqs /\ DOMAIN rows \in SUBSET Seqs
        /\ \A p \in DOMAIN rows : rows[p] \in SoundRow
    BY DEF IInv, KnownSound, RowsSound
  <2>. QED  BY <2>1, <2>2, FS_Subset
<1>2. work \in Seq(Plain \cup Fresh)
  BY WorkItems DEF IInv
<1>3. DOMAIN work = 1 .. Len(work) /\ Len(work) \in Nat
  BY <1>2, LenProperties
<1>4. IsFiniteSet(DOMAIN work)
  <2>1. 1 \in Int /\ Len(work) \in Int
    BY <1>3
  <2>. QED  BY <1>3, <2>1, FS_Interval
<1>5. ASSUME NEW i \in DOMAIN work
      PROVE  (IF work[i].kind = "known" THEN Unit(work[i].seq) ELSE work[i].row.c) \in Vec
  <2>1. work[i] \in Plain \cup Fresh
    BY <1>2, <1>5, ElementOfSeq, LenProperties
  <2>2. /\ work[i].kind = "known" => work[i].seq \in Seqs
        /\ work[i].kind # "known" => work[i].row \in SoundRow
    BY <2>1, ItemFacts
  <2>. QED  BY <2>2, UnitVector, SoundRowIsVector
<1>6. Equations \in SUBSET Vec
  <2>1. Payloads \subseteq Vec
    BY <1>1, UnitVector DEF Payloads
  <2>2. Stored \subseteq Vec
    BY <1>1, SoundRowIsVector DEF Stored
  <2>3. Listed \subseteq Vec
    BY <1>5 DEF Listed
  <2>. QED  BY <2>1, <2>2, <2>3 DEF Equations
<1>7. IsFiniteSet(Equations)
  <2>1. IsFiniteSet(Payloads)
    <3>1. [s \in DOMAIN recovered |-> Unit(s)] \in Surjection(DOMAIN recovered, Payloads)
      BY DEF Surjection, Payloads
    <3>. QED  BY <1>1, <3>1, FS_Surjection
  <2>2. IsFiniteSet(Stored)
    <3>1. [p \in DOMAIN rows |-> rows[p].c] \in Surjection(DOMAIN rows, Stored)
      BY DEF Surjection, Stored
    <3>. QED  BY <1>1, <3>1, FS_Surjection
  <2>3. IsFiniteSet(Listed)
    <3>1. [i \in DOMAIN work |-> IF work[i].kind = "known" THEN Unit(work[i].seq) ELSE work[i].row.c]
             \in Surjection(DOMAIN work, Listed)
      BY DEF Surjection, Listed
    <3>. QED  BY <1>4, <3>1, FS_Surjection
  <2>4. IsFiniteSet(Payloads \cup Stored)
    BY <2>1, <2>2, FS_Union
  <2>. QED  BY <2>3, <2>4, FS_Union DEF Equations
<1>8. ASSUME NEW L
      PROVE  Vanishes(L, Equations) <=> AnnulsUnified(L)
  <2>1. Vanishes(L, Payloads) <=> \A s \in DOMAIN recovered : L[Unit(s)] = Nought
    BY DEF Vanishes, Payloads
  <2>2. Vanishes(L, Stored) <=> \A p \in DOMAIN rows : L[rows[p].c] = Nought
    BY DEF Vanishes, Stored
  <2>3. Vanishes(L, Listed) <=> AnnulsAll(L, work)
    <3>1. Vanishes(L, Listed) <=> \A i \in DOMAIN work : Annuls(L, work[i])
      <4>1. \A i \in DOMAIN work :
               Annuls(L, work[i]) <=>
               L[IF work[i].kind = "known" THEN Unit(work[i].seq) ELSE work[i].row.c] = Nought
        BY DEF Annuls
      <4>. QED  BY <4>1 DEF Vanishes, Listed
    <3>. QED  BY <1>3, <3>1 DEF AnnulsAll
  <2>4. Vanishes(L, Equations) <=> Vanishes(L, Payloads) /\ Vanishes(L, Stored) /\ Vanishes(L, Listed)
    BY DEF Vanishes, Equations
  <2>. QED  BY <2>1, <2>2, <2>3, <2>4 DEF AnnulsUnified
<1>. QED  BY <1>6, <1>7, <1>8

(* What the decoder stands for is what follows from them.                  *)
LEMMA SpaceIsEntailed ==
    ASSUME IInv
    PROVE  /\ Equations \in SUBSET Vec /\ Space = Entailed(Equations)
           /\ \A L : Vanishes(L, Equations) <=> AnnulsUnified(L)
<1>1. Space = Span(Equations)
  BY DEF Space, Equations, Payloads, Stored, Listed
<1>. QED  BY <1>1, EquationsAreVectors, SpanIsEntailed

(* The same, as one statement about a state.                              *)
SpaceSound == Space = {w \in Vec : \A L \in Forms : AnnulsUnified(L) => L[w] = Nought}

(* It holds wherever the invariant does,                                   *)
LEMMA SpaceIsSound == IInv => SpaceSound
BY SpaceIsEntailed DEF SpaceSound, Entailed

(* before a step and after it.                                             *)
LEMMA SpaceIsSoundNext == IInv' => SpaceSound'
BY SpaceIsSound, PTL

(* Where the same forms vanish, the space is the same.                     *)
LEMMA SameSpace ==
    ASSUME IInv, IInv', \A L \in Forms : AnnulsUnified(L)' <=> AnnulsUnified(L)
    PROVE  Space' = Space
<1>1. Space = {w \in Vec : \A L \in Forms : AnnulsUnified(L) => L[w] = Nought}
  BY SpaceIsSound DEF SpaceSound
<1>2. Space' = {w \in Vec : \A L \in Forms : AnnulsUnified(L)' => L[w] = Nought}
  BY SpaceIsSoundNext DEF SpaceSound
<1>. QED  BY <1>1, <1>2

(* And with one more equation it is extended by it.                        *)
LEMMA ExtendedSpace ==
    ASSUME IInv, IInv', NEW v \in Vec,
           \A L \in Forms : AnnulsUnified(L)' <=> AnnulsUnified(L) /\ L[v] = Nought
    PROVE  Space' = Combined(Space, v) /\ v \in Space' /\ (v \in Space => Space' = Space)
<1>1. /\ Equations \in SUBSET Vec /\ Space = Entailed(Equations)
      /\ \A L : Vanishes(L, Equations) <=> AnnulsUnified(L)
  BY SpaceIsEntailed
<1>2. Space' = {w \in Vec : \A L \in Forms : AnnulsUnified(L)' => L[w] = Nought}
  BY SpaceIsSoundNext DEF SpaceSound
<1>3. Space' = Entailed(Equations \cup {v})
  <2>1. \A L \in Forms : Vanishes(L, Equations \cup {v}) <=> AnnulsUnified(L)'
    BY <1>1 DEF Vanishes
  <2>. QED  BY <1>2, <2>1 DEF Entailed
<1>4. Space' = Combined(Space, v)
  BY <1>1, <1>3, OneMore
<1>5. v \in Space'
  BY <1>2
<1>6. ASSUME v \in Space
      PROVE  Space' = Space
  <2>1. Space = {w \in Vec : \A L \in Forms : AnnulsUnified(L) => L[w] = Nought}
    BY SpaceIsSound DEF SpaceSound
  <2>2. \A L \in Forms : AnnulsUnified(L)' <=> AnnulsUnified(L)
    BY <1>6, <2>1
  <2>. QED  BY <1>2, <2>1, <2>2
<1>. QED  BY <1>4, <1>5, <1>6

(* The abstract code computes with the same vectors.                       *)
LEMMA SameVectors ==
    /\ Code!Seqs = Seqs /\ Code!Vec = Vec /\ Code!Zero = Zero
    /\ \A s : Code!Unit(s) = Unit(s)
    /\ \A known, v : Code!Extended(known, v) = Combined(known, v)
<1>1. Code!Seqs = Seqs
  BY DEF Code!Seqs, Seqs
<1>2. Code!Zero = Zero
  BY <1>1 DEF Code!Zero, Zero
<1>3. \A known, v : Code!Extended(known, v) = Combined(known, v)
  BY <1>1 DEF Code!Extended, Combined, Code!mul_acc, mul_acc
<1>. QED  BY <1>1, <1>2, <1>3 DEF Code!Vec, Vec, Code!Unit, Unit

(* Sources have different payloads.                                        *)
LEMMA UnitsDiffer ==
    ASSUME NEW s \in Seqs, NEW t \in Seqs, Unit(s) = Unit(t)
    PROVE  s = t
BY UnitVector, FieldAssumption

(* A call ends when everything the equations determine was handed on.      *)
LEMMA IdleIsComplete ==
    ASSUME CodecInv, Idle
    PROVE  Code!Complete
<1>. SUFFICES ASSUME NEW s \in Seqs, Unit(s) \in Code!Determined
              PROVE  given[s] > 0
  BY SameVectors DEF Code!Complete
<1>1. Unit(s) \in Space /\ \E t \in floor .. N - 1 : Unit(s) = Unit(t)
  BY SameVectors DEF Code!Determined
<1>2. floor <= s
  <2>1. PICK t \in floor .. N - 1 : Unit(s) = Unit(t)
    BY <1>1
  <2>2. t \in Seqs /\ floor <= t
    BY <2>1, SizeAssumption DEF CodecInv, IInv, BoundsSound, Seqs
  <2>. QED  BY <2>1, <2>2, UnitsDiffer
<1>3. s \in DOMAIN recovered
  <2>1. CodecInv /\ work = <<>>
    BY DEF Idle
  <2>2. \A L \in Forms : AnnulsUnified(L) => L[Unit(s)] = Nought
    BY <1>1, SpaceIsSound DEF CodecInv, SpaceSound
  <2>. QED  BY <2>1, <2>2, Undetermined DEF CodecInv
<1>. QED  BY <1>2, <1>3 DEF CodecInv, HandedOn

(* They start alike.                                                       *)
LEMMA CodeInit == Init => Code!Init
<1> SUFFICES ASSUME Init
             PROVE  Code!Init
  OBVIOUS
<1>1. recovered = <<>> /\ rows = <<>> /\ work = <<>> /\ floor = 0 /\ given = [s \in Seqs |-> 0]
  BY DEF Init, UnifiedInit
<1>2. IInv
  BY InitInv
<1>3. \A L : AnnulsUnified(L)
  BY <1>1 DEF AnnulsUnified, AnnulsAll
<1>4. Space = Entailed({})
  BY <1>2, <1>3, SpaceIsSound DEF SpaceSound, Entailed, Vanishes
<1>. QED  BY <1>1, <1>4, NothingEntailed, SameVectors DEF Code!Init

(* A symbol that says something new is learnt.                             *)
LEMMA EquationLearnt ==
    ASSUME CodecInv, IInv', Idle, UNCHANGED <<given, floor>>, NEW v \in Vec,
           \A L \in Forms : AnnulsUnified(L)' <=> AnnulsUnified(L) /\ L[v] = Nought
    PROVE  [Code!Learn]_Code!vars
<1>1. IInv
  BY DEF CodecInv
<1>2. Space' = Combined(Space, v) /\ v \in Space' /\ (v \in Space => Space' = Space)
  BY <1>1, ExtendedSpace
<1>3. CASE v \in Space
  BY <1>2, <1>3 DEF Code!vars
<1>4. CASE v \notin Space
  <2>1. Code!Complete
    BY IdleIsComplete
  <2>2. v \in Space' \ Space /\ v \in Code!Vec /\ Space' = Code!Extended(Space, v)
    BY <1>2, <1>4, SameVectors
  <2>. QED  BY <2>1, <2>2 DEF Code!Learn
<1>. QED  BY <1>3, <1>4

(* A coded symbol in flight is an equation that holds.                     *)
LEMMA WireEquation ==
    ASSUME IInv, NEW symbol \in wire, symbol.is_repair
    PROVE  WireRow(symbol) \in SoundRow
<1>1. symbol.data \in Vec /\ WireRow(symbol) = [c |-> symbol.data, d |-> symbol.data]
  BY DEF WireRow, IInv, WireSound, BoundsSound, EncoderTypeOK, Symbol
<1>. QED  BY <1>1, VectorIsSoundRow

(* A call with a symbol.                                                   *)
LEMMA ReceiveLearns ==
    ASSUME CodecInv, IInv', NEW symbol \in wire, Receive(symbol)
    PROVE  [Code!Learn]_Code!vars
<1>1. /\ UNCHANGED <<recovered, rows, floor, given>> /\ work = <<>> /\ Idle
  BY DEF Receive, FeedSource, FeedRepair, Idle
<1>2. ASSUME work' = <<>>
      PROVE  [Code!Learn]_Code!vars
  <2>1. \A L : AnnulsUnified(L)' <=> AnnulsUnified(L)
    BY <1>1, <1>2 DEF AnnulsUnified, AnnulsAll
  <2>2. Space' = Space
    BY <2>1, SameSpace DEF CodecInv
  <2>. QED  BY <1>1, <2>2 DEF Code!vars
<1>3. ASSUME NEW item, work' = <<item>>, NEW v \in Vec, \A L : Annuls(L, item) <=> L[v] = Nought
      PROVE  [Code!Learn]_Code!vars
  <2>1. \A L : AnnulsAll(L, work') <=> Annuls(L, item)
    BY <1>3 DEF AnnulsAll
  <2>2. \A L : AnnulsAll(L, work)
    BY <1>1 DEF AnnulsAll
  <2>3. \A L \in Forms : AnnulsUnified(L)' <=> AnnulsUnified(L) /\ L[v] = Nought
    BY <1>1, <1>3, <2>1, <2>2 DEF AnnulsUnified
  <2>. QED  BY <1>1, <2>3, EquationLearnt
<1>4. CASE FeedSource(symbol)
  <2>1. symbol.start \in Seqs /\ Unit(symbol.start) \in Vec
    BY UnitVector DEF CodecInv, IInv, BoundsSound, EncoderTypeOK, Symbol
  <2>2. work' = <<>> \/ work' = <<Known(symbol.start, symbol.data)>>
    BY <1>1, <1>4 DEF FeedSource
  <2>3. \A L : Annuls(L, Known(symbol.start, symbol.data)) <=> L[Unit(symbol.start)] = Nought
    BY DEF Annuls, Known
  <2>. QED  BY <1>2, <1>3, <2>1, <2>2, <2>3
<1>5. CASE FeedRepair(symbol)
  <2>1. symbol.is_repair /\ (work' = <<>> \/ work' = <<Eq(WireRow(symbol))>>)
    BY <1>1, <1>5 DEF FeedRepair
  <2>2. WireRow(symbol).c \in Vec
    BY <2>1, WireEquation, SoundRowIsVector DEF CodecInv
  <2>3. \A L : Annuls(L, Eq(WireRow(symbol))) <=> L[WireRow(symbol).c] = Nought
    BY DEF Annuls, Eq
  <2>. QED  BY <1>2, <1>3, <2>1, <2>2, <2>3
<1>. QED  BY <1>4, <1>5 DEF Receive

(* A step of the worklist hands a source on, or changes nothing.           *)
LEMMA AssimilateGives ==
    ASSUME CodecInv, IInv', Assimilate
    PROVE  [\E s \in Seqs : Code!Give(s)]_Code!vars
<1>1. Space' = Space
  <2>1. \A L \in Forms : AnnulsUnified(L)' <=> AnnulsUnified(L)
    BY AssimilateKeepsForms DEF CodecInv
  <2>. QED  BY <2>1, SameSpace DEF CodecInv
<1>2. floor' = floor
  BY AssimilateKeepsHandedOn
<1>3. CASE given' = given
  BY <1>1, <1>2, <1>3 DEF Code!vars
<1>4. CASE given' # given
  <2> DEFINE s == Head(work).seq
  <2>1. AssimilateKnown
    BY <1>4, ZenonT(60) DEF Assimilate, KnownAlready, EliminateKnown, ReduceByPivot, Dependent, Solved, StoreRow
  <2>2. /\ s \in Seqs /\ s \notin DOMAIN recovered /\ Head(work).kind = "known" /\ ~Idle
        /\ given' = IF s \in delivered \/ s < floor
                    THEN given ELSE [given EXCEPT ![s] = @ + 1]
    <3>1. PICK x, data, table, P, q : Learning(x, data, table, P, q)
      BY <2>1, PayloadLearnt DEF CodecInv
    <3>. QED  BY <2>1, <3>1 DEF Learning, AssimilateKnown
  <2>. HIDE DEF s
  <2>3. s \notin delivered /\ ~(s < floor) /\ given' = [given EXCEPT ![s] = @ + 1]
    BY <1>4, <2>2
  <2>4. /\ given \in [Seqs -> 0 .. 1] /\ floor \in Int /\ s \in Int
        /\ \A x \in Seqs : given[x] = 1 /\ floor <= x => x \in delivered
    BY <2>2, SizeAssumption DEF CodecInv, IInv, Once, BoundsSound, Seqs
  <2>5. given[s] = 0
    BY <2>2, <2>3, <2>4
  <2>6. given' = [given EXCEPT ![s] = 1]
    BY <2>3, <2>5
  <2>7. Unit(s) \in Space
    <3>1. \A L \in Forms : AnnulsUnified(L) => L[Unit(s)] = Nought
      <4>. SUFFICES ASSUME NEW L \in Forms, AnnulsUnified(L)
                    PROVE  L[Unit(s)] = Nought
        OBVIOUS
      <4>1. Annuls(L, Head(work))
        BY <2>2, AnnulsWork DEF CodecInv, IInv, AnnulsUnified
      <4>. QED  BY <2>2, <4>1 DEF Annuls, s
    <3>2. Unit(s) \in Vec
      BY <2>2, UnitVector
    <3>. QED  BY <3>1, <3>2, SpaceIsSound DEF CodecInv, SpaceSound
  <2>8. Unit(s) \in Code!Determined
    <3>1. s \in floor .. N - 1
      BY <2>2, <2>3, <2>4 DEF Seqs
    <3>. QED  BY <2>7, <3>1, SameVectors DEF Code!Determined
  <2>9. Code!Give(s)
    BY <1>1, <1>2, <2>5, <2>6, <2>8, SameVectors DEF Code!Give
  <2>. QED  BY <2>2, <2>9, SMTT(30)
<1>. QED  BY <1>3, <1>4

(* A form vanishes on what the decoder keeps from the column k on.         *)
AnnulsFrom(L, k) ==
    /\ \A s \in DOMAIN recovered : k <= s => L[Unit(s)] = Nought
    /\ \A p \in DOMAIN rows : k <= p => L[rows[p].c] = Nought

(* A form that vanishes from k + 1 on is made to vanish from k on without  *)
(* a change where column k is nought.                                      *)
LEMMA ColumnCleared ==
    ASSUME CodecInv, NEW k \in Seqs, NEW L \in Forms, AnnulsFrom(L, k + 1)
    PROVE  \E K \in Forms : /\ AnnulsFrom(K, k)
                            /\ \A v \in Vec : v[k] = Nought => K[v] = L[v]
<1>1. /\ \A s \in DOMAIN recovered : s \in Seqs /\ Unit(s) \in Vec
      /\ \A p \in DOMAIN rows : /\ p \in Seqs /\ rows[p].c \in Vec /\ rows[p].c[p] = One
                                /\ \A s \in Seqs : s < p => rows[p].c[s] = Nought
      /\ \A s \in Seqs : s \in Int
  <2>1. \A s \in DOMAIN recovered : s \in Seqs /\ Unit(s) \in Vec
    BY UnitVector DEF CodecInv, IInv, KnownSound
  <2>2. \A s \in Seqs : s \in Int
    BY DEF Seqs
  <2>3. \A p \in DOMAIN rows : p \in Seqs /\ rows[p].c \in Vec /\ rows[p].c[p] = One
    BY SoundRowIsVector DEF CodecInv, IInv, RowsSound, ReducedEchelon
  <2>4. ASSUME NEW p \in DOMAIN rows, NEW s \in Seqs, s < p
        PROVE  rows[p].c[s] = Nought
    <3>1. \A q \in Support(rows[p]) : p <= q
      BY DEF CodecInv, IInv, ReducedEchelon
    <3>2. ~(p <= s)
      BY <2>2, <2>3, <2>4
    <3>. QED  BY <3>1, <3>2 DEF Support
  <2>. QED  BY <2>1, <2>2, <2>3, <2>4
<1>2. CASE k \notin DOMAIN recovered /\ k \notin DOMAIN rows
  <2>1. \A s \in DOMAIN recovered \cup DOMAIN rows : k <= s => k + 1 <= s
    BY <1>1, <1>2
  <2>2. AnnulsFrom(L, k)
    BY <2>1 DEF AnnulsFrom
  <2>. QED  BY <2>2
<1>3. CASE k \in DOMAIN recovered \/ k \in DOMAIN rows
  <2> DEFINE r == IF k \in DOMAIN recovered THEN Unit(k) ELSE rows[k].c
  <2>1. r \in Vec /\ r[k] = One /\ L[r] \in Field
    <3>1. r \in Vec /\ r[k] = One
      BY <1>1, <1>3, UnitVector
    <3>. QED  BY <3>1, Zenon DEF Forms
  <2>2. /\ k \in DOMAIN recovered => r = Unit(k) /\ k \notin DOMAIN rows
        /\ k \in DOMAIN rows => r = rows[k].c /\ k \notin DOMAIN recovered
    BY DEF CodecInv, Apart
  <2>. HIDE DEF r
  <2>3. PICK M \in Forms : \A v \in Vec : M[v] = v[k]
    BY ColumnForm
  <2>4. PICK K \in Forms : \A v \in Vec : K[v] = Add(L[v], Mul(M[v], L[r]))
    BY <2>1, <2>3, SumOfForms
  <2>5. ASSUME NEW v \in Vec, v[k] = Nought
        PROVE  K[v] = L[v]
    <3>1. Mul(Nought, L[r]) = Nought /\ L[v] \in Field
      BY <2>1, <2>5, Products, FormOfSum
    <3>. QED  BY <2>3, <2>4, <2>5, <3>1, FieldAssumption, SMTT(30)
  <2>6. K[r] = Nought
    <3>1. Mul(One, L[r]) = L[r] /\ Add(L[r], L[r]) = Nought
      BY <2>1, FieldAssumption
    <3>. QED  BY <2>1, <2>3, <2>4, <3>1
  <2>7. ASSUME NEW s \in DOMAIN recovered, k <= s
        PROVE  K[Unit(s)] = Nought
    <3>1. CASE s = k
      BY <2>2, <2>6, <3>1
    <3>2. CASE s # k
      <4>1. Unit(s)[k] = Nought /\ k + 1 <= s
        BY <1>1, <2>7, <3>2, UnitVector
      <4>. QED  BY <1>1, <2>5, <4>1 DEF AnnulsFrom
    <3>. QED  BY <3>1, <3>2
  <2>8. ASSUME NEW p \in DOMAIN rows, k <= p
        PROVE  K[rows[p].c] = Nought
    <3>1. CASE p = k
      BY <2>2, <2>6, <3>1
    <3>2. CASE p # k
      <4>1. rows[p].c[k] = Nought /\ k + 1 <= p
        BY <1>1, <2>8, <3>2
      <4>. QED  BY <1>1, <2>5, <4>1 DEF AnnulsFrom
    <3>. QED  BY <3>1, <3>2
  <2>9. AnnulsFrom(K, k)
    BY <2>7, <2>8 DEF AnnulsFrom
  <2>. QED  BY <2>5, <2>9
<1>. QED  BY <1>2, <1>3

(* An equation that says nothing of the sources below g follows from what  *)
(* is kept from g on.                                                      *)
LEMMA FollowsFromKept ==
    ASSUME CodecInv, work = <<>>, NEW g \in 0 .. N, NEW v \in Space,
           \A s \in Seqs : s < g => v[s] = Nought,
           NEW L \in Forms, AnnulsFrom(L, g)
    PROVE  L[v] = Nought
<1> DEFINE S == {k \in 0 .. g : \A K \in Forms : AnnulsFrom(K, k) => K[v] = Nought}
<1>1. g \in Nat /\ N \in Nat /\ \A s \in Seqs : 0 <= s
  BY SizeAssumption DEF Seqs
<1>2. v \in Vec /\ \A K \in Forms : AnnulsUnified(K) => K[v] = Nought
  BY SpaceIsSound DEF CodecInv, SpaceSound
<1>3. 0 \in S
  <2>1. \A K : AnnulsFrom(K, 0) => AnnulsUnified(K)
    BY <1>1 DEF AnnulsFrom, AnnulsUnified, AnnulsAll, CodecInv, IInv, KnownSound, RowsSound
  <2>. QED  BY <1>1, <1>2, <2>1
<1>4. ASSUME NEW k \in 0 .. g - 1, k \in S
      PROVE  k + 1 \in S
  <2>1. k \in Seqs /\ k < g /\ k + 1 \in 0 .. g
    BY <1>1 DEF Seqs
  <2>2. ASSUME NEW M \in Forms, AnnulsFrom(M, k + 1)
        PROVE  M[v] = Nought
    <3>1. PICK K \in Forms : AnnulsFrom(K, k) /\ \A w \in Vec : w[k] = Nought => K[w] = M[w]
      BY <2>1, <2>2, ColumnCleared
    <3>2. K[v] = Nought /\ v[k] = Nought
      BY <1>4, <2>1, <3>1
    <3>. QED  BY <1>2, <3>1, <3>2
  <2>. QED  BY <2>1, <2>2
<1>. HIDE DEF S
<1>5. g \in S
  <2>1. 0 .. g \subseteq S /\ g \in 0 .. g
    BY <1>1, <1>3, <1>4, IntervalInduction
  <2>. QED  BY <2>1
<1>. QED  BY <1>5 DEF S

(* Raising the floor forgets what says something of a source below it.     *)
LEMMA RaiseFloorForgets ==
    ASSUME CodecInv, IInv', NEW oldest_seq \in 0 .. next_seq, Advance(oldest_seq)
    PROVE  \E f \in 0 .. N : Code!Forget(f)
<1> DEFINE f == floor'
<1>1. /\ f = IF oldest_seq > floor THEN oldest_seq ELSE floor
      /\ DOMAIN recovered' = DOMAIN recovered \cap kept(f)
      /\ DOMAIN rows' = DOMAIN rows \cap kept(f)
      /\ \A p \in DOMAIN rows' : rows'[p] = rows[p]
      /\ work = <<>> /\ work' = <<>> /\ given' = given /\ Idle
  BY AdvanceForgets DEF Idle
<1>2. f \in 0 .. N /\ floor <= f
  <2>1. floor \in 0 .. N /\ next_seq \in 0 .. N /\ N \in Nat
    BY SizeAssumption DEF CodecInv, IInv, BoundsSound, EncoderTypeOK
  <2>. QED  BY <1>1, <2>1
<1>. HIDE DEF f
<1>3. /\ DOMAIN recovered \subseteq Seqs /\ DOMAIN rows \subseteq Seqs /\ \A s \in Seqs : s \in Int
      /\ \A s \in Seqs : s \in kept(f) <=> f <= s
  BY <1>2 DEF CodecInv, IInv, KnownSound, RowsSound, Seqs, kept
<1>4. \A L : AnnulsUnified(L)' <=> AnnulsFrom(L, f)
  BY <1>1, <1>3 DEF AnnulsUnified, AnnulsFrom, AnnulsAll
<1>5. \A L : AnnulsUnified(L) => AnnulsFrom(L, f)
  BY DEF AnnulsUnified, AnnulsFrom
<1>6. /\ Space = {w \in Vec : \A L \in Forms : AnnulsUnified(L) => L[w] = Nought}
      /\ Space' = {w \in Vec : \A L \in Forms : AnnulsFrom(L, f) => L[w] = Nought}
  BY <1>4, SpaceIsSound, SpaceIsSoundNext DEF CodecInv, SpaceSound
<1>7. ASSUME NEW v \in Space'
      PROVE  v \in Space /\ \A s \in Seqs : s < f => v[s] = Nought
  <2>1. v \in Space
    BY <1>5, <1>6, <1>7
  <2>2. ASSUME NEW s \in Seqs, s < f
        PROVE  v[s] = Nought
    <3>1. PICK K \in Forms : \A w \in Vec : K[w] = w[s]
      BY ColumnForm
    <3>2. ASSUME NEW t \in DOMAIN recovered, f <= t
          PROVE  K[Unit(t)] = Nought
      <4>1. t \in Seqs /\ s # t
        BY <1>2, <1>3, <2>2, <3>2
      <4>. QED  BY <3>1, <4>1, UnitVector
    <3>3. ASSUME NEW p \in DOMAIN rows, f <= p
          PROVE  K[rows[p].c] = Nought
      <4>1. p \in Seqs /\ ~(p <= s) /\ rows[p].c \in Vec
        BY <1>2, <1>3, <2>2, <3>3, SoundRowIsVector DEF CodecInv, IInv, RowsSound
      <4>2. rows[p].c[s] = Nought
        BY <4>1 DEF CodecInv, IInv, ReducedEchelon, Support
      <4>. QED  BY <3>1, <4>1, <4>2
    <3>4. AnnulsFrom(K, f)
      BY <3>2, <3>3 DEF AnnulsFrom
    <3>. QED  BY <1>6, <1>7, <3>1, <3>4
  <2>. QED  BY <2>1, <2>2
<1>8. ASSUME NEW v \in Space, \A s \in Seqs : s < f => v[s] = Nought
      PROVE  v \in Space'
  <2>1. \A L \in Forms : AnnulsFrom(L, f) => L[v] = Nought
    BY <1>1, <1>2, <1>8, FollowsFromKept
  <2>. QED  BY <1>6, <1>8, <2>1
<1>9. Space' = {v \in Space : \A s \in Seqs : s < f => v[s] = Nought}
  BY <1>7, <1>8
<1>10. Code!Complete
  BY <1>1, IdleIsComplete
<1>11. Code!Forget(f)
  BY <1>1, <1>2, <1>9, <1>10, SameVectors DEF Code!Forget, f
<1>. QED  BY <1>2, <1>11

(* Every step is one of the abstract code, or none.                        *)
LEMMA CodeStep == CodecInv /\ CodecInv' /\ [Next]_vars => [Code!Next]_Code!vars
<1> SUFFICES ASSUME CodecInv, CodecInv', [Next]_vars
             PROVE  [Code!Next]_Code!vars
  OBVIOUS
<1>1. IInv /\ IInv'
  BY DEF CodecInv
<1>2. CASE EncoderStep \/ UNCHANGED vars
  <2>1. UNCHANGED unifiedVars
    BY <1>2 DEF EncoderStep, vars
  <2>2. \A L : AnnulsUnified(L)' <=> AnnulsUnified(L)
    BY <2>1 DEF AnnulsUnified, unifiedVars
  <2>3. Space' = Space
    BY <1>1, <2>2, SameSpace
  <2>. QED  BY <2>1, <2>3 DEF Code!vars, unifiedVars
<1>3. ASSUME NEW symbol \in wire, Receive(symbol)
      PROVE  [Code!Next]_Code!vars
  BY <1>1, <1>3, ReceiveLearns DEF Code!Next
<1>4. CASE RaiseFloor
  BY <1>1, <1>4, RaiseFloorForgets DEF RaiseFloor, Code!Next
<1>5. CASE DecoderStep
  <2>1. [\E s \in Seqs : Code!Give(s)]_Code!vars
    BY <1>1, <1>5, AssimilateGives DEF DecoderStep
  <2>. QED  BY <2>1, SameVectors DEF Code!Next
<1>. QED  BY <1>2, <1>3, <1>4, <1>5 DEF Next

(* The unified decoder implements the erasure code: no step of the         *)
(* elimination gains or loses an equation, each call ends only when every  *)
(* source the equations determine was handed on, once, and raising the     *)
(* floor forgets just what concerns the sources below (fec/unified.rs).    *)
THEOREM CodecImplementsCode == Spec => ImplementsCode
<1>1. Init => Code!Init
  BY CodeInit
<1>2. CodecInv /\ CodecInv' /\ [Next]_vars => [Code!Next]_Code!vars
  BY CodeStep
<1>. QED  BY <1>1, <1>2, CodecInvariance, PTL DEF Spec, ImplementsCode, Code!Spec

-----------------------------------------------------------------------------
(***************************************************************************)
(* The sliding decoder, which computes with the same operators.            *)
(***************************************************************************)
LEMMA SameRows ==
    /\ Sliding!Seqs = Seqs
    /\ \A row : Sliding!Support(row) = Support(row)
    /\ \A row, s, data : Sliding!substitute(row, s, data) = substitute(row, s, data)
    /\ \A row, f, other : Sliding!sub_scaled(row, f, other) = sub_scaled(row, f, other)
    /\ \A symbol : Sliding!WireRow(symbol) = WireRow(symbol)
    /\ \A symbol : Sliding!RepairKey(symbol) = RepairKey(symbol)
<1>1. Sliding!Seqs = Seqs
  BY DEF Sliding!Seqs, Seqs
<1>2. \A row : Sliding!Support(row) = Support(row)
  BY <1>1 DEF Sliding!Support, Support
<1>3. \A row, s, data : Sliding!substitute(row, s, data) = substitute(row, s, data)
  BY <1>1 DEF Sliding!substitute, substitute, Sliding!mul_acc, mul_acc
<1>4. \A row, f, other : Sliding!sub_scaled(row, f, other) = sub_scaled(row, f, other)
  BY <1>1 DEF Sliding!sub_scaled, sub_scaled, Sliding!mul_acc, mul_acc
<1>5. \A symbol : Sliding!WireRow(symbol) = WireRow(symbol)
  BY <1>1 DEF Sliding!WireRow, WireRow, Sliding!CoefficientsOf, CoefficientsOf
<1>6. \A symbol : Sliding!RepairKey(symbol) = RepairKey(symbol)
  BY DEF Sliding!RepairKey, RepairKey
<1>. QED  BY <1>1, <1>2, <1>3, <1>4, <1>5, <1>6

(* Normalized rows, and what a whole call computes.                        *)
LEMMA SameCalls ==
    /\ \A row : Sliding!lead(row) = lead(row)
    /\ \A row : Sliding!normalized(row) = normalized(row)
    /\ \A row, known : Sliding!eliminate_known(row, known) = eliminate_known(row, known)
    /\ \A row, table, cols : Sliding!reduce(row, table, cols) = reduce(row, table, cols)
<1>1. \A row : Sliding!lead(row) = lead(row)
  BY SameRows, Zenon DEF Sliding!lead, lead
<1>2. \A row : Sliding!normalized(row) = normalized(row)
  <2>1. \A row, f : Sliding!scale(row, f) = scale(row, f)
    BY SameRows DEF Sliding!scale, scale, Sliding!mul_acc, mul_acc, Sliding!Zero, Zero
  <2>. QED  BY <1>1, <2>1, Zenon DEF Sliding!normalized, normalized
<1>5. \A row, s, data : Sliding!substitute(row, s, data) = substitute(row, s, data)
  BY SameRows
<1>6. \A row, f, other : Sliding!sub_scaled(row, f, other) = sub_scaled(row, f, other)
  BY SameRows
<1>3. \A row, known : Sliding!eliminate_known(row, known) = eliminate_known(row, known)
  BY <1>5, Zenon
  DEF Sliding!eliminate_known, eliminate_known, Sliding!FoldLeft, FoldLeft,
      Sliding!MapThenFoldSet, MapThenFoldSet, Sliding!Ascending, Ascending, Sliding!Rank, Rank,
      Sliding!Cardinality, Cardinality, Sliding!IsFiniteSet, IsFiniteSet, Sliding!Max, Max,
      Sliding!substitute, substitute, Sliding!mul_acc, mul_acc, Sliding!Seqs, Seqs
<1>4. \A row, table, cols : Sliding!reduce(row, table, cols) = reduce(row, table, cols)
  BY <1>6, Zenon
  DEF Sliding!reduce, reduce, Sliding!FoldLeft, FoldLeft,
      Sliding!MapThenFoldSet, MapThenFoldSet, Sliding!Ascending, Ascending, Sliding!Rank, Rank,
      Sliding!Cardinality, Cardinality, Sliding!IsFiniteSet, IsFiniteSet, Sliding!Max, Max,
      Sliding!sub_scaled, sub_scaled, Sliding!mul_acc, mul_acc, Sliding!Seqs, Seqs
<1>. QED  BY <1>1, <1>2, <1>3, <1>4

(* Maps, and the order of what is solved.                                  *)
LEMMA SameMaps ==
    /\ \A S : Sliding!Cardinality(S) = Cardinality(S)
    /\ \A map, k, v : Sliding!insert(map, k, v) = insert(map, k, v)
    /\ \A f, S : Sliding!Restrict(f, S) = Restrict(f, S)
    /\ \A S : Sliding!Ascending(S) = Ascending(S)
<1>1. \A f, S : Sliding!Restrict(f, S) = Restrict(f, S)
  BY DEF Sliding!Restrict, Restrict
<1>2. \A S : Sliding!Ascending(S) = Ascending(S)
  BY Zenon
  DEF Sliding!Ascending, Ascending, Sliding!Rank, Rank, Sliding!Cardinality, Cardinality,
      Sliding!IsFiniteSet, IsFiniteSet
<1>3. \A S : Sliding!Cardinality(S) = Cardinality(S)
  BY Zenon DEF Sliding!Cardinality, Cardinality, Sliding!IsFiniteSet, IsFiniteSet
<1>4. \A map, k, v : Sliding!insert(map, k, v) = insert(map, k, v)
  BY DEF Sliding!insert, insert
<1>. QED  BY <1>1, <1>2, <1>3, <1>4

(* What it knows is true, and its rows hold.                               *)
SlidingSound ==
    /\ DOMAIN sl_recovered \subseteq Seqs
    /\ \A s \in DOMAIN sl_recovered : sl_recovered[s] = Unit(s)
    /\ DOMAIN sl_pivots \subseteq Seqs
    /\ \A p \in DOMAIN sl_pivots : sl_pivots[p] \in SoundRow /\ sl_pivots[p].c[p] = One
    /\ sl_queue \in Seq(DOMAIN sl_recovered)

AnnulsSliding(L) ==
    /\ \A s \in DOMAIN sl_recovered : L[Unit(s)] = Nought
    /\ \A p \in DOMAIN sl_pivots : L[sl_pivots[p].c] = Nought

(* Payloads are found.                                                     *)
LEMMA SlidingRecovers ==
    ASSUME SlidingSound, NEW found, DOMAIN found \subseteq Seqs,
           \A s \in DOMAIN found : found[s] = Unit(s),
           Sliding!Recover(found)
    PROVE  /\ DOMAIN sl_recovered' = DOMAIN found \cup DOMAIN sl_recovered
           /\ DOMAIN sl_recovered' \subseteq Seqs
           /\ \A s \in DOMAIN sl_recovered' : sl_recovered'[s] = Unit(s)
           /\ sl_given' \subseteq sl_given \cup DOMAIN found
<1>2. /\ DOMAIN sl_recovered' = DOMAIN found \cup DOMAIN sl_recovered
      /\ \A s \in DOMAIN sl_recovered' :
            sl_recovered'[s] = IF s \in DOMAIN found THEN found[s] ELSE sl_recovered[s]
  BY DEF Sliding!Recover
<1>3. sl_given' \subseteq sl_given \cup DOMAIN found
  BY DEF Sliding!Recover
<1>. QED  BY <1>2, <1>3 DEF SlidingSound

(* A true row put in leaves true rows.                                     *)
LEMMA SlidingSourceKeeps ==
    ASSUME IInv, SlidingSound, NEW symbol \in wire, Sliding!FeedSource(symbol)
    PROVE  /\ SlidingSound'
           /\ \A L \in Forms : AnnulsSliding(L) /\ L[Unit(symbol.start)] = Nought => AnnulsSliding(L)'
           /\ sl_given \subseteq DOMAIN sl_recovered => sl_given' \subseteq DOMAIN sl_recovered'
           /\ sl_floor' = sl_floor /\ sl_repairs_seen' = sl_repairs_seen
           /\ symbol.start \in sl_src_seen => UNCHANGED slVars
           /\ ~(symbol.start < sl_floor) => sl_src_seen' = sl_src_seen \cup {symbol.start}
<1> DEFINE s == symbol.start
           found == [x \in {s} |-> symbol.data]
<1>1. s \in Seqs /\ symbol.data = Unit(s) /\ ~symbol.is_repair
  BY DEF Sliding!FeedSource, IInv, BoundsSound, EncoderTypeOK, WireSound, Symbol
<1>2. UNCHANGED <<sl_pivots, sl_repairs_seen, sl_floor>>
  BY DEF Sliding!FeedSource
<1>3. CASE s < sl_floor \/ s \in sl_src_seen
  <2>1. UNCHANGED <<sl_recovered, sl_output, sl_src_seen, sl_queue, sl_given>>
    BY <1>3 DEF Sliding!FeedSource
  <2>2. SlidingSound' /\ \A L : AnnulsSliding(L)' = AnnulsSliding(L)
    BY <1>2, <2>1 DEF SlidingSound, AnnulsSliding
  <2>3. UNCHANGED slVars
    BY <1>2, <2>1 DEF slVars
  <2>4. ~(s < sl_floor) => sl_src_seen' = sl_src_seen \cup {s}
    BY <1>3, <2>1
  <2>. QED  BY <1>2, <2>1, <2>2, <2>3, <2>4
<1>4. CASE ~(s < sl_floor \/ s \in sl_src_seen)
  <2>1. /\ sl_src_seen' = sl_src_seen \cup {s} /\ Sliding!Recover(found) /\ sl_queue' = <<s>>
    BY <1>4 DEF Sliding!FeedSource
  <2>2. DOMAIN found = {s} /\ \A x \in DOMAIN found : found[x] = Unit(x)
    BY <1>1
  <2>. HIDE DEF found
  <2>3. /\ DOMAIN sl_recovered' = DOMAIN found \cup DOMAIN sl_recovered
        /\ DOMAIN sl_recovered' \subseteq Seqs
        /\ \A x \in DOMAIN sl_recovered' : sl_recovered'[x] = Unit(x)
        /\ sl_given' \subseteq sl_given \cup DOMAIN found
    BY <1>1, <2>1, <2>2, SlidingRecovers
  <2>4. sl_queue' \in Seq(DOMAIN sl_recovered')
    BY <2>1, <2>2, <2>3
  <2>5. SlidingSound'
    BY <1>2, <2>3, <2>4 DEF SlidingSound
  <2>6. \A L \in Forms : AnnulsSliding(L) /\ L[Unit(s)] = Nought => AnnulsSliding(L)'
    BY <1>2, <2>2, <2>3 DEF AnnulsSliding
  <2>. QED  BY <1>2, <1>4, <2>1, <2>2, <2>3, <2>5, <2>6
<1>. QED  BY <1>3, <1>4

(* An equation that holds is put in: what it is reduced to says nothing    *)
(* more than it, with what the decoder has.                                *)
LEMMA SlidingInsertKeeps ==
    ASSUME SlidingSound, NEW equation \in SoundRow, Sliding!insert_equation(equation)
    PROVE  /\ SlidingSound'
           /\ \A L \in Forms : AnnulsSliding(L) /\ L[equation.c] = Nought => AnnulsSliding(L)'
           /\ sl_given \subseteq DOMAIN sl_recovered => sl_given' \subseteq DOMAIN sl_recovered'
<1> DEFINE unknown == eliminate_known(equation, sl_recovered)
           cols    == Support(unknown) \cap DOMAIN sl_pivots
           reduced == reduce(unknown, sl_pivots, cols)
           row     == normalized(reduced)
           t       == lead(row)
           found   == [x \in {t} |-> row.d]
<1>1. CASE Support(reduced) = {}
  <2>1. UNCHANGED <<sl_recovered, sl_pivots, sl_queue, sl_given>>
    <3>1. Cardinality(Support(reduced)) # 1
      <4>1. Cardinality(Support(reduced)) = 0
        BY <1>1, FS_EmptySet
      <4>. QED  BY <4>1
    <3>. HIDE DEF reduced
    <3>. QED  BY <1>1, <3>1, SameRows, SameCalls, SameMaps DEF Sliding!insert_equation, reduced
  <2>. QED  BY <2>1 DEF SlidingSound, AnnulsSliding
<1>2. unknown \in SoundRow
  BY Eliminated DEF SlidingSound
<1>3. cols \in SUBSET Seqs /\ \A p \in cols : sl_pivots[p] \in SoundRow
  BY DEF SlidingSound
<1>4. ASSUME NEW L \in Forms, AnnulsSliding(L), L[equation.c] = Nought
      PROVE  reduced \in SoundRow /\ L[reduced.c] = Nought
  <2>1. L[unknown.c] = Nought
    BY <1>4, FormEliminated DEF SlidingSound, AnnulsSliding
  <2>2. \A p \in cols : sl_pivots[p] \in SoundRow /\ L[sl_pivots[p].c] = Nought
    BY <1>3, <1>4 DEF AnnulsSliding
  <2>. HIDE DEF unknown, cols
  <2>. QED  BY <1>2, <1>3, <2>1, <2>2, FormReduced
<1>5. reduced \in SoundRow
  <2>1. Zero \in Vec
    BY UnitVector
  <2>2. PICK L \in Forms : \A v \in Vec : (\A s \in Seqs : v[s] = Nought \/ Zero[s] = Nought) => L[v] = Nought
    BY <2>1, FormExists
  <2>3. \A v \in Vec : L[v] = Nought
    BY <2>2 DEF Zero
  <2>4. AnnulsSliding(L) /\ L[equation.c] = Nought
    BY <2>3, SoundRowIsVector, UnitVector DEF AnnulsSliding, SlidingSound
  <2>. QED  BY <1>4, <2>4
<1>. HIDE DEF unknown, cols, reduced
<1>6. CASE Support(reduced) # {}
  <2>1. /\ row \in SoundRow /\ Support(row) = Support(reduced) /\ t = lead(reduced)
        /\ t \in Support(reduced) /\ t \in Seqs /\ row.c[t] = One
    <3>1. lead(reduced) \in Support(reduced) /\ Support(reduced) \subseteq Seqs
      BY <1>6, LeadIsLeast DEF Support
    <3>. QED  BY <1>5, <1>6, <3>1, NormalizedSound
  <2>2. CASE Cardinality(Support(reduced)) = 1
    <3>1. Sliding!Recover(found) /\ sl_queue' = <<t>> /\ UNCHANGED sl_pivots
      BY <1>6, <2>2, SameRows, SameCalls, SameMaps
      DEF Sliding!insert_equation, unknown, cols, reduced
    <3>2. Support(reduced) = {t}
      <4>1. IsFiniteSet(Support(reduced))
        <5>1. IsFiniteSet(Seqs)
          BY SizeAssumption, FS_Interval DEF Seqs
        <5>. QED  BY <5>1, FS_Subset DEF Support
      <4>2. \E x : Support(reduced) = {x}
        BY <2>2, <4>1, FS_Singleton
      <4>. QED  BY <2>1, <4>2
    <3>3. row.d = Unit(t)
      <4>1. IsUnit(row)
        BY <2>1, <3>2 DEF IsUnit
      <4>. QED  BY <2>1, <4>1, UnitRow
    <3>4. DOMAIN found = {t} /\ \A x \in DOMAIN found : found[x] = Unit(x)
      BY <3>3
    <3>. HIDE DEF found, row, t
    <3>5. /\ DOMAIN sl_recovered' = DOMAIN found \cup DOMAIN sl_recovered
          /\ DOMAIN sl_recovered' \subseteq Seqs
          /\ \A x \in DOMAIN sl_recovered' : sl_recovered'[x] = Unit(x)
          /\ sl_given' \subseteq sl_given \cup DOMAIN found
      BY <2>1, <3>1, <3>4, SlidingRecovers
    <3>6. sl_queue' \in Seq(DOMAIN sl_recovered')
      BY <3>1, <3>4, <3>5
    <3>7. SlidingSound'
      BY <3>1, <3>5, <3>6 DEF SlidingSound
    <3>8. \A L \in Forms : AnnulsSliding(L) /\ L[equation.c] = Nought => AnnulsSliding(L)'
      <4>. SUFFICES ASSUME NEW L \in Forms, AnnulsSliding(L), L[equation.c] = Nought
                    PROVE  AnnulsSliding(L)'
        OBVIOUS
      <4>1. L[Unit(t)] = Nought
        BY <1>4, <1>5, <2>1, <3>2, FormUnit
      <4>. QED  BY <3>1, <3>4, <3>5, <4>1 DEF AnnulsSliding
    <3>. QED  BY <3>4, <3>5, <3>7, <3>8
  <2>3. CASE Cardinality(Support(reduced)) # 1
    <3>1. sl_pivots' = insert(sl_pivots, t, row) /\ UNCHANGED <<sl_recovered, sl_queue, sl_given>>
      BY <1>6, <2>3, SameRows, SameCalls, SameMaps
      DEF Sliding!insert_equation, unknown, cols, reduced
    <3>. HIDE DEF row, t
    <3>2. /\ DOMAIN sl_pivots' = DOMAIN sl_pivots \cup {t}
          /\ \A p \in DOMAIN sl_pivots' : sl_pivots'[p] = IF p = t THEN row ELSE sl_pivots[p]
      BY <3>1 DEF insert
    <3>3. SlidingSound'
      BY <2>1, <3>1, <3>2 DEF SlidingSound
    <3>4. \A L \in Forms : AnnulsSliding(L) /\ L[equation.c] = Nought => AnnulsSliding(L)'
      <4>. SUFFICES ASSUME NEW L \in Forms, AnnulsSliding(L), L[equation.c] = Nought
                    PROVE  AnnulsSliding(L)'
        OBVIOUS
      <4>1. L[row.c] = Nought
        BY <1>4, <1>5, <1>6, FormNormalized DEF row
      <4>. QED  BY <3>1, <3>2, <4>1 DEF AnnulsSliding
    <3>. QED  BY <3>1, <3>3, <3>4
  <2>. QED  BY <2>2, <2>3
<1>. QED  BY <1>1, <1>6

(* The cascade takes a known column out of the rows.                       *)
LEMMA CascadeKeeps ==
    ASSUME SlidingSound, Sliding!Cascade
    PROVE  /\ SlidingSound'
           /\ \A L \in Forms : AnnulsSliding(L) => AnnulsSliding(L)'
           /\ sl_given \subseteq DOMAIN sl_recovered => sl_given' \subseteq DOMAIN sl_recovered'
           /\ UNCHANGED <<sl_src_seen, sl_repairs_seen, sl_floor>>
<1> DEFINE s        == Head(sl_queue)
           table    == [p \in DOMAIN sl_pivots \ {s} |-> substitute(sl_pivots[p], s, sl_recovered[s])]
           resolved == {p \in DOMAIN table : sl_pivots[p].c[s] # Nought /\ Support(table[p]) = {p}}
           found    == [p \in resolved |-> table[p].d]
<1>1. /\ Sliding!Recover(found)
      /\ sl_pivots' = Restrict(table, DOMAIN table \ resolved)
      /\ sl_queue' = Tail(sl_queue) \o Ascending(resolved)
      /\ sl_queue # <<>>
      /\ UNCHANGED <<sl_src_seen, sl_repairs_seen, sl_floor>>
  BY SameRows, SameMaps, ZenonT(60) DEF Sliding!Cascade, Sliding!Idle
<1>2. /\ s \in DOMAIN sl_recovered /\ s \in Seqs /\ sl_recovered[s] = Unit(s)
      /\ Tail(sl_queue) \in Seq(DOMAIN sl_recovered)
  BY <1>1, HeadTailProperties DEF SlidingSound
<1>3. \A p \in DOMAIN table : /\ p \in Seqs /\ p \in DOMAIN sl_pivots /\ sl_pivots[p] \in SoundRow
                              /\ table[p] = substitute(sl_pivots[p], s, Unit(s))
                              /\ table[p] \in SoundRow
  BY <1>2, SubstituteSound DEF SlidingSound
<1>. HIDE DEF s, table
<1>4. resolved \in SUBSET Seqs /\ \A p \in resolved : p \in DOMAIN table /\ Support(table[p]) = {p}
  BY <1>3
<1>5. \A p \in DOMAIN table : table[p].c[p] = One
  <2>. SUFFICES ASSUME NEW p \in DOMAIN table
                PROVE  table[p].c[p] = One
    OBVIOUS
  <2>1. p # s /\ sl_pivots[p].c[p] = One
    BY DEF SlidingSound, table
  <2>. QED  BY <1>2, <1>3, <2>1, SubstituteSound
<1>6. DOMAIN found = resolved /\ \A p \in DOMAIN found : found[p] = Unit(p)
  <2>1. ASSUME NEW p \in resolved
        PROVE  table[p].d = Unit(p)
    <3>1. IsUnit(table[p]) /\ p \in Seqs /\ table[p] \in SoundRow /\ table[p].c[p] = One
      BY <1>3, <1>4, <1>5 DEF IsUnit
    <3>. QED  BY <3>1, UnitRow
  <2>. QED  BY <2>1
<1>. HIDE DEF found, resolved
<1>7. /\ DOMAIN sl_recovered' = resolved \cup DOMAIN sl_recovered
      /\ DOMAIN sl_recovered' \subseteq Seqs
      /\ \A x \in DOMAIN sl_recovered' : sl_recovered'[x] = Unit(x)
      /\ sl_given' \subseteq sl_given \cup resolved
  BY <1>1, <1>4, <1>6, SlidingRecovers
<1>8. /\ DOMAIN sl_pivots' = DOMAIN table \ resolved
      /\ \A p \in DOMAIN sl_pivots' : sl_pivots'[p] = table[p]
  BY <1>1 DEF Restrict
<1>9. sl_queue' \in Seq(DOMAIN sl_recovered')
  <2>1. Ascending(resolved) \in Seq(DOMAIN sl_recovered')
    <3>1. Cardinality(resolved) \in Nat /\ Ascending(resolved) \in [1 .. Cardinality(resolved) -> resolved]
      BY <1>4, Columns
    <3>2. Ascending(resolved) \in Seq(resolved)
      BY <3>1
    <3>. QED  BY <1>7, <3>2, SeqMonotonic
  <2>2. Tail(sl_queue) \in Seq(DOMAIN sl_recovered')
    BY <1>2, <1>7, SeqMonotonic
  <2>. QED  BY <1>1, <2>1, <2>2
<1>10. SlidingSound'
  <2>1. \A p \in DOMAIN sl_pivots' : p \in Seqs /\ sl_pivots'[p] \in SoundRow /\ sl_pivots'[p].c[p] = One
    BY <1>3, <1>5, <1>8
  <2>. QED  BY <1>7, <1>9, <2>1 DEF SlidingSound
<1>11. ASSUME NEW L \in Forms, AnnulsSliding(L)
       PROVE  AnnulsSliding(L)'
  <2>1. L[Unit(s)] = Nought
    BY <1>2, <1>11 DEF AnnulsSliding
  <2>2. \A p \in DOMAIN table : L[table[p].c] = Nought
    BY <1>2, <1>3, <1>11, <2>1, FormSubstitute DEF AnnulsSliding
  <2>3. \A p \in resolved : L[Unit(p)] = Nought
    BY <1>3, <1>4, <2>2, FormUnit
  <2>. QED  BY <1>7, <1>8, <1>11, <2>2, <2>3 DEF AnnulsSliding
<1>. QED  BY <1>1, <1>7, <1>10, <1>11, SMTT(40)

-----------------------------------------------------------------------------
(***************************************************************************)
(* The two side by side.                                                   *)
(***************************************************************************)
(* They have heard the same symbols, and every equation the sliding        *)
(* decoder has follows from those of the unified one.                      *)
Covered == \A L \in Forms : AnnulsUnified(L) => AnnulsSliding(L)

Heard == sl_floor = 0 /\ sl_src_seen = src_seen /\ sl_repairs_seen = repairs_seen

Joint == floor = 0 => Heard /\ Covered /\ sl_given \subseteq DOMAIN sl_recovered

PairInv == CodecInv /\ SlidingSound /\ Joint

(* Neither has anything at the start.                                      *)
LEMMA PairInitInv == PairInit => PairInv
<1> SUFFICES ASSUME PairInit
             PROVE  PairInv
  OBVIOUS
<1>1. CodecInv
  BY CodecInitInv DEF PairInit
<1>2. /\ recovered = <<>> /\ rows = <<>> /\ delivered = {} /\ src_seen = {} /\ repairs_seen = {}
      /\ sl_recovered = <<>> /\ sl_pivots = <<>> /\ sl_src_seen = {} /\ sl_repairs_seen = {}
      /\ sl_floor = 0 /\ sl_queue = <<>> /\ sl_given = {}
  BY DEF PairInit, Init, UnifiedInit, Sliding!SlidingInit
<1>3. SlidingSound
  BY <1>2 DEF SlidingSound
<1>4. Joint
  BY <1>2 DEF Joint, Heard, Covered, AnnulsSliding
<1>. QED  BY <1>1, <1>3, <1>4 DEF PairInv

(* A step of the encoder, and none at all.                                 *)
LEMMA DecodersStutter ==
    ASSUME PairInv, CodecInv', UNCHANGED unifiedVars, UNCHANGED slVars
    PROVE  PairInv'
<1>1. SlidingSound'
  BY DEF PairInv, SlidingSound, slVars
<1>2. \A L \in Forms : /\ AnnulsUnified(L)' => AnnulsUnified(L)
                       /\ AnnulsSliding(L) => AnnulsSliding(L)'
  BY DEF AnnulsUnified, AnnulsSliding, unifiedVars, slVars
<1>3. Joint'
  BY <1>2 DEF PairInv, Joint, Heard, Covered, unifiedVars, slVars
<1>. QED  BY <1>1, <1>3 DEF PairInv

(* The worklist of the unified decoder runs on.                            *)
LEMMA AssimilateKeepsPair ==
    ASSUME PairInv, CodecInv', Assimilate, UNCHANGED slVars
    PROVE  PairInv'
<1>1. SlidingSound' /\ UNCHANGED <<floor, src_seen, repairs_seen>>
  <2>1. SlidingSound'
    BY DEF PairInv, SlidingSound, slVars
  <2>2. UNCHANGED <<floor, src_seen, repairs_seen>>
    BY Zenon DEF Assimilate, KnownAlready, AssimilateKnown, EliminateKnown, ReduceByPivot,
                 Dependent, Solved, StoreRow
  <2>. QED  BY <2>1, <2>2
<1>2. ASSUME NEW L \in Forms, AnnulsUnified(L)'
      PROVE  AnnulsUnified(L)
  BY <1>2, AssimilateKeepsForms DEF PairInv, CodecInv
<1>3. Joint'
  <2>1. \A L \in Forms : AnnulsSliding(L) => AnnulsSliding(L)'
    BY DEF AnnulsSliding, slVars
  <2>2. UNCHANGED <<sl_floor, sl_src_seen, sl_repairs_seen, sl_given, sl_recovered>>
    BY DEF slVars
  <2>3. ASSUME floor = 0
        PROVE  Heard' /\ sl_given' \subseteq DOMAIN sl_recovered' /\ Covered'
    <3>1. Heard' /\ sl_given' \subseteq DOMAIN sl_recovered'
      BY <1>1, <2>2, <2>3 DEF PairInv, Joint, Heard
    <3>2. Covered'
      BY <1>2, <2>1, <2>3 DEF PairInv, Joint, Covered
    <3>. QED  BY <3>1, <3>2
  <2>. QED  BY <1>1, <2>3 DEF Joint
<1>. QED  BY <1>1, <1>3 DEF PairInv

(* The cascade of the sliding decoder runs on.                             *)
LEMMA CascadeKeepsPair ==
    ASSUME PairInv, CodecInv', Sliding!Cascade, UNCHANGED vars
    PROVE  PairInv'
<1>1. /\ SlidingSound'
      /\ \A L \in Forms : AnnulsSliding(L) => AnnulsSliding(L)'
      /\ sl_given \subseteq DOMAIN sl_recovered => sl_given' \subseteq DOMAIN sl_recovered'
      /\ UNCHANGED <<sl_src_seen, sl_repairs_seen, sl_floor>>
  BY CascadeKeeps DEF PairInv
<1>2. UNCHANGED <<recovered, delivered, rows, src_seen, repairs_seen, floor, work, given>>
  BY DEF vars, unifiedVars
<1>3. \A L \in Forms : AnnulsUnified(L)' => AnnulsUnified(L)
  BY <1>2 DEF AnnulsUnified
<1>4. ASSUME floor = 0
      PROVE  Heard' /\ Covered' /\ sl_given' \subseteq DOMAIN sl_recovered'
  <2>1. Heard' /\ sl_given' \subseteq DOMAIN sl_recovered'
    BY <1>1, <1>2, <1>4 DEF PairInv, Joint, Heard
  <2>2. Covered'
    BY <1>1, <1>3, <1>4 DEF PairInv, Joint, Covered
  <2>. QED  BY <2>1, <2>2
<1>5. Joint'
  BY <1>2, <1>4 DEF Joint
<1>. QED  BY <1>1, <1>5 DEF PairInv

(* An equation over known sources says nothing new.                        *)
LEMMA InertSaysNothing ==
    ASSUME IInv, NEW symbol \in wire, symbol.is_repair, inert(symbol),
           NEW L \in Forms, \A s \in DOMAIN recovered : L[Unit(s)] = Nought
    PROVE  L[WireRow(symbol).c] = Nought
<1> DEFINE row  == WireRow(symbol)
           rest == eliminate_known(row, recovered)
<1>1. row \in SoundRow
  BY WireEquation
<1>2. \A q \in Seqs \ DOMAIN recovered : row.c[q] = Nought
  BY DEF WireRow, CoefficientsOf, inert, SpanOf
<1>. HIDE DEF row
<1>3. /\ rest \in SoundRow
      /\ \A q \in Seqs : rest.c[q] = IF q \in DOMAIN recovered THEN Nought ELSE row.c[q]
  BY <1>1, Eliminated DEF IInv, KnownSound
<1>4. L[rest.c] = L[row.c]
  BY <1>1, FormEliminated DEF IInv, KnownSound
<1>5. Support(rest) = {}
  BY <1>2, <1>3 DEF Support
<1>6. L[rest.c] = Nought
  BY <1>3, <1>5, AnnulsEmpty
<1>. QED  BY <1>4, <1>6 DEF row

(* Both take the same symbol.                                              *)
LEMMA ReceiveKeepsPair ==
    ASSUME PairInv, CodecInv', NEW symbol \in wire, BothReceive(symbol)
    PROVE  PairInv'
<1> DEFINE s == symbol.start
<1>1. /\ Receive(symbol)
      /\ UNCHANGED <<recovered, delivered, rows, floor, given>>
      /\ work = <<>>
  BY DEF BothReceive, Receive, FeedSource, FeedRepair, Idle
<1>2. IInv
  BY DEF PairInv, CodecInv
<1>3. symbol \in Symbol /\ s \in Seqs /\ s >= 0 /\ symbol.count \in 1 .. N /\ s \in Int
  BY <1>2, SizeAssumption DEF IInv, BoundsSound, EncoderTypeOK, Symbol, Seqs
<1>4. ASSUME NEW L \in Forms, AnnulsUnified(L)'
      PROVE  /\ AnnulsUnified(L) /\ AnnulsAll(L, work')
             /\ \A x \in DOMAIN recovered : L[Unit(x)] = Nought
  BY <1>1, <1>4 DEF AnnulsUnified, AnnulsAll
<1>5. CASE FeedSource(symbol)
  <2>1. Sliding!FeedSource(symbol) /\ ~symbol.is_repair
    BY <1>5 DEF BothReceive, FeedSource, Sliding!FeedRepair
  <2>2. /\ SlidingSound'
        /\ \A L \in Forms : AnnulsSliding(L) /\ L[Unit(s)] = Nought => AnnulsSliding(L)'
        /\ sl_given \subseteq DOMAIN sl_recovered => sl_given' \subseteq DOMAIN sl_recovered'
        /\ sl_floor' = sl_floor /\ sl_repairs_seen' = sl_repairs_seen
        /\ s \in sl_src_seen => UNCHANGED slVars
        /\ ~(s < sl_floor) => sl_src_seen' = sl_src_seen \cup {s}
    BY <1>2, <2>1, SlidingSourceKeeps DEF PairInv
  <2>3. ASSUME floor = 0
        PROVE  Heard' /\ Covered' /\ sl_given' \subseteq DOMAIN sl_recovered'
    <3>1. ~(s < floor) /\ ~(s < sl_floor) /\ sl_src_seen = src_seen
      BY <1>3, <2>3 DEF PairInv, Joint, Heard
    <3>2. /\ src_seen' = src_seen \cup {s} /\ repairs_seen' = repairs_seen
          /\ s \notin src_seen => work' = IF s \in DOMAIN recovered THEN <<>>
                                                                  ELSE <<Known(s, symbol.data)>>
      BY <1>5, <3>1 DEF FeedSource
    <3>3. Heard' /\ sl_given' \subseteq DOMAIN sl_recovered'
      BY <2>2, <2>3, <3>1, <3>2 DEF PairInv, Joint, Heard
    <3>4. ASSUME NEW L \in Forms, AnnulsUnified(L)'
          PROVE  AnnulsSliding(L)'
      <4>1. AnnulsSliding(L)
        BY <1>4, <2>3, <3>4 DEF PairInv, Joint, Covered
      <4>2. CASE s \in src_seen
        BY <2>2, <3>1, <4>1, <4>2 DEF AnnulsSliding, slVars
      <4>3. CASE s \notin src_seen
        <5>1. CASE s \in DOMAIN recovered
          BY <1>4, <2>2, <3>4, <4>1, <5>1
        <5>2. CASE s \notin DOMAIN recovered
          <6>1. work' = <<Known(s, symbol.data)>> /\ AnnulsAll(L, work')
            BY <1>4, <3>2, <3>4, <4>3, <5>2
          <6>2. Annuls(L, Known(s, symbol.data))
            BY <6>1 DEF AnnulsAll
          <6>. QED  BY <2>2, <4>1, <6>2 DEF Annuls, Known
        <5>. QED  BY <5>1, <5>2
      <4>. QED  BY <4>2, <4>3
    <3>. QED  BY <3>3, <3>4 DEF Covered
  <2>. QED  BY <1>1, <2>2, <2>3 DEF PairInv, Joint
<1>6. CASE FeedRepair(symbol)
  <2> DEFINE key == RepairKey(symbol)
             row == WireRow(symbol)
  <2>1. Sliding!FeedRepair(symbol) /\ symbol.is_repair
    BY <1>6 DEF BothReceive, FeedRepair, Sliding!FeedSource
  <2>2. row \in SoundRow
    BY <1>2, <2>1, WireEquation
  <2>3. /\ UNCHANGED <<sl_src_seen, sl_floor>>
        /\ key \in sl_repairs_seen =>
              UNCHANGED <<sl_recovered, sl_pivots, sl_output, sl_repairs_seen, sl_queue, sl_given>>
        /\ key \notin sl_repairs_seen =>
              sl_repairs_seen' = sl_repairs_seen \cup {key} /\ Sliding!insert_equation(row)
    BY <2>1, SameRows DEF Sliding!FeedRepair
  <2>4. /\ SlidingSound'
        /\ \A L \in Forms : /\ AnnulsSliding(L)
                            /\ key \notin sl_repairs_seen => L[row.c] = Nought
                            => AnnulsSliding(L)'
        /\ sl_given \subseteq DOMAIN sl_recovered => sl_given' \subseteq DOMAIN sl_recovered'
        /\ sl_repairs_seen' = sl_repairs_seen \cup {key}
    <3>1. CASE key \in sl_repairs_seen
      BY <2>3, <3>1 DEF PairInv, SlidingSound, AnnulsSliding
    <3>2. CASE key \notin sl_repairs_seen
      <4>. HIDE DEF key, row
      <4>. QED  BY <1>2, <2>2, <2>3, <3>2, SlidingInsertKeeps DEF PairInv
    <3>. QED  BY <3>1, <3>2
  <2>5. ASSUME floor = 0
        PROVE  Heard' /\ Covered' /\ sl_given' \subseteq DOMAIN sl_recovered'
    <3>1. sl_repairs_seen = repairs_seen /\ ~(s + symbol.count <= floor)
      BY <1>3, <2>5 DEF PairInv, Joint, Heard
    <3>2. /\ repairs_seen' = repairs_seen \cup {key} /\ src_seen' = src_seen
          /\ key \notin repairs_seen => work' = IF inert(symbol) THEN <<>> ELSE <<Eq(row)>>
      BY <1>6, <3>1 DEF FeedRepair
    <3>3. Heard' /\ sl_given' \subseteq DOMAIN sl_recovered'
      BY <2>3, <2>4, <2>5, <3>1, <3>2 DEF PairInv, Joint, Heard
    <3>4. ASSUME NEW L \in Forms, AnnulsUnified(L)'
          PROVE  AnnulsSliding(L)'
      <4>1. AnnulsSliding(L)
        BY <1>4, <2>5, <3>4 DEF PairInv, Joint, Covered
      <4>2. ASSUME key \notin sl_repairs_seen
            PROVE  L[row.c] = Nought
        <5>1. CASE inert(symbol)
          BY <1>2, <1>4, <2>1, <3>4, <5>1, InertSaysNothing
        <5>2. CASE ~inert(symbol)
          <6>1. work' = <<Eq(row)>> /\ AnnulsAll(L, work')
            BY <1>4, <3>1, <3>2, <3>4, <4>2, <5>2
          <6>2. Annuls(L, Eq(row))
            BY <6>1 DEF AnnulsAll
          <6>. QED  BY <6>2 DEF Annuls, Eq
        <5>. QED  BY <5>1, <5>2
      <4>. QED  BY <2>4, <4>1, <4>2
    <3>. QED  BY <3>3, <3>4 DEF Covered
  <2>. QED  BY <1>1, <2>4, <2>5 DEF PairInv, Joint
<1>. QED  BY <1>1, <1>5, <1>6 DEF Receive

(* Raising the floor; while it stays at 0 nothing is forgotten.            *)
LEMMA AdvanceKeepsPair ==
    ASSUME PairInv, CodecInv', NEW oldest_seq \in Nat, BothAdvance(oldest_seq)
    PROVE  PairInv'
<1> DEFINE f == IF oldest_seq > floor THEN oldest_seq ELSE floor
           g == IF oldest_seq > sl_floor THEN oldest_seq ELSE sl_floor
           sl_kept == {s \in Seqs : s >= g}
<1>1. /\ floor' = f
      /\ rows' = Restrict(rows, DOMAIN rows \cap kept(f))
      /\ recovered' = Restrict(recovered, DOMAIN recovered \cap kept(f))
      /\ delivered' = delivered \cap kept(f)
      /\ src_seen' = src_seen \cap kept(f)
      /\ repairs_seen' = {k \in repairs_seen : k[1] \in kept(f)}
      /\ work = <<>> /\ work' = <<>> /\ given' = given
  BY DEF BothAdvance, Advance, Idle
<1>2. /\ sl_floor' = g
      /\ sl_pivots' = Restrict(sl_pivots, DOMAIN sl_pivots \cap sl_kept)
      /\ sl_recovered' = Restrict(sl_recovered, DOMAIN sl_recovered \cap sl_kept)
      /\ sl_src_seen' = sl_src_seen \cap sl_kept
      /\ sl_repairs_seen' = {k \in sl_repairs_seen : k[1] \in sl_kept}
      /\ sl_queue = <<>> /\ sl_queue' = <<>> /\ sl_given' = sl_given
  BY SameRows, SameMaps DEF BothAdvance, Sliding!Advance, Sliding!Idle
<1>. HIDE DEF sl_kept
<1>3. /\ DOMAIN recovered' = DOMAIN recovered \cap kept(f) /\ DOMAIN rows' = DOMAIN rows \cap kept(f)
      /\ \A p \in DOMAIN rows' : rows'[p] = rows[p]
      /\ DOMAIN sl_recovered' = DOMAIN sl_recovered \cap sl_kept
      /\ \A s \in DOMAIN sl_recovered' : sl_recovered'[s] = sl_recovered[s]
      /\ DOMAIN sl_pivots' = DOMAIN sl_pivots \cap sl_kept
      /\ \A p \in DOMAIN sl_pivots' : sl_pivots'[p] = sl_pivots[p]
  <2>. HIDE DEF f
  <2>. QED  BY <1>1, <1>2 DEF Restrict
<1>4. SlidingSound'
  <2>1. sl_queue' \in Seq(DOMAIN sl_recovered')
    BY <1>2
  <2>. QED  BY <1>3, <2>1 DEF PairInv, SlidingSound
<1>5. ASSUME floor' = 0
      PROVE  Heard' /\ Covered' /\ sl_given' \subseteq DOMAIN sl_recovered'
  <2>1. floor = 0 /\ oldest_seq = 0 /\ f = 0
    BY <1>1, <1>5, SizeAssumption DEF PairInv, CodecInv, IInv, BoundsSound
  <2>2. Heard /\ Covered /\ sl_given \subseteq DOMAIN sl_recovered
    BY <2>1 DEF PairInv, Joint
  <2>3. g = 0
    BY <2>1, <2>2 DEF Heard
  <2>4. kept(f) = Seqs /\ sl_kept = Seqs
    <3>1. \A s \in Seqs : s >= 0
      BY SizeAssumption DEF Seqs
    <3>. QED  BY <2>1, <2>3, <3>1 DEF kept, sl_kept
  <2>. HIDE DEF f, g
  <2>5. Heard'
    BY <1>1, <1>2, <2>2, <2>3, <2>4 DEF Heard
  <2>6. /\ DOMAIN recovered' = DOMAIN recovered /\ DOMAIN rows' = DOMAIN rows
        /\ DOMAIN sl_recovered' = DOMAIN sl_recovered /\ DOMAIN sl_pivots' \subseteq DOMAIN sl_pivots
    <3>1. DOMAIN recovered \subseteq Seqs /\ DOMAIN rows \subseteq Seqs /\ DOMAIN sl_recovered \subseteq Seqs
      BY DEF PairInv, CodecInv, IInv, KnownSound, RowsSound, SlidingSound
    <3>. QED  BY <1>3, <2>4, <3>1
  <2>7. \A L \in Forms : /\ AnnulsUnified(L)' => AnnulsUnified(L)
                         /\ AnnulsSliding(L) => AnnulsSliding(L)'
    <3>1. ASSUME NEW L \in Forms
          PROVE  AnnulsUnified(L)' => AnnulsUnified(L)
      BY <1>1, <1>3, <2>6, ZenonT(60) DEF AnnulsUnified
    <3>2. ASSUME NEW L \in Forms
          PROVE  AnnulsSliding(L) => AnnulsSliding(L)'
      BY <1>1, <1>3, <2>6, ZenonT(60) DEF AnnulsSliding
    <3>. QED  BY <3>1, <3>2
  <2>. QED  BY <1>2, <2>2, <2>5, <2>6, <2>7 DEF Covered
<1>. QED  BY <1>4, <1>5 DEF PairInv, Joint

(* A step of the two is one of the codec, or none.                         *)
LEMMA PairIsCodec == [PairNext]_pairVars => [Next]_vars
BY DEF PairNext, pairVars, BothReceive, BothAdvance, Next, RaiseFloor

(* So the unified decoder implements the erasure code beside the other.    *)
THEOREM PairImplementsCode == PairSpec => ImplementsCode
<1>1. PairInit => Init
  BY DEF PairInit
<1>2. PairSpec => Spec
  BY <1>1, PairIsCodec, PTL DEF PairSpec, Spec
<1>. QED  BY <1>2, CodecImplementsCode

(* Every step of the two.                                                  *)
LEMMA PairStep == PairInv /\ [PairNext]_pairVars => PairInv'
<1> SUFFICES ASSUME PairInv, [PairNext]_pairVars
             PROVE  PairInv'
  OBVIOUS
<1>1. CodecInv'
  BY CodecStep, PairIsCodec DEF PairInv
<1>2. CASE EncoderStep /\ UNCHANGED slVars
  BY <1>1, <1>2, DecodersStutter DEF EncoderStep
<1>3. ASSUME NEW symbol \in wire, BothReceive(symbol)
      PROVE  PairInv'
  BY <1>1, <1>3, ReceiveKeepsPair
<1>4. ASSUME NEW f \in 0 .. next_seq, BothAdvance(f)
      PROVE  PairInv'
  <2>1. f \in Nat
    BY SizeAssumption DEF PairInv, CodecInv, IInv, BoundsSound, EncoderTypeOK
  <2>. QED  BY <1>1, <1>4, <2>1, AdvanceKeepsPair
<1>5. CASE DecoderStep /\ UNCHANGED slVars
  BY <1>1, <1>5, AssimilateKeepsPair DEF DecoderStep
<1>6. CASE Sliding!Cascade /\ UNCHANGED vars
  BY <1>1, <1>6, CascadeKeepsPair
<1>7. CASE UNCHANGED pairVars
  <2>1. UNCHANGED unifiedVars /\ UNCHANGED slVars
    BY <1>7 DEF pairVars, vars
  <2>. QED  BY <1>1, <2>1, DecodersStutter
<1>. QED  BY <1>2, <1>3, <1>4, <1>5, <1>6, <1>7 DEF PairNext

(* The two decoders have heard the same symbols, and every equation the    *)
(* sliding one has follows from those of the unified one.                  *)
THEOREM PairInvariance == PairSpec => []PairInv
BY PairInitInv, PairStep, PTL DEF PairSpec

(* Between two calls the unified decoder has handed on every source the    *)
(* sliding one has, with the same payload, as long as nothing was          *)
(* forgotten (fec/unified.rs).                                             *)
THEOREM UnifiedIsSuperset == PairSpec => []Superset
<1>1. PairInv => Superset
  <2> SUFFICES ASSUME PairInv, BothIdle, floor = 0
               PROVE  /\ \A s \in sl_given : given[s] > 0
                      /\ \A s \in DOMAIN sl_recovered \cap DOMAIN recovered :
                            sl_recovered[s] = recovered[s]
    BY DEF Superset
  <2>1. Covered /\ sl_given \subseteq DOMAIN sl_recovered /\ work = <<>>
    BY DEF PairInv, Joint, BothIdle, Idle
  <2>2. ASSUME NEW s \in sl_given
        PROVE  s \in DOMAIN recovered
    <3>. SUFFICES ASSUME s \notin DOMAIN recovered
                  PROVE  FALSE
      OBVIOUS
    <3>1. s \in DOMAIN sl_recovered /\ s \in Seqs
      BY <2>1 DEF PairInv, SlidingSound
    <3>2. PICK L \in Forms : AnnulsUnified(L) /\ L[Unit(s)] # Nought
      BY <2>1, <3>1, Undetermined DEF PairInv, CodecInv
    <3>. QED  BY <2>1, <3>1, <3>2 DEF Covered, AnnulsSliding
  <2>3. \A s \in sl_given : given[s] > 0
    <3>1. \A s \in DOMAIN recovered : floor <= s => given[s] = 1
      BY DEF PairInv, CodecInv, HandedOn
    <3>2. \A s \in DOMAIN recovered : floor <= s
      BY DEF PairInv, CodecInv, IInv, KnownSound, Seqs
    <3>. QED  BY <2>2, <3>1, <3>2
  <2>4. \A s \in DOMAIN sl_recovered \cap DOMAIN recovered : sl_recovered[s] = recovered[s]
    BY DEF PairInv, SlidingSound, CodecInv, IInv, KnownSound
  <2>. QED  BY <2>3, <2>4
<1>. QED  BY <1>1, PairInvariance, PTL
=============================================================================
