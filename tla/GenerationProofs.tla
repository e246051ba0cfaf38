-------------------------- MODULE GenerationProofs --------------------------
(***************************************************************************)
(* The systems of generation coding hold true equations, agree with the    *)
(* payloads beside them and with each other, and report the rank they      *)
(* have, for any field of characteristic 2, any size and number of         *)
(* generations and any loss and order of the symbols.                      *)
(***************************************************************************)
EXTENDS GenerationCodec, RowLemmas

-----------------------------------------------------------------------------
(***************************************************************************)
(* One system, and the store of all of them.                               *)
(***************************************************************************)
Slots == Seqs \X (1 .. N)

(* The columns a system has still to find.                                 *)
Wanted(slot, known) == SlotSpan(slot) \ known

(* A row for pivot p: it holds, leads with a 1 at p, has its columns among *)
(* `columns`, and none of the other pivots among them.                     *)
PivotRow(row, p, columns, pivots) ==
    /\ row \in SoundRow /\ row.c[p] = One
    /\ Support(row) \subseteq columns /\ \A s \in Support(row) : p <= s
    /\ Support(row) \cap pivots = {p}

(* A system that is still solving, beside the payloads found.              *)
Solves(slot, known, pivots, found) ==
    /\ known \subseteq SlotSpan(slot) \cap found /\ known # SlotSpan(slot)
    /\ DOMAIN pivots \subseteq Seqs
    /\ \A p \in DOMAIN pivots :
          /\ PivotRow(pivots[p], p, Wanted(slot, known), DOMAIN pivots)
          /\ Support(pivots[p]) # {p}

SystemSound(slot, system, found) ==
    /\ system.done \in BOOLEAN
    /\ ~system.done => Solves(slot, system.known, system.pivots, found)

PayloadsSound(w) ==
    /\ DOMAIN w.recovered \subseteq Seqs
    /\ \A s \in DOMAIN w.recovered : w.recovered[s] = Unit(s)

StoreSound(w) ==
    /\ PayloadsSound(w)
    /\ DOMAIN w.gens \subseteq Slots
    /\ \A slot \in DOMAIN w.gens : SystemSound(slot, w.gens[slot], DOMAIN w.recovered)

(* What one system found and another does not know is still to be told.    *)
Untold(w, slot) == (SlotSpan(slot) \cap DOMAIN w.recovered) \ w.gens[slot].known

Told(w, pending) ==
    \A slot \in DOMAIN w.gens : ~w.gens[slot].done => Untold(w, slot) \subseteq pending

-----------------------------------------------------------------------------
(***************************************************************************)
(* A new pivot.                                                            *)
(***************************************************************************)

(* A pivot row has its pivot; a row that is a unit has nothing else.       *)
LEMMA PivotFacts ==
    ASSUME NEW row, NEW p \in Seqs, NEW columns, NEW pivots, PivotRow(row, p, columns, pivots)
    PROVE  /\ p \in Support(row) /\ p \in columns /\ p \in pivots
           /\ IsUnit(row) <=> Support(row) = {p}
           /\ Support(row) = {p} => row.c = Unit(p) /\ row.d = Unit(p)
           /\ \A q \in pivots \ {p} : q \in Seqs => row.c[q] = Nought
<1>1. p \in Support(row)
  BY FieldAssumption DEF PivotRow, Support
<1>2. ASSUME IsUnit(row)
      PROVE  Support(row) = {p}
  <2>1. Support(row) \in SUBSET Seqs /\ IsFiniteSet(Support(row))
    <3>1. Support(row) \in SUBSET Seqs
      BY DEF Support
    <3>. QED  BY <3>1, Columns
  <2>2. Cardinality(Support(row)) = 1
    BY <1>2 DEF IsUnit
  <2>3. PICK x : Support(row) = {x}
    BY <2>1, <2>2, FS_Singleton
  <2>. QED  BY <1>1, <2>3
<1>3. ASSUME Support(row) = {p}
      PROVE  IsUnit(row) /\ row.c = Unit(p) /\ row.d = Unit(p)
  <2>1. IsUnit(row)
    BY <1>3, FS_Singleton DEF IsUnit
  <2>2. row.c \in Vec /\ row.d = row.c /\ row.c[p] = One
    BY SoundRowIsVector DEF PivotRow
  <2>3. \A q \in Seqs \ {p} : row.c[q] = Nought
    BY <1>3 DEF Support
  <2>4. row.c = Unit(p)
    BY <2>2, <2>3, UnitVector DEF Vec
  <2>. QED  BY <2>1, <2>2, <2>4
<1>4. \A q \in pivots \ {p} : q \in Seqs => row.c[q] = Nought
  BY DEF PivotRow, Support
<1>. QED  BY <1>1, <1>2, <1>3, <1>4 DEF PivotRow

(* A row without the pivots, made a pivot row: the others lose its lead,   *)
(* and stay the pivot rows they were.                                      *)
LEMMA WithPivotSound ==
    ASSUME NEW pivots, DOMAIN pivots \subseteq Seqs, NEW columns \in SUBSET Int,
           \A p \in DOMAIN pivots : PivotRow(pivots[p], p, columns, DOMAIN pivots),
           NEW row \in SoundRow, Support(row) # {}, Support(row) \subseteq columns,
           Support(row) \cap DOMAIN pivots = {}, row.c[lead(row)] = One
    PROVE  LET more == WithPivot(pivots, row)
           IN  /\ DOMAIN more = DOMAIN pivots \cup {lead(row)} /\ DOMAIN more \subseteq Seqs
               /\ \A p \in DOMAIN more : PivotRow(more[p], p, columns, DOMAIN more)
               /\ more[lead(row)] = row
               /\ \A p \in DOMAIN pivots : \A q \in Seqs :
                     more[p].c[q] = Add(pivots[p].c[q], Mul(pivots[p].c[lead(row)], row.c[q]))
<1> DEFINE l == lead(row)
           more == WithPivot(pivots, row)
           sub(p) == sub_scaled(pivots[p], pivots[p].c[l], row)
<1>1. /\ l \in Support(row) /\ l \in Seqs /\ \A q \in Support(row) : l <= q
      /\ l \notin DOMAIN pivots /\ l \in columns
  BY LeadIsLeast DEF Support
<1>2. /\ DOMAIN more = DOMAIN pivots \cup {l}
      /\ more[l] = row /\ \A p \in DOMAIN pivots : more[p] = sub(p)
  BY <1>1 DEF WithPivot, insert
<1>. HIDE DEF l, more
<1>3. \A p \in DOMAIN pivots : row.c[p] = Nought
  BY DEF Support
<1>4. Nought \in Field /\ One \in Field /\ One # Nought
      /\ \A x \in Field : Add(x, Mul(x, One)) = Nought
           /\ Add(x, Nought) = x /\ Mul(x, Nought) = Nought /\ Mul(Nought, x) = Nought
  BY Products, FieldAssumption
<1>5. ASSUME NEW p \in DOMAIN pivots
      PROVE  /\ sub(p) \in SoundRow
             /\ \A q \in Seqs : /\ sub(p).c[q] = Add(pivots[p].c[q], Mul(pivots[p].c[l], row.c[q]))
                                /\ pivots[p].c[q] \in Field /\ row.c[q] \in Field
  <2>1. pivots[p] \in SoundRow /\ p \in Seqs
    BY DEF PivotRow
  <2>2. pivots[p].c[l] \in Field
    BY <1>1, <2>1, SoundRowIsVector
  <2>3. \A q \in Seqs : pivots[p].c[q] \in Field /\ row.c[q] \in Field
    BY <2>1, SoundRowIsVector
  <2>4. sub(p) \in SoundRow
    BY <2>1, <2>2, SubScaledSound
  <2>5. \A q \in Seqs : sub(p).c[q] = Add(pivots[p].c[q], Mul(pivots[p].c[l], row.c[q]))
    <3> SUFFICES ASSUME NEW q \in Seqs
                 PROVE  sub(p).c[q] = Add(pivots[p].c[q], Mul(pivots[p].c[l], row.c[q]))
      OBVIOUS
    <3>1. pivots[p].c \in Vec /\ row.c \in Vec
      BY <2>1, SoundRowIsVector
    <3>2. sub(p).c = mul_acc(pivots[p].c, pivots[p].c[l], row.c)
      BY DEF sub_scaled
    <3>. QED  BY <2>2, <3>1, <3>2 DEF mul_acc
  <2>. QED  BY <2>3, <2>4, <2>5
<1>6. PivotRow(row, l, columns, DOMAIN more)
  BY <1>1, <1>2 DEF PivotRow, l
<1>7. ASSUME NEW p \in DOMAIN pivots
      PROVE  PivotRow(sub(p), p, columns, DOMAIN more)
  <2>1. /\ PivotRow(pivots[p], p, columns, DOMAIN pivots) /\ p \in Seqs
        /\ pivots[p].c[p] = One /\ pivots[p].c[l] \in Field
    BY <1>1, <1>5 DEF PivotRow
  <2>2. sub(p).c[p] = One
    BY <1>3, <1>4, <1>5, <2>1
  <2>3. sub(p).c[l] = Nought
    <3>1. row.c[l] = One
      BY DEF l
    <3>. QED  BY <1>1, <1>4, <1>5, <2>1, <3>1
  <2>4. \A q \in Seqs : q \notin Support(pivots[p]) /\ q \notin Support(row) => sub(p).c[q] = Nought
    BY <1>4, <1>5, <2>1 DEF Support
  <2>5. pivots[p].c[l] = Nought => \A q \in Seqs : sub(p).c[q] = pivots[p].c[q]
    BY <1>4, <1>5
  <2>6. Support(sub(p)) \subseteq columns
    BY <2>1, <2>4 DEF Support, PivotRow
  <2>7. ASSUME NEW s \in Support(sub(p))
        PROVE  p <= s
    <3>1. s \in Seqs /\ Seqs \subseteq Int
      BY SizeAssumption DEF Support, Seqs
    <3>2. CASE s \in Support(pivots[p])
      BY <2>1, <3>2 DEF PivotRow
    <3>3. CASE s \notin Support(pivots[p])
      <4>1. pivots[p].c[l] # Nought /\ s \in Support(row)
        BY <2>4, <2>5, <3>1, <3>3 DEF Support
      <4>2. l \in Support(pivots[p])
        BY <1>1, <4>1 DEF Support
      <4>3. p <= l /\ l <= s
        BY <1>1, <2>1, <4>1, <4>2 DEF PivotRow
      <4>4. l \in Int /\ p \in Int /\ s \in Int
        BY <1>1, <2>1, <3>1
      <4>. QED  BY <4>3, <4>4
    <3>. QED  BY <3>2, <3>3
  <2>8. ASSUME NEW q \in DOMAIN pivots, q # p
        PROVE  sub(p).c[q] = Nought
    <3>1. q \in Seqs /\ q \notin Support(pivots[p]) /\ q \notin Support(row)
      BY <2>1, <2>8 DEF PivotRow
    <3>. QED  BY <2>4, <3>1
  <2>9. Support(sub(p)) \cap DOMAIN more = {p}
    BY <1>2, <1>4, <2>1, <2>2, <2>3, <2>8 DEF Support
  <2>. QED  BY <1>5, <2>2, <2>6, <2>7, <2>9 DEF PivotRow
<1>8. \A p \in DOMAIN more : PivotRow(more[p], p, columns, DOMAIN more)
  BY <1>2, <1>6, <1>7
<1>. QED  BY <1>1, <1>2, <1>5, <1>8 DEF l, more

(* A system whose rows are `more` once its unit rows are known columns:    *)
(* what they carry is true.                                                *)
UnitsSettle(slot, known, more, found) ==
    LET units   == {p \in DOMAIN more : IsUnit(more[p])}
        settled == Settled(slot, known \cup units, Restrict(more, DOMAIN more \ units))
    IN  /\ units \subseteq Seqs /\ units \subseteq SlotSpan(slot)
        /\ \A p \in units : more[p].d = Unit(p)
        /\ SystemSound(slot, settled, found \cup units)
        /\ ~settled.done => settled.known = known \cup units

(* The unit rows settle after a new pivot.                                 *)
LEMMA NewPivot ==
    ASSUME NEW slot \in Slots, NEW known, NEW pivots, NEW found, found \subseteq Seqs,
           Solves(slot, known, pivots, found),
           NEW row \in SoundRow, Support(row) # {}, Support(row) \subseteq Wanted(slot, known),
           Support(row) \cap DOMAIN pivots = {}
    PROVE  UnitsSettle(slot, known, WithPivot(pivots, normalized(row)), found)
<1> DEFINE more  == WithPivot(pivots, normalized(row))
           units == {p \in DOMAIN more : IsUnit(more[p])}
           left  == Restrict(more, DOMAIN more \ units)
           columns == Wanted(slot, known)
<1>1. /\ normalized(row) \in SoundRow /\ Support(normalized(row)) = Support(row)
      /\ normalized(row).c[lead(normalized(row))] = One
  BY NormalizedSound
<1>2. columns \in SUBSET Int /\ SlotSpan(slot) \subseteq Int
  BY SizeAssumption DEF Wanted, SlotSpan, Slots, Seqs
<1>3. /\ DOMAIN pivots \subseteq Seqs /\ known \subseteq SlotSpan(slot) \cap found
      /\ \A p \in DOMAIN pivots : PivotRow(pivots[p], p, columns, DOMAIN pivots)
  BY DEF Solves
<1>. HIDE DEF columns
<1>4. /\ DOMAIN more \subseteq Seqs
      /\ \A p \in DOMAIN more : PivotRow(more[p], p, columns, DOMAIN more)
  BY <1>1, <1>2, <1>3, WithPivotSound DEF columns
<1>. HIDE DEF more
<1>5. \A p \in DOMAIN more : /\ IsUnit(more[p]) <=> Support(more[p]) = {p}
                             /\ Support(more[p]) = {p} => more[p].d = Unit(p)
                             /\ p \in columns
  BY <1>4, PivotFacts
<1>6. units \subseteq columns /\ units \subseteq Seqs /\ \A p \in units : more[p].d = Unit(p)
  BY <1>4, <1>5
<1>7. units \subseteq SlotSpan(slot)
  BY <1>6 DEF columns, Wanted
<1>8. /\ DOMAIN left = DOMAIN more \ units
      /\ \A p \in DOMAIN left : left[p] = more[p]
  BY DEF Restrict
<1>9. ASSUME NEW p \in DOMAIN left
      PROVE  /\ PivotRow(left[p], p, Wanted(slot, known \cup units), DOMAIN left)
             /\ Support(left[p]) # {p}
  <2>1. /\ p \in DOMAIN more /\ left[p] = more[p] /\ p \notin units
        /\ PivotRow(more[p], p, columns, DOMAIN more)
    BY <1>4, <1>8
  <2>2. Support(more[p]) # {p}
    BY <1>5, <2>1
  <2>3. Support(more[p]) \cap units = {} /\ Support(more[p]) \cap DOMAIN left = {p}
    BY <1>8, <2>1 DEF PivotRow
  <2>4. Support(more[p]) \subseteq Wanted(slot, known \cup units)
    BY <2>1, <2>3 DEF PivotRow, Wanted, columns
  <2>. QED  BY <2>1, <2>2, <2>3, <2>4 DEF PivotRow
<1>10. CASE known \cup units = SlotSpan(slot)
  BY <1>6, <1>7, <1>10 DEF Settled, Done, SystemSound, more, UnitsSettle
<1>11. CASE known \cup units # SlotSpan(slot)
  <2>1. Settled(slot, known \cup units, left) = Solving(known \cup units, left)
    BY <1>11 DEF Settled
  <2>2. Solves(slot, known \cup units, left, found \cup units)
    BY <1>3, <1>4, <1>7, <1>8, <1>9, <1>11 DEF Solves
  <2>3. SystemSound(slot, Solving(known \cup units, left), found \cup units)
    BY <2>2 DEF SystemSound, Solving
  <2>4. Solving(known \cup units, left).known = known \cup units
    BY DEF Solving
  <2>5. /\ SystemSound(slot, Settled(slot, known \cup units, left), found \cup units)
        /\ Settled(slot, known \cup units, left).known = known \cup units
    BY <2>1, <2>3, <2>4
  <2>. QED  BY <1>6, <1>7, <2>5 DEF more, UnitsSettle
<1>. QED  BY <1>10, <1>11

-----------------------------------------------------------------------------
(***************************************************************************)
(* An equation, freed of what a system knows and of its pivots.            *)
(***************************************************************************)
Freed(w, known, equation) == eliminate_known(equation, Restrict(w.recovered, known))

(* It holds, and is zero at every column the system knows.                 *)
LEMMA FreedRow ==
    ASSUME NEW w, PayloadsSound(w), NEW known, known \subseteq DOMAIN w.recovered,
           NEW equation \in SoundRow
    PROVE  /\ Freed(w, known, equation) \in SoundRow
           /\ \A q \in Seqs : Freed(w, known, equation).c[q]
                                 = IF q \in known THEN Nought ELSE equation.c[q]
<1> DEFINE payloads == Restrict(w.recovered, known)
<1>1. DOMAIN payloads = known /\ \A s \in known : payloads[s] = w.recovered[s]
  BY DEF Restrict
<1>2. known \in SUBSET Seqs /\ \A s \in known : w.recovered[s] = Unit(s)
  BY DEF PayloadsSound
<1>. HIDE DEF payloads
<1>3. DOMAIN payloads \in SUBSET Seqs /\ \A s \in DOMAIN payloads : payloads[s] = Unit(s)
  BY <1>1, <1>2
<1>4. /\ eliminate_known(equation, payloads) \in SoundRow
      /\ \A q \in Seqs : eliminate_known(equation, payloads).c[q]
                            = IF q \in DOMAIN payloads THEN Nought ELSE equation.c[q]
  BY <1>3, Eliminated
<1>. QED  BY <1>1, <1>4 DEF Freed, payloads

(* What is left of an equation over the system's span; of the equation for *)
(* one source it is that source, or what its pivot row says of the others. *)
LeftOf(equation, r, slot, known, pivots) ==
    /\ r \in SoundRow /\ Support(r) \subseteq Wanted(slot, known)
    /\ Support(r) \cap DOMAIN pivots = {}
    /\ \A s \in Seqs \ known : equation.c = Unit(s) =>
          /\ s \notin DOMAIN pivots => r.c = Unit(s)
          /\ s \in DOMAIN pivots => \A q \in Seqs : r.c[q] = Add(Unit(s)[q], pivots[s].c[q])

(* That is what elimination and reduction leave.                           *)
LEMMA FreedAndReduced ==
    ASSUME NEW w, PayloadsSound(w), NEW slot \in Slots, NEW known, NEW pivots,
           Solves(slot, known, pivots, DOMAIN w.recovered),
           NEW equation \in SoundRow, Support(equation) \subseteq SlotSpan(slot)
    PROVE  LeftOf(equation, reduce(Freed(w, known, equation), pivots, DOMAIN pivots),
                  slot, known, pivots)
<1> DEFINE u == Freed(w, known, equation)
           r == reduce(u, pivots, DOMAIN pivots)
<1>1. /\ known \subseteq DOMAIN w.recovered /\ DOMAIN pivots \in SUBSET Seqs
      /\ \A p \in DOMAIN pivots : PivotRow(pivots[p], p, Wanted(slot, known), DOMAIN pivots)
  BY DEF Solves
<1>2. /\ u \in SoundRow
      /\ \A q \in Seqs : u.c[q] = IF q \in known THEN Nought ELSE equation.c[q]
  BY <1>1, FreedRow
<1>. HIDE DEF u
<1>3. \A p \in DOMAIN pivots :
         /\ pivots[p] \in SoundRow /\ pivots[p].c[p] = One
         /\ \A q \in DOMAIN pivots \ {p} : pivots[p].c[q] = Nought
         /\ \A q \in Seqs : q \notin Wanted(slot, known) => pivots[p].c[q] = Nought
  <2> SUFFICES ASSUME NEW p \in DOMAIN pivots
               PROVE  /\ pivots[p] \in SoundRow /\ pivots[p].c[p] = One
                      /\ \A q \in DOMAIN pivots \ {p} : pivots[p].c[q] = Nought
                      /\ \A q \in Seqs : q \notin Wanted(slot, known) => pivots[p].c[q] = Nought
    OBVIOUS
  <2>1. PivotRow(pivots[p], p, Wanted(slot, known), DOMAIN pivots) /\ p \in Seqs
    BY <1>1
  <2>2. \A q \in DOMAIN pivots \ {p} : pivots[p].c[q] = Nought
    BY <1>1, <2>1 DEF PivotRow, Support
  <2>. QED  BY <2>1, <2>2 DEF PivotRow, Support
<1>4. /\ r \in SoundRow
      /\ \A p \in DOMAIN pivots : r.c[p] = Nought
      /\ \A q \in Seqs : u.c[q] = Nought /\ (\A p \in DOMAIN pivots : pivots[p].c[q] = Nought)
                            => r.c[q] = Nought
      /\ (\A p \in DOMAIN pivots : u.c[p] = Nought) => \A q \in Seqs : r.c[q] = u.c[q]
      /\ \A s \in DOMAIN pivots :
            u.c[s] = One /\ (\A p \in DOMAIN pivots \ {s} : u.c[p] = Nought)
               => \A q \in Seqs : r.c[q] = Add(u.c[q], pivots[s].c[q])
  BY <1>1, <1>2, <1>3, RowReduced
<1>. HIDE DEF r
<1>5. Support(r) \subseteq Wanted(slot, known)
  <2> SUFFICES ASSUME NEW q \in Seqs, q \notin Wanted(slot, known)
               PROVE  r.c[q] = Nought
    BY DEF Support
  <2>1. u.c[q] = Nought
    BY <1>2 DEF Wanted, Support
  <2>. QED  BY <1>3, <1>4, <2>1
<1>6. Support(r) \cap DOMAIN pivots = {}
  BY <1>4 DEF Support
<1>7. ASSUME NEW s \in Seqs \ known, equation.c = Unit(s)
      PROVE  /\ s \notin DOMAIN pivots => r.c = Unit(s)
             /\ s \in DOMAIN pivots => \A q \in Seqs : r.c[q] = Add(Unit(s)[q], pivots[s].c[q])
  <2>1. Unit(s) \in Vec /\ Unit(s)[s] = One /\ \A q \in Seqs \ {s} : Unit(s)[q] = Nought
    BY UnitVector
  <2>2. \A q \in Seqs : u.c[q] = Unit(s)[q]
    BY <1>2, <1>7, <2>1
  <2>3. ASSUME s \notin DOMAIN pivots
        PROVE  r.c = Unit(s)
    <3>1. \A p \in DOMAIN pivots : u.c[p] = Nought
      BY <1>1, <2>1, <2>2, <2>3
    <3>2. \A q \in Seqs : r.c[q] = Unit(s)[q]
      BY <1>4, <2>2, <3>1
    <3>3. r.c \in Vec
      BY <1>4, SoundRowIsVector
    <3>. QED  BY <2>1, <3>2, <3>3 DEF Vec
  <2>4. ASSUME s \in DOMAIN pivots
        PROVE  \A q \in Seqs : r.c[q] = Add(Unit(s)[q], pivots[s].c[q])
    <3>1. u.c[s] = One /\ \A p \in DOMAIN pivots \ {s} : u.c[p] = Nought
      BY <1>1, <2>1, <2>2
    <3>. QED  BY <1>4, <2>2, <2>4, <3>1
  <2>. QED  BY <2>3, <2>4
<1>8. LeftOf(equation, r, slot, known, pivots)
  BY <1>4, <1>5, <1>6, <1>7 DEF LeftOf
<1>. QED  BY <1>8 DEF r, u

(* The equation for a source that a system wants makes it a unit row.      *)
LEMMA SourceIsFound ==
    ASSUME NEW w, PayloadsSound(w), NEW slot \in Slots, NEW known, NEW pivots,
           Solves(slot, known, pivots, DOMAIN w.recovered),
           NEW equation \in SoundRow, Support(equation) \subseteq SlotSpan(slot),
           NEW s \in Seqs \ known, equation.c = Unit(s)
    PROVE  LET r    == reduce(Freed(w, known, equation), pivots, DOMAIN pivots)
               more == WithPivot(pivots, normalized(r))
           IN  Support(r) # {} /\ s \in DOMAIN more /\ IsUnit(more[s])
<1> DEFINE r    == reduce(Freed(w, known, equation), pivots, DOMAIN pivots)
           row  == normalized(r)
           more == WithPivot(pivots, row)
           columns == Wanted(slot, known)
<1>1. /\ r \in SoundRow /\ Support(r) \subseteq columns
      /\ Support(r) \cap DOMAIN pivots = {}
      /\ s \notin DOMAIN pivots => r.c = Unit(s)
      /\ s \in DOMAIN pivots => \A q \in Seqs : r.c[q] = Add(Unit(s)[q], pivots[s].c[q])
  <2>1. LeftOf(equation, r, slot, known, pivots)
    BY FreedAndReduced
  <2>. HIDE DEF r
  <2>. QED  BY <2>1 DEF LeftOf
<1>. HIDE DEF r
<1>2. /\ DOMAIN pivots \subseteq Seqs
      /\ \A p \in DOMAIN pivots : /\ PivotRow(pivots[p], p, columns, DOMAIN pivots)
                                  /\ Support(pivots[p]) # {p}
  BY DEF Solves
<1>3. /\ Unit(s) \in Vec /\ Unit(s)[s] = One
      /\ \A q \in Seqs \ {s} : Unit(s)[q] = Nought
  BY UnitVector
<1>4. /\ Nought \in Field /\ One \in Field /\ One # Nought
      /\ \A x \in Field : Add(x, Nought) = x /\ Add(Nought, x) = x /\ Add(x, x) = Nought
  BY FieldAssumption
<1>5. Support(r) # {}
  <2>1. CASE s \notin DOMAIN pivots
    BY <1>1, <1>3, <1>4, <2>1 DEF Support
  <2>2. CASE s \in DOMAIN pivots
    <3>1. s \in Support(pivots[s]) /\ Support(pivots[s]) # {s} /\ pivots[s] \in SoundRow
      BY <1>2, <2>2, PivotFacts DEF PivotRow
    <3>2. PICK q \in Seqs \ {s} : pivots[s].c[q] # Nought
      BY <3>1 DEF Support
    <3>3. pivots[s].c[q] \in Field
      BY <3>1, SoundRowIsVector
    <3>4. r.c[q] = Add(Nought, pivots[s].c[q])
      BY <1>1, <1>3, <2>2
    <3>5. r.c[q] # Nought
      BY <1>4, <3>2, <3>3, <3>4
    <3>. QED  BY <3>5 DEF Support
  <2>. QED  BY <2>1, <2>2
<1>6. /\ row \in SoundRow /\ Support(row) = Support(r)
      /\ lead(row) = lead(r) /\ row.c[lead(row)] = One
  BY <1>1, <1>5, NormalizedSound
<1>7. columns \in SUBSET Int
  BY SizeAssumption DEF Wanted, SlotSpan, Slots, Seqs
<1> DEFINE l == lead(row)
<1>. HIDE DEF row, columns
<1>8. /\ DOMAIN more = DOMAIN pivots \cup {l} /\ DOMAIN more \subseteq Seqs
      /\ \A p \in DOMAIN more : PivotRow(more[p], p, columns, DOMAIN more)
      /\ more[l] = row
      /\ \A p \in DOMAIN pivots : \A q \in Seqs :
            more[p].c[q] = Add(pivots[p].c[q], Mul(pivots[p].c[l], row.c[q]))
  BY SMTT(20), <1>1, <1>2, <1>5, <1>6, <1>7, WithPivotSound
<1>. HIDE DEF more, l
<1>9. CASE s \notin DOMAIN pivots
  <2>1. Support(row) = {s}
    BY <1>1, <1>3, <1>4, <1>6, <1>9 DEF Support
  <2>2. l = s
    BY <1>5, <1>6, <2>1, LeadIsLeast DEF l
  <2>3. s \in DOMAIN more /\ PivotRow(more[s], s, columns, DOMAIN more) /\ Support(more[s]) = {s}
    BY <1>8, <2>1, <2>2
  <2>. QED  BY <1>5, <2>3, PivotFacts DEF r, more, row
<1>10. CASE s \in DOMAIN pivots
  <2>1. l \in Seqs /\ l # s /\ r.c[l] # Nought /\ r.c[l] \in Field
    <3>1. l \in Support(r) /\ s \notin Support(r)
      BY <1>1, <1>5, <1>6, <1>10, LeadIsLeast DEF l
    <3>2. l \in Seqs /\ r.c[l] # Nought
      BY <3>1 DEF Support
    <3>. QED  BY <1>1, <3>1, <3>2, SoundRowIsVector
  <2>2. \A q \in Seqs : pivots[s].c[q] \in Field /\ r.c[q] \in Field /\ Unit(s)[q] \in Field
    BY <1>1, <1>2, <1>3, <1>10, SoundRowIsVector DEF PivotRow, Vec
  <2>3. pivots[s].c[l] = r.c[l]
    BY <1>1, <1>3, <1>4, <1>10, <2>1, <2>2
  <2>4. \A q \in Seqs : Mul(r.c[l], row.c[q]) = r.c[q]
    <3> SUFFICES ASSUME NEW q \in Seqs
                 PROVE  Mul(r.c[l], row.c[q]) = r.c[q]
      OBVIOUS
    <3> DEFINE f == Inv(r.c[l])
    <3>1. row.c = mul_acc(Zero, f, r.c)
      BY <1>6 DEF row, normalized, scale, l
    <3>2. row.c[q] = Add(Nought, Mul(f, r.c[q]))
      BY <3>1 DEF mul_acc, Zero
    <3>3. f \in Field /\ Mul(r.c[l], f) = One
      BY <2>1, FieldAssumption
    <3>. HIDE DEF f
    <3>4. Mul(f, r.c[q]) \in Field
      BY <2>2, <3>3, FieldAssumption
    <3>5. row.c[q] = Mul(f, r.c[q])
      BY <1>4, <3>2, <3>4
    <3>6. Mul(r.c[l], Mul(f, r.c[q])) = Mul(Mul(r.c[l], f), r.c[q])
      <4>1. \A a, b, c \in Field : Mul(a, Mul(b, c)) = Mul(Mul(a, b), c)
        BY FieldAssumption
      <4>2. r.c[l] \in Field /\ r.c[q] \in Field
        BY <2>1, <2>2
      <4>. QED  BY <3>3, <4>1, <4>2
    <3>7. Mul(One, r.c[q]) = r.c[q]
      <4>1. Mul(One, r.c[q]) = Mul(r.c[q], One) /\ Mul(r.c[q], One) = r.c[q]
        BY <1>4, <2>2, FieldAssumption
      <4>. QED  BY <4>1
    <3>. QED  BY <3>3, <3>5, <3>6, <3>7
  <2>5. \A q \in Seqs : more[s].c[q] = Unit(s)[q]
    <3> SUFFICES ASSUME NEW q \in Seqs
                 PROVE  more[s].c[q] = Unit(s)[q]
      OBVIOUS
    <3>1. more[s].c[q] = Add(pivots[s].c[q], r.c[q])
      BY <1>8, <1>10, <2>3, <2>4
    <3>2. r.c[q] = Add(Unit(s)[q], pivots[s].c[q])
      BY <1>1, <1>10
    <3>3. \A x, y \in Field : Add(x, Add(y, x)) = y
      <4> SUFFICES ASSUME NEW x \in Field, NEW y \in Field
                   PROVE  Add(x, Add(y, x)) = y
        OBVIOUS
      <4>1. Add(x, Add(y, x)) = Add(x, Add(x, y)) /\ Add(x, Add(x, y)) = Add(Add(x, x), y)
        BY FieldAssumption
      <4>. QED  BY <1>4, <4>1
    <3>. QED  BY <2>2, <3>1, <3>2, <3>3
  <2>6. Support(more[s]) = {s}
    BY <1>3, <1>4, <2>5 DEF Support
  <2>7. s \in DOMAIN more /\ PivotRow(more[s], s, columns, DOMAIN more)
    BY <1>8, <1>10
  <2>. QED  BY <1>5, <2>6, <2>7, PivotFacts DEF r, more, row
<1>. QED  BY <1>9, <1>10

-----------------------------------------------------------------------------
(***************************************************************************)
(* insert_equation.                                                        *)
(***************************************************************************)
IsStore(w) == w = [gens |-> w.gens, recovered |-> w.recovered, out |-> w.out]

(* What a call makes of the store w: nothing known is forgotten, what is   *)
(* found is put out, and no system falls behind the others by more.        *)
Extends(v, w) ==
    /\ IsStore(v) /\ StoreSound(v)
    /\ DOMAIN w.recovered \subseteq DOMAIN v.recovered
    /\ v.out = DOMAIN v.recovered \ DOMAIN w.recovered
    /\ DOMAIN w.gens \subseteq DOMAIN v.gens
    /\ \A slot \in DOMAIN v.gens : ~v.gens[slot].done =>
          /\ slot \notin DOMAIN w.gens => Untold(v, slot) \subseteq v.out
          /\ slot \in DOMAIN w.gens => /\ ~w.gens[slot].done
                                       /\ w.gens[slot].known \subseteq v.gens[slot].known
                                       /\ Untold(v, slot) \subseteq Untold(w, slot) \cup v.out

(* A system knows the source s, or has solved everything.                  *)
Heard(v, slot, s) ==
    slot \in DOMAIN v.gens => v.gens[slot].done \/ s \in v.gens[slot].known

(* What is found elsewhere leaves a system as it was.                      *)
LEMMA FoundMore ==
    ASSUME NEW slot, NEW system, NEW found, NEW more, found \subseteq more,
           SystemSound(slot, system, found)
    PROVE  SystemSound(slot, system, more)
BY DEF SystemSound, Solves

(* The system an equation is for, as the call finds it.                    *)
LEMMA SystemFacts ==
    ASSUME NEW w, StoreSound(w), NEW slot \in Slots
    PROVE  LET system == SystemOf(w, slot)
           IN  /\ system.done \in BOOLEAN
               /\ slot \in DOMAIN w.gens => system = w.gens[slot]
               /\ slot \notin DOMAIN w.gens => /\ ~system.done
                                               /\ system.known = SlotSpan(slot) \cap DOMAIN w.recovered
               /\ ~system.done /\ ~(slot \notin DOMAIN w.gens /\ system.known = SlotSpan(slot)) =>
                     Solves(slot, system.known, system.pivots, DOMAIN w.recovered)
<1>1. CASE slot \in DOMAIN w.gens
  BY <1>1 DEF SystemOf, StoreSound, SystemSound
<1>2. CASE slot \notin DOMAIN w.gens
  <2>1. SystemOf(w, slot) = Solving(SlotSpan(slot) \cap DOMAIN w.recovered, <<>>)
    BY <1>2 DEF SystemOf, fresh
  <2>2. DOMAIN <<>> = {}
    OBVIOUS
  <2>. QED  BY <1>2, <2>1, <2>2 DEF Solving, Solves
<1>. QED  BY <1>1, <1>2

(* insert_equation, with an equation over the system's span that holds.    *)
LEMMA InsertEquation ==
    ASSUME NEW w, IsStore(w), StoreSound(w), NEW slot \in Slots,
           NEW equation \in SoundRow, Support(equation) \subseteq SlotSpan(slot)
    PROVE  /\ Extends(insert_equation(w, slot, equation), w)
           /\ DOMAIN insert_equation(w, slot, equation).gens \subseteq DOMAIN w.gens \cup {slot}
           /\ \A s \in Seqs : slot \in DOMAIN w.gens /\ equation.c = Unit(s) =>
                 Heard(insert_equation(w, slot, equation), slot, s)
<1> DEFINE system  == SystemOf(w, slot)
           reduced == reduce(Freed(w, system.known, equation), system.pivots, DOMAIN system.pivots)
           pivots  == WithPivot(system.pivots, normalized(reduced))
           units   == {p \in DOMAIN pivots : IsUnit(pivots[p])}
           found   == [p \in units \ DOMAIN w.recovered |-> pivots[p].d]
           settled == Settled(slot, system.known \cup units, Restrict(pivots, DOMAIN pivots \ units))
           idle    == system.done \/ (slot \notin DOMAIN w.gens /\ system.known = SlotSpan(slot))
           v == insert_equation(w, slot, equation)
<1>1. /\ system.done \in BOOLEAN
      /\ slot \in DOMAIN w.gens => system = w.gens[slot]
      /\ slot \notin DOMAIN w.gens => ~system.done /\ system.known = SlotSpan(slot) \cap DOMAIN w.recovered
      /\ ~idle => Solves(slot, system.known, system.pivots, DOMAIN w.recovered)
  <2>. HIDE DEF system
  <2>. QED  BY SMTT(20), SystemFacts DEF system
<1>2. /\ idle => v = [w EXCEPT !.out = {}]
      /\ ~idle /\ Support(reduced) = {} =>
            v = [w EXCEPT !.gens = insert(w.gens, slot, system), !.out = {}]
      /\ ~idle /\ Support(reduced) # {} =>
            v = [gens      |-> insert(w.gens, slot, settled),
                 recovered |-> [s \in DOMAIN w.recovered \cup DOMAIN found |->
                                  IF s \in DOMAIN found THEN found[s] ELSE w.recovered[s]],
                 out       |-> DOMAIN found]
  BY DEF insert_equation, Freed
<1>. HIDE DEF system, reduced, pivots, units, found, settled, v
<1>3. /\ PayloadsSound(w) /\ DOMAIN w.gens \subseteq Slots
      /\ \A other \in DOMAIN w.gens : SystemSound(other, w.gens[other], DOMAIN w.recovered)
  BY DEF StoreSound
<1>4. CASE idle
  <2>1. v.gens = w.gens /\ v.recovered = w.recovered /\ v.out = {} /\ IsStore(v)
    BY <1>2, <1>4 DEF IsStore
  <2>2. StoreSound(v) /\ \A other : Untold(v, other) = Untold(w, other)
    BY <1>3, <2>1 DEF StoreSound, PayloadsSound, Untold
  <2>3. Extends(v, w)
    BY <2>1, <2>2 DEF Extends
  <2>4. slot \in DOMAIN w.gens => v.gens[slot].done
    BY <1>1, <1>4, <2>1
  <2>. QED  BY <2>1, <2>3, <2>4 DEF Heard, v
<1>5. CASE ~idle /\ Support(reduced) = {}
  <2>1. /\ v.gens = insert(w.gens, slot, system) /\ v.recovered = w.recovered /\ v.out = {}
        /\ IsStore(v)
    BY <1>2, <1>5 DEF IsStore
  <2>2. /\ DOMAIN v.gens = DOMAIN w.gens \cup {slot} /\ v.gens[slot] = system
        /\ \A other \in DOMAIN w.gens : v.gens[other] = w.gens[other]
    BY <1>1, <2>1 DEF insert
  <2>3. SystemSound(slot, system, DOMAIN w.recovered)
    BY <1>1, <1>5 DEF SystemSound
  <2>4. StoreSound(v)
    BY <1>3, <2>1, <2>2, <2>3 DEF StoreSound, PayloadsSound
  <2>5. \A other \in DOMAIN w.gens : Untold(v, other) = Untold(w, other)
    BY <2>1, <2>2 DEF Untold
  <2>6. slot \notin DOMAIN w.gens => Untold(v, slot) = {}
    BY <1>1, <2>1, <2>2 DEF Untold
  <2>7. Extends(v, w)
    BY <2>1, <2>2, <2>4, <2>5, <2>6 DEF Extends
  <2>8. ASSUME NEW s \in Seqs, slot \in DOMAIN w.gens, equation.c = Unit(s)
        PROVE  s \in v.gens[slot].known
    <3> SUFFICES ASSUME s \notin system.known
                 PROVE  FALSE
      BY <2>2
    <3>1. s \in Seqs \ system.known
      OBVIOUS
    <3>2. Solves(slot, system.known, system.pivots, DOMAIN w.recovered) /\ PayloadsSound(w)
      BY <1>1, <1>3, <1>5
    <3>3. Support(reduced) # {}
      <4>. HIDE DEF idle
      <4>. QED  BY <2>8, <3>1, <3>2, SourceIsFound DEF reduced
    <3>. QED  BY <1>5, <3>3
  <2>. QED  BY <2>2, <2>7, <2>8 DEF Heard, v
<1>6. CASE ~idle /\ Support(reduced) # {}
  <2>1. LeftOf(equation, reduced, slot, system.known, system.pivots)
    BY <1>1, <1>3, <1>6, FreedAndReduced DEF reduced
  <2>2. /\ units \subseteq Seqs /\ units \subseteq SlotSpan(slot)
        /\ \A p \in units : pivots[p].d = Unit(p)
        /\ SystemSound(slot, settled, DOMAIN w.recovered \cup units)
        /\ ~settled.done => settled.known = system.known \cup units
    <3>1. DOMAIN w.recovered \subseteq Seqs
      BY <1>3 DEF PayloadsSound
    <3>2. /\ reduced \in SoundRow /\ Support(reduced) \subseteq Wanted(slot, system.known)
          /\ Support(reduced) \cap DOMAIN system.pivots = {}
      BY <2>1 DEF LeftOf
    <3>3. UnitsSettle(slot, system.known, pivots, DOMAIN w.recovered)
      BY <1>1, <1>6, <3>1, <3>2, NewPivot DEF pivots
    <3>. QED  BY <3>3 DEF UnitsSettle, units, settled
  <2>3. DOMAIN found = units \ DOMAIN w.recovered /\ \A s \in DOMAIN found : found[s] = Unit(s)
    BY <2>2 DEF found
  <2>4. /\ v.gens = insert(w.gens, slot, settled) /\ v.out = units \ DOMAIN w.recovered
        /\ v.recovered = [s \in DOMAIN w.recovered \cup DOMAIN found |->
                             IF s \in DOMAIN found THEN found[s] ELSE w.recovered[s]]
        /\ IsStore(v)
    BY <1>2, <1>6, <2>3 DEF IsStore
  <2>5. /\ DOMAIN v.gens = DOMAIN w.gens \cup {slot} /\ v.gens[slot] = settled
        /\ \A other \in DOMAIN w.gens \ {slot} : v.gens[other] = w.gens[other]
    BY <2>4 DEF insert
  <2>6. DOMAIN v.recovered = DOMAIN w.recovered \cup units
    BY <2>3, <2>4
  <2>7. PayloadsSound(v)
    <3>1. \A s \in DOMAIN v.recovered : v.recovered[s] = Unit(s)
      BY <1>3, <2>3, <2>4 DEF PayloadsSound
    <3>. QED  BY <1>3, <2>2, <2>6, <3>1 DEF PayloadsSound
  <2>8. ASSUME NEW other \in DOMAIN w.gens \ {slot}
        PROVE  SystemSound(other, v.gens[other], DOMAIN v.recovered)
    BY <1>3, <2>5, <2>6, FoundMore
  <2>9. StoreSound(v)
    BY <1>3, <2>2, <2>5, <2>6, <2>7, <2>8 DEF StoreSound
  <2>10. \A other \in DOMAIN w.gens \ {slot} : Untold(v, other) \subseteq Untold(w, other) \cup v.out
    BY <2>4, <2>5, <2>6 DEF Untold
  <2>11. ~settled.done =>
            Untold(v, slot) = ((SlotSpan(slot) \cap DOMAIN w.recovered) \ system.known) \ units
    BY <2>2, <2>5, <2>6 DEF Untold
  <2>12. ~settled.done /\ slot \in DOMAIN w.gens =>
            /\ ~w.gens[slot].done /\ w.gens[slot].known \subseteq settled.known
            /\ Untold(v, slot) \subseteq Untold(w, slot)
    BY <1>1, <1>6, <2>2, <2>11 DEF Untold
  <2>13. ~settled.done /\ slot \notin DOMAIN w.gens => Untold(v, slot) = {}
    BY <1>1, <2>11
  <2>14. Extends(v, w)
    <3>1. \A other \in DOMAIN v.gens : ~v.gens[other].done =>
          /\ other \notin DOMAIN w.gens => Untold(v, other) \subseteq v.out
          /\ other \in DOMAIN w.gens => /\ ~w.gens[other].done
                                       /\ w.gens[other].known \subseteq v.gens[other].known
                                       /\ Untold(v, other) \subseteq Untold(w, other) \cup v.out
      BY <2>5, <2>10, <2>12, <2>13
    <3>. QED  BY <2>4, <2>5, <2>6, <2>9, <3>1 DEF Extends
  <2>15. ASSUME NEW s \in Seqs, slot \in DOMAIN w.gens, equation.c = Unit(s)
         PROVE  Heard(v, slot, s)
    <3>1. s \notin system.known => s \in units
      BY <1>1, <1>3, <1>6, <2>15, SourceIsFound DEF reduced, pivots, units
    <3>. QED  BY <2>2, <2>5, <3>1 DEF Heard
  <2>. QED  BY <2>5, <2>14, <2>15 DEF v
<1>. QED  BY <1>4, <1>5, <1>6

-----------------------------------------------------------------------------
(***************************************************************************)
(* A source told to the systems over it, in the order of their keys.       *)
(***************************************************************************)

(* The order of the keys is a strict total one.                            *)
LEMMA KeysOrdered ==
    ASSUME NEW a \in Slots, NEW b \in Slots
    PROVE  /\ ~KeyOrder(a, a) /\ (KeyOrder(a, b) => ~KeyOrder(b, a))
           /\ a = b \/ KeyOrder(a, b) \/ KeyOrder(b, a)
           /\ \A c \in Slots : KeyOrder(a, b) /\ KeyOrder(b, c) => KeyOrder(a, c)
<1>1. \A x \in Slots : x = <<x[1], x[2]>> /\ x[1] \in Int /\ x[2] \in Int
  BY SizeAssumption DEF Slots, Seqs
<1>2. a = <<a[1], a[2]>> /\ b = <<b[1], b[2]>>
      /\ a[1] \in Int /\ a[2] \in Int /\ b[1] \in Int /\ b[2] \in Int
  BY <1>1
<1>3. ~KeyOrder(a, a) /\ (KeyOrder(a, b) => ~KeyOrder(b, a))
  BY <1>2 DEF KeyOrder
<1>4. a = b \/ KeyOrder(a, b) \/ KeyOrder(b, a)
  <2>1. a[1] = b[1] /\ a[2] = b[2] => a = b
    BY <1>2
  <2>2. ~(a[1] = b[1] /\ a[2] = b[2]) => KeyOrder(a, b) \/ KeyOrder(b, a)
    BY <1>2 DEF KeyOrder
  <2>. QED  BY <2>1, <2>2
<1>5. ASSUME NEW c \in Slots, KeyOrder(a, b), KeyOrder(b, c)
      PROVE  KeyOrder(a, c)
  <2>1. c[1] \in Int /\ c[2] \in Int
    BY <1>1
  <2>. QED  BY <1>2, <1>5, <2>1 DEF KeyOrder
<1>. QED  BY <1>3, <1>4, <1>5

(* Every system of a set has a place of its own, and is in it.             *)
LEMMA KeysEnumerated ==
    ASSUME NEW S \in SUBSET Slots
    PROVE  /\ Cardinality(S) \in Nat
           /\ InKeyOrder(S) \in [1 .. Cardinality(S) -> S]
           /\ \A slot \in S : \E k \in 1 .. Cardinality(S) : InKeyOrder(S)[k] = slot
<1> DEFINE Up(s) == {other \in S : other = s \/ KeyOrder(other, s)}
           n == Cardinality(S)
           place == [s \in S |-> Place(S, s)]
<1>1. IsFiniteSet(S) /\ n \in Nat
  <2>1. IsFiniteSet(Seqs) /\ IsFiniteSet(1 .. N)
    BY SizeAssumption, FS_Interval DEF Seqs
  <2>2. IsFiniteSet(Slots)
    BY <2>1, FS_Product DEF Slots
  <2>. QED  BY <2>2, FS_Subset, FS_CardinalityType
<1>2. ASSUME NEW s \in S
      PROVE  IsFiniteSet(Up(s)) /\ Cardinality(Up(s)) \in 1 .. n
  <2>1. IsFiniteSet(Up(s)) /\ Cardinality(Up(s)) <= n
    BY <1>1, FS_Subset
  <2>2. s \in Up(s)
    OBVIOUS
  <2>3. Cardinality(Up(s)) \in Nat /\ Cardinality(Up(s)) # 0
    BY <2>1, <2>2, FS_CardinalityType, FS_EmptySet
  <2>. HIDE DEF Up, n
  <2>. QED  BY <1>1, <2>1, <2>3
<1>3. ASSUME NEW s \in S, NEW t \in S, KeyOrder(s, t)
      PROVE  Cardinality(Up(s)) # Cardinality(Up(t))
  <2>1. Up(s) \in SUBSET Up(t) /\ t \in Up(t) /\ t \notin Up(s)
    <3>1. s \in Slots /\ t \in Slots /\ \A q \in S : q \in Slots
      OBVIOUS
    <3>2. \A q \in S : KeyOrder(q, s) => KeyOrder(q, t)
      BY <1>3, <3>1, KeysOrdered
    <3>3. t # s /\ ~KeyOrder(t, s)
      BY <1>3, <3>1, KeysOrdered
    <3>. QED  BY <1>3, <3>2, <3>3
  <2>2. IsFiniteSet(Up(t))
    BY <1>2
  <2>. HIDE DEF Up
  <2>. QED  BY <2>1, <2>2, FS_Subset
<1>4. \A s : Place(S, s) = Cardinality(Up(s))
  BY DEF Place
<1>. HIDE DEF Up, n
<1>5. place \in [S -> 1 .. n]
  BY <1>2, <1>4
<1>6. \A s, t \in S : place[s] = place[t] => s = t
  <2> SUFFICES ASSUME NEW s \in S, NEW t \in S, s # t
               PROVE  Cardinality(Up(s)) # Cardinality(Up(t))
    BY <1>4
  <2>1. KeyOrder(s, t) \/ KeyOrder(t, s)
    BY KeysOrdered
  <2>. QED  BY <1>3, <2>1
<1>7. place \in Injection(S, 1 .. n)
  BY <1>5, <1>6 DEF Injection, IsInjective
<1>8. \A k \in 1 .. n : \E s \in S : Place(S, s) = k
  <2>1. IsFiniteSet(1 .. n) /\ Cardinality(1 .. n) = n
    BY <1>1, FS_Interval
  <2>2. place \in Surjection(S, 1 .. n)
    BY <1>1, <1>7, <2>1, FS_Injection DEF n
  <2>. QED  BY <2>2 DEF Surjection
<1>9. \A k \in 1 .. n : InKeyOrder(S)[k] \in S /\ Place(S, InKeyOrder(S)[k]) = k
  BY <1>8 DEF InKeyOrder, n
<1>10. InKeyOrder(S) \in [1 .. n -> S]
  BY <1>9 DEF InKeyOrder, n
<1>11. ASSUME NEW s \in S
       PROVE  \E k \in 1 .. n : InKeyOrder(S)[k] = s
  <2>1. place[s] \in 1 .. n
    BY <1>5
  <2>2. /\ InKeyOrder(S)[place[s]] \in S
        /\ place[InKeyOrder(S)[place[s]]] = place[s]
    BY <1>9, <2>1
  <2>3. InKeyOrder(S)[place[s]] = s
    BY <1>6, <2>2
  <2>. QED  BY <2>1, <2>3
<1>. QED  BY <1>1, <1>10, <1>11 DEF n

(* The stores an injection goes through, system by system.                 *)
InjectionOf(st, w, seq, data) ==
    /\ st[0] = [w EXCEPT !.out = {}]
    /\ \A k \in 1 .. Cardinality(covering(w, seq)) :
          st[k] = hear(st[k - 1], InKeyOrder(covering(w, seq))[k], seq, data)
    /\ inject(w, seq, data) = st[Cardinality(covering(w, seq))]

(* An injection does go through such stores.                               *)
LEMMA InjectSteps ==
    ASSUME NEW w, NEW seq, NEW data, covering(w, seq) \in SUBSET Slots
    PROVE  \E st : InjectionOf(st, w, seq, data)
<1> DEFINE slots == InKeyOrder(covering(w, seq))
           n == Cardinality(covering(w, seq))
           base == [w EXCEPT !.out = {}]
           Sub(k) == {s \in SUBSET (1 .. n) : Cardinality(s) <= k}
           By(f, k) == f = [s \in Sub(k) |-> IF s = {} THEN base
                                             ELSE hear(f[s \ {Max(s)}], slots[Max(s)], seq, data)]
           S == {k \in 0 .. n : \E f : By(f, k)}
           Eq(f) == f = [s \in SUBSET (1 .. n) |-> IF s = {} THEN base
                                      ELSE hear(f[s \ {Max(s)}], slots[Max(s)], seq, data)]
           iter == CHOOSE f : Eq(f)
           st == [k \in 0 .. n |-> iter[1 .. k]]
<1>1. n \in Nat /\ DOMAIN slots = 1 .. n
  BY KeysEnumerated
<1>2. inject(w, seq, data)
         = (CHOOSE f : f = [s \in SUBSET (DOMAIN slots) |-> IF s = {} THEN base
                              ELSE hear(f[s \ {Max(s)}], slots[Max(s)], seq, data)])[DOMAIN slots]
  BY DEF inject, FoldLeft, MapThenFoldSet
<1>. HIDE DEF n, slots, base
<1>3. inject(w, seq, data) = iter[1 .. n]
  BY <1>1, <1>2
<1>4. \A s : Max(s) = Greatest(s)
  BY DEF Max, Greatest
<1>5. \A s \in SUBSET (1 .. n) : Cardinality(s) \in 0 .. n
  BY <1>1, PositionsCount
<1>6. 0 \in S
  <2>1. \A s \in Sub(0) : s = {}
    <3> SUFFICES ASSUME NEW s \in Sub(0), s # {}
                 PROVE  FALSE
      OBVIOUS
    <3>1. /\ s \ {Greatest(s)} \in SUBSET (1 .. n)
          /\ Cardinality(s \ {Greatest(s)}) = Cardinality(s) - 1
      BY <1>1, PositionsCount
    <3>2. Cardinality(s \ {Greatest(s)}) \in 0 .. n /\ Cardinality(s) \in 0 .. n
      BY <1>5, <3>1
    <3>. QED  BY <3>1, <3>2
  <2>2. By([s \in Sub(0) |-> base], 0)
    BY <2>1
  <2>3. 0 \in 0 .. n
    BY <1>1
  <2>. HIDE DEF By
  <2>. QED  BY <2>2, <2>3
<1>7. ASSUME NEW k \in 0 .. n - 1, k \in S
      PROVE  k + 1 \in S
  <2>1. PICK h : By(h, k)
    BY <1>7
  <2> DEFINE more == [s \in Sub(k + 1) |->
                        IF s = {} THEN base
                        ELSE hear(h[s \ {Max(s)}], slots[Max(s)], seq, data)]
  <2>2. ASSUME NEW s \in Sub(k + 1), s # {}
        PROVE  s \ {Max(s)} \in Sub(k) /\ s \ {Max(s)} \in Sub(k + 1)
    <3>1. /\ s \ {Max(s)} \in SUBSET (1 .. n) /\ Cardinality(s) <= k + 1
          /\ Cardinality(s \ {Max(s)}) = Cardinality(s) - 1
      BY <1>1, <1>4, <2>2, PositionsCount
    <3>2. Cardinality(s) \in Int /\ k \in Int
      BY <1>1, <1>5
    <3>. QED  BY <3>1, <3>2
  <2>. HIDE DEF Sub
  <2>3. \A s \in Sub(k + 1) : s \in Sub(k) => more[s] = h[s]
    BY <2>1
  <2>4. By(more, k + 1)
    BY <2>2, <2>3
  <2>5. k + 1 \in 0 .. n
    BY <1>1
  <2>. HIDE DEF more, By
  <2>. QED  BY <2>4, <2>5
<1>. HIDE DEF S
<1>8. n \in S
  <2>1. n \in 0 .. n
    BY <1>1
  <2>2. 0 .. n \subseteq S
    BY <1>1, <1>6, <1>7, IntervalInduction
  <2>. QED  BY <2>1, <2>2
<1>9. \E f : Eq(f)
  <2>1. PICK f : By(f, n)
    BY <1>8 DEF S
  <2>2. Sub(n) = SUBSET (1 .. n)
    BY <1>5
  <2>. QED  BY <2>1, <2>2
<1>10. Eq(iter)
  BY <1>9
<1>. HIDE DEF iter
<1>11. iter[1 .. 0] = base
  BY <1>10
<1>12. ASSUME NEW k \in 1 .. n
       PROVE  iter[1 .. k] = hear(iter[1 .. k - 1], slots[k], seq, data)
  <2>1. /\ 1 .. k \in SUBSET (1 .. n) /\ 1 .. k # {}
        /\ Greatest(1 .. k) = k /\ (1 .. k) \ {k} = 1 .. k - 1
    BY <1>1, IntervalTop
  <2>2. Max(1 .. k) = k
    BY <2>1, <1>4
  <2>. QED  BY <1>10, <2>1, <2>2
<1>13. st[0] = base /\ st[n] = iter[1 .. n]
  BY <1>1, <1>11
<1>14. \A k \in 1 .. n : st[k] = hear(st[k - 1], slots[k], seq, data)
  BY <1>1, <1>12
<1>. HIDE DEF st
<1>. QED  BY <1>3, <1>13, <1>14 DEF n, slots, base, InjectionOf

(* One system hears of a source: of the stores before, w is the first.     *)
LEMMA HearKeeps ==
    ASSUME NEW w, NEW v, IsStore(v), Extends(v, w), DOMAIN v.gens = DOMAIN w.gens,
           NEW slot \in DOMAIN w.gens, NEW s \in Seqs, s \in SlotSpan(slot)
    PROVE  LET u == hear(v, slot, s, Unit(s))
           IN  /\ Extends(u, w) /\ DOMAIN u.gens = DOMAIN w.gens /\ Heard(u, slot, s)
               /\ \A other \in DOMAIN w.gens : Heard(v, other, s) => Heard(u, other, s)
<1> DEFINE equation == [c |-> Unit(s), d |-> Unit(s)]
           done == insert_equation(v, slot, equation)
           u == hear(v, slot, s, Unit(s))
<1>1. /\ equation \in SoundRow /\ equation.c = Unit(s)
      /\ Support(equation) \subseteq SlotSpan(slot)
  <2>1. Unit(s) \in Vec /\ \A q \in Seqs \ {s} : Unit(s)[q] = Nought
    BY UnitVector
  <2>. QED  BY <2>1, VectorIsSoundRow DEF Support
<1>2. StoreSound(v) /\ slot \in Slots /\ slot \in DOMAIN v.gens
  BY DEF Extends, StoreSound
<1>. HIDE DEF equation
<1>3. /\ Extends(done, v) /\ DOMAIN done.gens \subseteq DOMAIN v.gens \cup {slot}
      /\ Heard(done, slot, s)
  BY <1>1, <1>2, InsertEquation
<1>4. u = [done EXCEPT !.out = @ \cup v.out]
  BY DEF hear, equation
<1>. HIDE DEF done, u
<1>5. /\ IsStore(done)
      /\ u.gens = done.gens /\ u.recovered = done.recovered /\ u.out = done.out \cup v.out
  BY <1>3, <1>4 DEF Extends, IsStore
<1>6. IsStore(u)
  BY <1>4, <1>5 DEF IsStore
<1>7. StoreSound(u) /\ \A other : Untold(u, other) = Untold(done, other)
  BY <1>3, <1>5 DEF Extends, StoreSound, PayloadsSound, Untold
<1>8. DOMAIN u.gens = DOMAIN w.gens
  <2>1. DOMAIN v.gens \subseteq DOMAIN done.gens /\ DOMAIN v.gens = DOMAIN w.gens
    BY <1>3 DEF Extends
  <2>2. DOMAIN u.gens = DOMAIN done.gens
    BY <1>5
  <2>. QED  BY <1>2, <1>3, <2>1, <2>2
<1>9. /\ DOMAIN w.recovered \subseteq DOMAIN u.recovered
      /\ u.out = DOMAIN u.recovered \ DOMAIN w.recovered
  <2> DEFINE before == DOMAIN w.recovered
             between == DOMAIN v.recovered
             after == DOMAIN u.recovered
  <2>1. before \subseteq between /\ v.out = between \ before
    BY DEF Extends
  <2>2. between \subseteq after /\ done.out = after \ between
    BY <1>3, <1>5 DEF Extends
  <2>3. u.out = done.out \cup v.out
    BY <1>5
  <2>. HIDE DEF before, between, after
  <2>4. before \subseteq after /\ u.out = after \ before
    BY <2>1, <2>2, <2>3
  <2>. QED  BY <2>4 DEF before, after
<1>10. ASSUME NEW other \in DOMAIN w.gens, ~u.gens[other].done
       PROVE  /\ ~w.gens[other].done /\ w.gens[other].known \subseteq u.gens[other].known
              /\ ~v.gens[other].done /\ v.gens[other].known \subseteq u.gens[other].known
              /\ Untold(u, other) \subseteq Untold(w, other) \cup u.out
  <2>1. /\ ~v.gens[other].done /\ v.gens[other].known \subseteq u.gens[other].known
        /\ Untold(u, other) \subseteq Untold(v, other) \cup done.out
    BY <1>3, <1>5, <1>7, <1>8, <1>10 DEF Extends
  <2>2. /\ ~w.gens[other].done /\ w.gens[other].known \subseteq v.gens[other].known
        /\ Untold(v, other) \subseteq Untold(w, other) \cup v.out
    BY <2>1 DEF Extends
  <2>. QED  BY <1>5, <2>1, <2>2
<1>11. Extends(u, w)
  BY <1>6, <1>7, <1>8, <1>9, <1>10 DEF Extends
<1>12. Heard(u, slot, s)
  BY <1>3, <1>5 DEF Heard
<1>13. \A other \in DOMAIN w.gens : Heard(v, other, s) => Heard(u, other, s)
  BY <1>8, <1>10 DEF Heard
<1>. QED  BY <1>8, <1>11, <1>12, <1>13 DEF u

(* After an injection every system over the source knows it.               *)
LEMMA Injected ==
    ASSUME NEW w, IsStore(w), StoreSound(w), NEW s \in Seqs
    PROVE  /\ Extends(inject(w, s, Unit(s)), w)
           /\ DOMAIN inject(w, s, Unit(s)).gens = DOMAIN w.gens
           /\ \A slot \in DOMAIN w.gens : s \in SlotSpan(slot) => Heard(inject(w, s, Unit(s)), slot, s)
<1> DEFINE C == covering(w, s)
           n == Cardinality(C)
           slots == InKeyOrder(C)
           v == inject(w, s, Unit(s))
<1>1. C \in SUBSET Slots /\ C \subseteq DOMAIN w.gens /\ \A slot \in C : s \in SlotSpan(slot)
  BY DEF covering, StoreSound
<1>2. n \in Nat /\ slots \in [1 .. n -> C] /\ \A slot \in C : \E k \in 1 .. n : slots[k] = slot
  BY <1>1, KeysEnumerated
<1>3. PICK st : InjectionOf(st, w, s, Unit(s))
  BY <1>1, InjectSteps
<1>4. /\ st[0] = [w EXCEPT !.out = {}] /\ v = st[n]
      /\ \A k \in 1 .. n : st[k] = hear(st[k - 1], slots[k], s, Unit(s))
  BY <1>3 DEF InjectionOf
<1>5. \A slot \in DOMAIN w.gens : s \in SlotSpan(slot) /\ slot \notin C => Heard(w, slot, s)
  <2>1. \A slot \in DOMAIN w.gens : w.gens[slot].done \in BOOLEAN
    BY DEF StoreSound, SystemSound
  <2>. QED  BY <2>1 DEF covering, Heard
<1>. HIDE DEF C, n, slots, v
<1> DEFINE Good(k) == /\ Extends(st[k], w) /\ DOMAIN st[k].gens = DOMAIN w.gens
                      /\ \A j \in 1 .. k : Heard(st[k], slots[j], s)
                      /\ \A slot \in DOMAIN w.gens : Heard(w, slot, s) => Heard(st[k], slot, s)
           S == {k \in 0 .. n : Good(k)}
<1>6. 0 \in S
  <2>1. /\ st[0].gens = w.gens /\ st[0].recovered = w.recovered /\ st[0].out = {}
        /\ IsStore(st[0])
    BY <1>4 DEF IsStore
  <2>2. StoreSound(st[0]) /\ \A slot : Untold(st[0], slot) = Untold(w, slot)
    BY <2>1 DEF StoreSound, PayloadsSound, Untold
  <2>3. Extends(st[0], w)
    BY <2>1, <2>2 DEF Extends
  <2>4. Good(0)
    BY <2>1, <2>3 DEF Heard
  <2>. QED  BY <1>2, <2>4
<1>7. ASSUME NEW k \in 0 .. n - 1, k \in S
      PROVE  k + 1 \in S
  <2>1. k + 1 \in 1 .. n /\ k + 1 \in 0 .. n /\ (k + 1) - 1 = k /\ Good(k)
    BY <1>2, <1>7
  <2>2. st[k + 1] = hear(st[k], slots[k + 1], s, Unit(s))
    BY <1>4, <2>1
  <2>3. slots[k + 1] \in DOMAIN w.gens /\ s \in SlotSpan(slots[k + 1])
    BY <1>1, <1>2, <2>1
  <2>4. IsStore(st[k])
    BY <2>1 DEF Extends
  <2>5. /\ Extends(st[k + 1], w) /\ DOMAIN st[k + 1].gens = DOMAIN w.gens
        /\ Heard(st[k + 1], slots[k + 1], s)
        /\ \A other \in DOMAIN w.gens : Heard(st[k], other, s) => Heard(st[k + 1], other, s)
    BY <2>1, <2>2, <2>3, <2>4, HearKeeps
  <2>6. \A j \in 1 .. k : j \in 1 .. n /\ slots[j] \in DOMAIN w.gens
    BY <1>1, <1>2, <2>1
  <2>7. \A j \in 1 .. k + 1 : j = k + 1 \/ j \in 1 .. k
    BY <2>1
  <2>8. Good(k + 1)
    BY <2>1, <2>5, <2>6, <2>7
  <2>. QED  BY <2>1, <2>8
<1>8. Good(n)
  <2>. HIDE DEF S
  <2>1. 0 .. n \subseteq S
    BY <1>2, <1>6, <1>7, IntervalInduction
  <2>2. n \in 0 .. n
    BY <1>2
  <2>. QED  BY <2>1, <2>2 DEF S
<1>9. \A slot \in DOMAIN w.gens : s \in SlotSpan(slot) => Heard(v, slot, s)
  <2> SUFFICES ASSUME NEW slot \in DOMAIN w.gens, s \in SlotSpan(slot)
               PROVE  Heard(v, slot, s)
    OBVIOUS
  <2>1. CASE slot \in C
    BY <1>2, <1>4, <1>8, <2>1
  <2>2. CASE slot \notin C
    BY <1>4, <1>5, <1>8, <2>2
  <2>. QED  BY <2>1, <2>2
<1>. QED  BY <1>4, <1>8, <1>9 DEF v
-----------------------------------------------------------------------------
(***************************************************************************)
(* The inductive invariant.                                                *)
(***************************************************************************)
EncoderSound ==
    /\ systematic \in BOOLEAN
    /\ next_seq \in 0 .. MaxSources
    /\ base_gen \in Nat /\ code_base \in Nat
    /\ coded_index \in 0 .. MaxRepairs

(* A symbol carries what its description says.                             *)
SoundSymbol(symbol) ==
    /\ symbol.start \in Seqs /\ symbol.is_repair \in BOOLEAN
    /\ ~symbol.is_repair => symbol.data = Unit(symbol.start)
    /\ symbol.is_repair =>
          /\ symbol.count \in 1 .. N /\ symbol.coded \in 1 .. symbol.count
          /\ symbol.index \in 0 .. MaxRepairs - 1
          /\ symbol.data = Coefs(symbol.start, symbol.count, symbol.index, symbol.coded)

WireSound == \A symbol \in wire : SoundSymbol(symbol)

(* What was handed over is in the store, or lies below the floor.          *)
Once ==
    /\ given \in [Seqs -> 0 .. 1]
    /\ \A s \in Seqs : given[s] = 1 => s \in DOMAIN recovered \/ s < floor

(* Between two steps of a call the queue has all that is still to be told. *)
DecoderSound ==
    /\ floor \in Nat
    /\ queue \in Seq(Seqs) /\ ToSet(queue) \subseteq DOMAIN recovered
    /\ StoreSound(Store) /\ Told(Store, ToSet(queue))
    /\ Once

IInv == EncoderSound /\ WireSound /\ DecoderSound

-----------------------------------------------------------------------------
(***************************************************************************)
(* The decoder's steps.                                                    *)
(***************************************************************************)

(* The store's parts.                                                      *)
LEMMA StoreFacts ==
    /\ Store.gens = gens /\ Store.recovered = recovered /\ Store.out = {} /\ IsStore(Store)
BY DEF Store, IsStore

(* What a call finds is all that it adds to what is still to be told.      *)
LEMMA ToldMore ==
    ASSUME NEW w, NEW v, NEW pending, Extends(v, w), Told(w, pending)
    PROVE  Told(v, pending \cup v.out)
BY DEF Extends, Told

(* A source every system heard of needs not be told again.                 *)
LEMMA ToldOfOne ==
    ASSUME NEW w, NEW v, NEW pending, NEW s, Extends(v, w), Told(w, pending \cup {s}),
           DOMAIN v.gens = DOMAIN w.gens,
           \A slot \in DOMAIN w.gens : s \in SlotSpan(slot) => Heard(v, slot, s)
    PROVE  Told(v, pending \cup v.out)
<1> SUFFICES ASSUME NEW slot \in DOMAIN v.gens, ~v.gens[slot].done
             PROVE  Untold(v, slot) \subseteq pending \cup v.out
  BY DEF Told
<1>1. Untold(v, slot) \subseteq pending \cup {s} \cup v.out
  BY DEF Extends, Told
<1>2. s \notin Untold(v, slot)
  BY DEF Heard, Untold
<1>. QED  BY <1>1, <1>2

(* A call that ends with the store v.                                      *)
LEMMA OutcomeKeeps ==
    ASSUME NEW v, NEW rest \in Seq(Seqs), NEW extra, IsStore(v), StoreSound(v), DecoderSound,
           DOMAIN recovered \subseteq DOMAIN v.recovered,
           v.out \cup extra \subseteq DOMAIN v.recovered \ DOMAIN recovered,
           ToSet(rest) \subseteq DOMAIN v.recovered, Told(v, ToSet(rest) \cup v.out),
           Outcome(v, rest, extra), floor' = floor
    PROVE  DecoderSound'
<1>1. /\ gens' = v.gens /\ recovered' = v.recovered /\ queue' = rest \o Ascending(v.out)
      /\ given' = [s \in Seqs |-> IF s \in v.out \cup extra /\ s >= floor
                                  THEN given[s] + 1 ELSE given[s]]
  BY DEF Outcome
<1>2. v.out \in SUBSET Seqs
  BY DEF StoreSound, PayloadsSound
<1>3. /\ queue' \in Seq(Seqs) /\ ToSet(queue') = ToSet(rest) \cup v.out
  <2>1. v.out \in SUBSET Int /\ IsFiniteSet(v.out)
    BY <1>2, Columns
  <2>2. Ascending(v.out) \in Seq(v.out) /\ ToSet(Ascending(v.out)) = v.out
    BY <2>1, AscendingSeq
  <2>3. Ascending(v.out) \in Seq(Seqs)
    BY <1>2, <2>2
  <2>. QED  BY <1>1, <2>2, <2>3, JoinedSets
<1>4. ToSet(queue') \subseteq DOMAIN recovered'
  BY <1>1, <1>3
<1>5. /\ Store'.gens = v.gens /\ Store'.recovered = v.recovered
  BY <1>1 DEF Store
<1>6. StoreSound(Store') /\ \A slot : Untold(Store', slot) = Untold(v, slot)
  BY <1>5 DEF StoreSound, PayloadsSound, Untold
<1>7. Told(Store', ToSet(queue'))
  BY <1>3, <1>5, <1>6 DEF Told
<1>8. Once'
  <2>1. floor \in Nat /\ given \in [Seqs -> 0 .. 1] /\ Seqs \subseteq Int
        /\ \A s \in Seqs : given[s] = 1 => s \in DOMAIN recovered \/ s < floor
    BY SizeAssumption DEF DecoderSound, Once, Seqs
  <2>2. ASSUME NEW s \in Seqs
        PROVE  given'[s] \in 0 .. 1 /\ (given'[s] = 1 => s \in DOMAIN recovered' \/ s < floor')
    <3>1. CASE s \in v.out \cup extra /\ s >= floor
      <4>1. given[s] = 0
        BY <2>1, <3>1
      <4>. QED  BY <1>1, <3>1, <4>1
    <3>2. CASE ~(s \in v.out \cup extra /\ s >= floor)
      BY <1>1, <2>1, <3>2
    <3>. QED  BY <3>1, <3>2
  <2>3. given' \in [Seqs -> 0 .. 1]
    BY <1>1, <2>2
  <2>. QED  BY <2>2, <2>3 DEF Once
<1>. QED  BY <1>3, <1>4, <1>6, <1>7, <1>8 DEF DecoderSound

(* A call that leaves the store alone.                                     *)
LEMMA StoreKept ==
    ASSUME DecoderSound, UNCHANGED <<gens, recovered, queue, given, floor>>
    PROVE  DecoderSound'
<1>1. Store' = Store
  BY DEF Store
<1>2. StoreSound(Store') /\ Told(Store', ToSet(queue'))
  BY <1>1 DEF DecoderSound
<1>3. Once'
  BY DEF DecoderSound, Once
<1>. QED  BY <1>2, <1>3 DEF DecoderSound

(* No queue, nothing to tell.                                              *)
LEMMA NothingToTell ==
    ASSUME DecoderSound, Idle
    PROVE  Told(Store, {})
<1>1. ToSet(queue) = {}
  BY DEF Idle, ToSet
<1>. QED  BY <1>1 DEF DecoderSound

(* A source is stored and put to every system that covers it.              *)
LEMMA FeedSourceKeeps ==
    ASSUME DecoderSound, NEW symbol, SoundSymbol(symbol), FeedSource(symbol)
    PROVE  DecoderSound'
<1> DEFINE s == symbol.start
           w == [Store EXCEPT !.recovered = insert(@, s, symbol.data)]
           v == inject(w, s, Unit(s))
<1>1. s \in Seqs /\ symbol.data = Unit(s) /\ floor' = floor /\ Idle
  BY DEF SoundSymbol, FeedSource
<1>2. CASE UNCHANGED <<gens, recovered, queue, given>>
  BY <1>1, <1>2, StoreKept
<1>3. CASE s \notin DOMAIN recovered /\ Outcome(inject(w, s, symbol.data), <<>>, {s})
  <2>1. /\ w.gens = gens /\ w.recovered = insert(recovered, s, Unit(s)) /\ w.out = {}
        /\ IsStore(w)
    BY <1>1 DEF Store, IsStore
  <2>2. /\ DOMAIN w.recovered = DOMAIN recovered \cup {s}
        /\ w.recovered[s] = Unit(s)
        /\ \A q \in DOMAIN recovered : q # s => w.recovered[q] = recovered[q]
    BY <2>1 DEF insert
  <2>3. StoreSound(Store) /\ Told(Store, {})
    BY <1>1, NothingToTell DEF DecoderSound
  <2>. HIDE DEF w
  <2>4. PayloadsSound(w)
    BY <1>1, <2>2, <2>3, StoreFacts DEF StoreSound, PayloadsSound
  <2>5. StoreSound(w)
    <3>1. \A slot \in DOMAIN w.gens : SystemSound(slot, w.gens[slot], DOMAIN recovered)
      BY <2>1, <2>3, StoreFacts DEF StoreSound
    <3>2. \A slot \in DOMAIN w.gens : SystemSound(slot, w.gens[slot], DOMAIN w.recovered)
      BY <2>2, <3>1, FoundMore
    <3>3. DOMAIN w.gens \subseteq Slots
      BY <2>1, <2>3, StoreFacts DEF StoreSound
    <3>. QED  BY <2>4, <3>2, <3>3 DEF StoreSound
  <2>6. Told(w, {} \cup {s})
    BY <2>1, <2>2, <2>3, StoreFacts DEF Told, Untold
  <2>7. /\ Extends(v, w) /\ DOMAIN v.gens = DOMAIN w.gens
        /\ \A slot \in DOMAIN w.gens : s \in SlotSpan(slot) => Heard(v, slot, s)
    BY <1>1, <2>1, <2>5, Injected
  <2>. HIDE DEF v
  <2>8. Told(v, {} \cup v.out)
    BY <2>6, <2>7, ToldOfOne
  <2>9. /\ IsStore(v) /\ StoreSound(v) /\ DOMAIN recovered \subseteq DOMAIN v.recovered
        /\ v.out \cup {s} \subseteq DOMAIN v.recovered \ DOMAIN recovered
    BY <1>3, <2>2, <2>7 DEF Extends
  <2>10. <<>> \in Seq(Seqs) /\ ToSet(<<>>) = {}
    BY DEF ToSet
  <2>11. Outcome(v, <<>>, {s})
    BY <1>1, <1>3 DEF v
  <2>. QED  BY <1>1, <2>8, <2>9, <2>10, <2>11, OutcomeKeeps
<1>. QED  BY <1>2, <1>3 DEF FeedSource

(* The row of a coded symbol holds, over its span.                         *)
LEMMA RepairRowSound ==
    ASSUME NEW symbol, SoundSymbol(symbol), symbol.is_repair
    PROVE  /\ <<symbol.start, symbol.count>> \in Slots
           /\ RepairRow(symbol) \in SoundRow
           /\ Support(RepairRow(symbol)) \subseteq SlotSpan(<<symbol.start, symbol.count>>)
<1> DEFINE start == symbol.start
           count == symbol.count
           coefs == Coefs(start, count, symbol.index, symbol.coded)
<1>1. /\ start \in Seqs /\ count \in 1 .. N /\ symbol.coded \in 1 .. count
      /\ symbol.index \in 0 .. MaxRepairs - 1 /\ symbol.data = coefs
  BY DEF SoundSymbol
<1>2. RepairRow(symbol) = [c |-> coefs, d |-> coefs]
  BY <1>1 DEF RepairRow, Coefs
<1>3. \A s \in Seqs : s \in start .. start + symbol.coded - 1 =>
          s - start \in Seqs /\ s \in start .. start + count - 1
  BY <1>1, SizeAssumption DEF Seqs
<1>4. coefs \in Vec
  <2>1. ASSUME NEW s \in Seqs
        PROVE  coefs[s] \in Field
    <3>1. CASE s \in start .. start + symbol.coded - 1
      <4>1. Coefficient(start, count, symbol.index, s - start) \in Field
        BY <1>1, <1>3, <3>1, CoefficientAssumption
      <4>. QED  BY <3>1, <4>1 DEF Coefs
    <3>2. CASE s \notin start .. start + symbol.coded - 1
      BY <3>2, FieldAssumption DEF Coefs
    <3>. QED  BY <3>1, <3>2
  <2>2. coefs = [s \in Seqs |-> coefs[s]]
    BY DEF Coefs
  <2>. HIDE DEF coefs
  <2>. QED  BY <2>1, <2>2 DEF Vec
<1>5. \A s \in Seqs : coefs[s] # Nought => s \in start .. start + count - 1
  BY <1>3 DEF Coefs
<1>. HIDE DEF coefs
<1>6. RepairRow(symbol) \in SoundRow
  BY <1>2, <1>4, VectorIsSoundRow
<1>7. Support(RepairRow(symbol)) \subseteq SlotSpan(<<start, count>>)
  BY <1>2, <1>5 DEF Support, SlotSpan
<1>. QED  BY <1>1, <1>6, <1>7 DEF Slots

(* A coded symbol goes to its own system as an equation.                   *)
LEMMA FeedRepairKeeps ==
    ASSUME DecoderSound, NEW symbol, SoundSymbol(symbol), FeedRepair(symbol)
    PROVE  DecoderSound'
<1> DEFINE slot == <<symbol.start, symbol.count>>
           v == insert_equation(Store, slot, RepairRow(symbol))
<1>1. symbol.is_repair /\ floor' = floor /\ Idle
  BY DEF FeedRepair
<1>2. CASE UNCHANGED <<gens, recovered, queue, given>>
  BY <1>1, <1>2, StoreKept
<1>3. CASE Outcome(v, <<>>, {})
  <2>1. StoreSound(Store) /\ Told(Store, {})
    BY <1>1, NothingToTell DEF DecoderSound
  <2>2. Extends(v, Store)
    BY <1>1, <2>1, RepairRowSound, StoreFacts, InsertEquation
  <2>. HIDE DEF v
  <2>3. Told(v, {} \cup v.out)
    BY <2>1, <2>2, ToldMore
  <2>4. /\ IsStore(v) /\ StoreSound(v) /\ DOMAIN recovered \subseteq DOMAIN v.recovered
        /\ v.out \cup {} \subseteq DOMAIN v.recovered \ DOMAIN recovered
    BY <2>2, StoreFacts DEF Extends
  <2>5. <<>> \in Seq(Seqs) /\ ToSet(<<>>) = {}
    BY DEF ToSet
  <2>. QED  BY <1>1, <1>3, <2>3, <2>4, <2>5, OutcomeKeeps
<1>. QED  BY <1>2, <1>3 DEF FeedRepair

(* A payload in the queue is put to every system that lacks it.            *)
LEMMA PropagateKeeps ==
    ASSUME DecoderSound, Propagate
    PROVE  DecoderSound'
<1> DEFINE s == Head(queue)
           v == inject(Store, s, Unit(s))
<1>1. /\ queue \in Seq(Seqs) /\ queue # <<>> /\ ToSet(queue) \subseteq DOMAIN recovered
      /\ StoreSound(Store) /\ Told(Store, ToSet(queue)) /\ floor' = floor
  BY DEF DecoderSound, Propagate, Idle
<1>2. /\ s \in Seqs /\ Tail(queue) \in Seq(Seqs)
      /\ s \in ToSet(queue) /\ ToSet(queue) = ToSet(Tail(queue)) \cup {s}
  <2>1. Len(queue) \in Nat /\ Len(queue) >= 1 /\ DOMAIN queue = 1 .. Len(queue)
    BY <1>1
  <2>2. /\ DOMAIN Tail(queue) = 1 .. Len(queue) - 1
        /\ \A i \in 1 .. Len(queue) - 1 : Tail(queue)[i] = queue[i + 1]
        /\ s = queue[1] /\ s \in Seqs /\ Tail(queue) \in Seq(Seqs)
    BY <1>1
  <2>3. \A i \in 1 .. Len(queue) : i = 1 \/ (i - 1 \in 1 .. Len(queue) - 1 /\ (i - 1) + 1 = i)
    BY <2>1
  <2>4. \A i \in 1 .. Len(queue) - 1 : i + 1 \in 1 .. Len(queue)
    BY <2>1
  <2>5. 1 \in 1 .. Len(queue)
    BY <2>1
  <2>6. /\ ToSet(queue) = {queue[i] : i \in 1 .. Len(queue)}
        /\ ToSet(Tail(queue)) = {queue[i + 1] : i \in 1 .. Len(queue) - 1}
    <3>1. ToSet(queue) = {queue[i] : i \in 1 .. Len(queue)}
      BY <2>1 DEF ToSet
    <3>2. ToSet(Tail(queue)) = {Tail(queue)[i] : i \in 1 .. Len(queue) - 1}
      BY <2>2 DEF ToSet
    <3>. QED  BY <2>2, <3>1, <3>2
  <2>. HIDE DEF s
  <2>7. ToSet(queue) \subseteq ToSet(Tail(queue)) \cup {s}
    <3> SUFFICES ASSUME NEW i \in 1 .. Len(queue)
                 PROVE  queue[i] \in ToSet(Tail(queue)) \cup {s}
      BY <2>6
    <3>1. CASE i = 1
      BY <2>2, <3>1
    <3>2. CASE i - 1 \in 1 .. Len(queue) - 1 /\ (i - 1) + 1 = i
      <4>1. queue[(i - 1) + 1] \in ToSet(Tail(queue))
        BY <2>6, <3>2
      <4>. QED  BY <3>2, <4>1
    <3>. QED  BY <2>3, <3>1, <3>2
  <2>8. ToSet(Tail(queue)) \cup {s} \subseteq ToSet(queue)
    BY <2>2, <2>4, <2>5, <2>6
  <2>. QED  BY <2>2, <2>7, <2>8
<1>3. recovered[s] = Unit(s)
  BY <1>1, <1>2, StoreFacts DEF StoreSound, PayloadsSound
<1>4. Outcome(v, Tail(queue), {})
  BY <1>3 DEF Propagate
<1>. HIDE DEF s
<1>5. /\ Extends(v, Store) /\ DOMAIN v.gens = DOMAIN Store.gens
      /\ \A slot \in DOMAIN Store.gens : s \in SlotSpan(slot) => Heard(v, slot, s)
  BY <1>1, <1>2, StoreFacts, Injected
<1>. HIDE DEF v
<1>6. Told(v, ToSet(Tail(queue)) \cup v.out)
  BY <1>1, <1>2, <1>5, ToldOfOne
<1>7. /\ IsStore(v) /\ StoreSound(v) /\ DOMAIN recovered \subseteq DOMAIN v.recovered
      /\ v.out \cup {} \subseteq DOMAIN v.recovered \ DOMAIN recovered
  BY <1>5, StoreFacts DEF Extends
<1>8. ToSet(Tail(queue)) \subseteq DOMAIN v.recovered
  BY <1>1, <1>2, <1>7
<1>. QED  BY <1>1, <1>2, <1>4, <1>6, <1>7, <1>8, OutcomeKeeps

(* The floor rises: systems go whole, and payloads none of them refers to. *)
LEMMA AdvanceKeeps ==
    ASSUME DecoderSound, NEW f \in Nat, Advance(f)
    PROVE  DecoderSound'
<1> DEFINE kept == {slot \in DOMAIN gens : slot[1] + slot[2] > f}
           low == prune_to(f, Live \cap kept)
           bounds == {f} \cup {slot[1] : slot \in Live \cap kept}
<1>1. /\ floor' = (IF f > floor THEN f ELSE floor) /\ gens' = Restrict(gens, kept)
      /\ recovered' = Restrict(recovered, {s \in DOMAIN recovered : s >= low})
      /\ queue' = queue /\ given' = given /\ Idle
  BY DEF Advance
<1>2. /\ floor \in Nat /\ floor' \in Nat /\ floor <= floor' /\ f <= floor'
  BY <1>1 DEF DecoderSound
<1>3. StoreSound(Store) /\ Told(Store, {})
  BY <1>1, NothingToTell DEF DecoderSound
<1>4. /\ DOMAIN recovered \subseteq Seqs /\ \A s \in DOMAIN recovered : recovered[s] = Unit(s)
      /\ DOMAIN gens \subseteq Slots
      /\ \A slot \in DOMAIN gens : SystemSound(slot, gens[slot], DOMAIN recovered)
  BY <1>3, StoreFacts DEF StoreSound, PayloadsSound
<1>5. Seqs \subseteq Nat /\ \A slot \in DOMAIN gens : slot[1] \in Nat /\ slot[2] \in Nat
  BY <1>4, SizeAssumption DEF Slots, Seqs
<1>6. low <= f /\ low \in Nat /\ \A slot \in Live \cap kept : low <= slot[1]
  <2>1. bounds \in SUBSET Nat /\ bounds # {}
    BY <1>5
  <2>2. \E m \in bounds : \A k \in bounds : m <= k
    BY <2>1, LeastMember
  <2>3. low \in bounds /\ \A k \in bounds : low <= k
    BY <2>2 DEF prune_to
  <2>. QED  BY <2>1, <2>3
<1>. HIDE DEF low
<1>7. /\ DOMAIN gens' = kept /\ \A slot \in kept : gens'[slot] = gens[slot]
      /\ DOMAIN recovered' = {s \in DOMAIN recovered : s >= low}
      /\ \A s \in DOMAIN recovered' : recovered'[s] = recovered[s]
  BY <1>1 DEF Restrict
<1>8. ASSUME NEW slot \in kept
      PROVE  /\ SystemSound(slot, gens'[slot], DOMAIN recovered')
             /\ ~gens'[slot].done => Untold(Store', slot) \subseteq {}
  <2>1. SystemSound(slot, gens[slot], DOMAIN recovered) /\ gens'[slot] = gens[slot]
    BY <1>4, <1>7
  <2>2. CASE gens[slot].done
    BY <2>1, <2>2 DEF SystemSound
  <2>3. CASE ~gens[slot].done
    <3>1. slot \in Live \cap kept
      BY <2>3 DEF Live
    <3>2. \A s \in SlotSpan(slot) : s >= low
      BY <1>5, <1>6, <3>1 DEF SlotSpan
    <3>3. SlotSpan(slot) \cap DOMAIN recovered' = SlotSpan(slot) \cap DOMAIN recovered
      BY <1>7, <3>2
    <3>4. SystemSound(slot, gens'[slot], DOMAIN recovered')
      BY <2>1, <3>3 DEF SystemSound, Solves
    <3>5. Untold(Store, slot) \subseteq {}
      BY <1>3, <2>3, StoreFacts DEF Told
    <3>6. Store'.gens = gens' /\ Store'.recovered = recovered'
      BY DEF Store
    <3>. QED  BY <2>1, <3>3, <3>4, <3>5, <3>6, StoreFacts DEF Untold
  <2>. QED  BY <2>2, <2>3
<1>9. Store'.gens = gens' /\ Store'.recovered = recovered'
  BY DEF Store
<1>10. StoreSound(Store')
  BY <1>4, <1>7, <1>8, <1>9 DEF StoreSound, PayloadsSound
<1>11. ToSet(queue') = {} /\ queue' \in Seq(Seqs)
  BY <1>1 DEF Idle, ToSet, DecoderSound
<1>12. Told(Store', ToSet(queue'))
  BY <1>7, <1>8, <1>9, <1>11 DEF Told
<1>13. Once'
  <2>1. ASSUME NEW s \in Seqs, given[s] = 1
        PROVE  s \in DOMAIN recovered' \/ s < floor'
    <3>1. s \in Nat /\ (s \in DOMAIN recovered \/ s < floor)
      BY <1>5, <2>1 DEF DecoderSound, Once
    <3>. QED  BY <1>2, <1>6, <1>7, <3>1
  <2>. QED  BY <1>1, <2>1 DEF DecoderSound, Once
<1>. QED  BY <1>2, <1>10, <1>11, <1>12, <1>13 DEF DecoderSound

-----------------------------------------------------------------------------
(***************************************************************************)
(* The encoder's steps.                                                    *)
(***************************************************************************)

(* A generation fits in the stream, and so do all the sources sent.        *)
LEMMA SizeFacts ==
    /\ G \in Nat \ {0} /\ MaxSources \in Nat \ {0} /\ N \in Nat \ {0} /\ MaxRepairs \in Nat
    /\ G <= N /\ MaxSources <= N
<1> DEFINE round == MaxSources + G - 1
           k == round \div G
<1>1. /\ G \in Nat \ {0} /\ MaxSources \in Nat \ {0} /\ N \in Nat \ {0} /\ MaxRepairs \in Nat
      /\ G * k <= N
  BY GenerationAssumption, SizeAssumption
<1>2. round \in Nat /\ round >= G
  BY <1>1
<1>. HIDE DEF round
<1>3. k \in Nat /\ k >= 1 /\ round < G * k + G
  BY <1>1, <1>2
<1>. HIDE DEF k
<1>4. G <= G * k /\ G * k \in Nat
  BY <1>1, <1>3
<1>5. MaxSources <= G * k
  BY <1>1, <1>3, <1>4 DEF round
<1>. QED  BY <1>1, <1>4, <1>5

(* The generation of a source.                                             *)
LEMMA GenerationOf ==
    ASSUME NEW s \in Nat
    PROVE  gen_of(s) \in Nat
BY SizeFacts DEF gen_of

(* The sources the encoder retains, all in the stream.                     *)
LEMMA SourcesFacts ==
    ASSUME EncoderSound
    PROVE  sources \subseteq Seqs /\ next_seq \in 0 .. N /\ base_gen * G \in Nat
<1>1. /\ next_seq \in 0 .. MaxSources /\ base_gen \in Nat /\ N \in Nat
      /\ MaxSources <= N /\ MaxSources \in Nat
  BY SizeFacts DEF EncoderSound
<1>2. base_gen * G \in Nat
  BY <1>1, SizeFacts
<1>. QED  BY <1>1, <1>2 DEF sources, Seqs

(* A generation that starts has at least one source, and at most G.        *)
LEMMA GenerationLength ==
    ASSUME EncoderSound, NEW g \in Int, g * G \in sources
    PROVE  gen_len(g) \in 1 .. G
<1> DEFINE S == SpanOfGen(g) \cap sources
           start == g * G
<1>1. /\ G \in Nat \ {0} /\ start \in Int /\ start \in sources
  BY SizeFacts
<1>2. SpanOfGen(g) = start .. start + G - 1
  BY DEF SpanOfGen
<1>. HIDE DEF start
<1>3. IsFiniteSet(SpanOfGen(g)) /\ Cardinality(SpanOfGen(g)) = G
  BY <1>1, <1>2, FS_Interval
<1>4. S \subseteq SpanOfGen(g) /\ start \in S
  BY <1>1, <1>2
<1>5. IsFiniteSet(S) /\ Cardinality(S) <= G
  BY <1>3, <1>4, FS_Subset
<1>6. Cardinality(S) \in Nat /\ Cardinality(S) # 0
  BY <1>4, <1>5, FS_CardinalityType, FS_EmptySet
<1>. QED  BY <1>1, <1>5, <1>6 DEF gen_len

(* A coded symbol with room for it in the matrix.                          *)
LEMMA EmitKeeps ==
    ASSUME EncoderSound, WireSound, NEW start \in Seqs, NEW count \in 1 .. N,
           NEW coded \in 1 .. count, Emit(Coded(start, count, coded))
    PROVE  EncoderSound' /\ WireSound'
<1>1. /\ coded_index < MaxRepairs /\ coded_index' = coded_index + 1
      /\ UNCHANGED <<systematic, next_seq, base_gen, code_base>>
      /\ wire' = wire \cup {Coded(start, count, coded)}
  BY DEF Emit
<1>2. coded_index \in 0 .. MaxRepairs - 1 /\ coded_index + 1 \in 0 .. MaxRepairs
  BY <1>1, SizeFacts DEF EncoderSound
<1>3. SoundSymbol(Coded(start, count, coded))
  BY <1>2 DEF SoundSymbol, Coded
<1>. QED  BY <1>1, <1>2, <1>3 DEF EncoderSound, WireSound

(* What the encoder puts on the wire is what its header says.              *)
LEMMA EncodeKeeps ==
    ASSUME EncoderSound, WireSound, Encode
    PROVE  EncoderSound' /\ WireSound'
<1>1. CASE add_source
  <2>1. /\ next_seq \in Seqs /\ next_seq + 1 \in 0 .. MaxSources
    BY <1>1, SizeFacts DEF add_source, EncoderSound, Seqs
  <2>2. SoundSymbol(Source(next_seq))
    BY <2>1 DEF SoundSymbol, Source
  <2>. QED  BY <1>1, <2>1, <2>2 DEF add_source, EncoderSound, WireSound
<1>2. ASSUME NEW g \in Int, NEW width, width \in {gen_len(g), G}, g * G \in sources,
             EmitOf(g, Coded(g * G, width, gen_len(g)))
      PROVE  EncoderSound' /\ WireSound'
  <2>1. g * G \in Seqs /\ gen_len(g) \in 1 .. G /\ G \in 1 .. N
    BY <1>2, SourcesFacts, GenerationLength, SizeFacts
  <2>2. width \in 1 .. N /\ gen_len(g) \in 1 .. width
    BY <1>2, <2>1, SizeFacts
  <2>. QED  BY <1>2, <2>1, <2>2, EmitKeeps DEF EmitOf
<1>3. Active \subseteq Int /\ Generations \subseteq Int
  <2>1. base_gen \in Nat /\ code_base \in Nat /\ Pipeline \in Nat
    BY GenerationAssumption DEF EncoderSound
  <2>2. N \div G \in Nat
    BY SizeFacts
  <2>. QED  BY <2>1, <2>2 DEF Active, Generations
<1>4. CASE generate_repair
  BY <1>2, <1>3, <1>4 DEF generate_repair, sealed
<1>5. CASE generate_repair_filling
  BY <1>2, <1>3, <1>5 DEF generate_repair_filling, codeable_filling, filling_width
<1>6. CASE \E g \in Generations : generate_repair_for(g)
  BY <1>2, <1>3, <1>6 DEF generate_repair_for, sealed
<1>7. ASSUME NEW start \in Seqs, NEW count \in 1 .. G + 1, generate_repair_range(start, count)
      PROVE  EncoderSound' /\ WireSound'
  <2>1. start \in 0 .. N - 1 /\ count \in Nat /\ count >= 1 /\ N \in Nat
    BY <1>7, SizeFacts DEF Seqs
  <2>2. start + count - 1 \in start .. start + count - 1
    BY <2>1
  <2>3. start + count - 1 \in 0 .. N - 1
    BY <1>7, <2>2, SourcesFacts DEF generate_repair_range, Seqs
  <2>4. count \in 1 .. N /\ count \in 1 .. count
    BY <2>1, <2>3
  <2>. QED  BY <1>7, <2>4, EmitKeeps DEF generate_repair_range
<1>8. ASSUME NEW anchor \in sources, set_code_base(anchor)
      PROVE  EncoderSound' /\ WireSound'
  <2>1. base_gen \in Nat /\ anchor \in Nat /\ sources # {} /\ sources \subseteq Nat
    BY <1>8, SourcesFacts, SizeFacts DEF EncoderSound, Seqs
  <2>2. next_seq - 1 \in Nat
    BY <1>8, SourcesFacts, SizeFacts DEF sources
  <2>3. gen_of(anchor) \in Nat /\ top_gen \in Nat
    BY <2>1, <2>2, GenerationOf DEF top_gen
  <2>4. code_base' \in Nat
    BY <1>8, <2>1, <2>3 DEF set_code_base
  <2>. QED  BY <1>8, <2>4 DEF set_code_base, EncoderSound, WireSound
<1>9. CASE set_intake_idle
  BY <1>9 DEF set_intake_idle, EncoderSound, WireSound
<1>. QED  BY <1>1, <1>4, <1>5, <1>6, <1>7, <1>8, <1>9 DEF Encode

(* A late ack moves the encoder's floor.                                   *)
LEMMA EncoderAdvanceKeeps ==
    ASSUME EncoderSound, WireSound, NEW f \in Nat, encoder_advance(f)
    PROVE  EncoderSound' /\ WireSound'
BY GenerationOf DEF encoder_advance, EncoderSound, WireSound

-----------------------------------------------------------------------------
(***************************************************************************)
(* The specification.                                                      *)
(***************************************************************************)

LEMMA Initially ==
    ASSUME CodecInit
    PROVE  IInv
<1>1. EncoderSound /\ WireSound
  <2>1. 0 \in 0 .. MaxSources /\ 0 \in 0 .. MaxRepairs /\ 0 \in Nat
    BY SizeFacts
  <2>. QED  BY <2>1 DEF CodecInit, EncoderInit, EncoderSound, WireSound
<1>2. /\ gens = <<>> /\ recovered = <<>> /\ floor = 0 /\ queue = <<>>
      /\ given = [s \in Seqs |-> 0]
  BY DEF CodecInit, DecoderInit
<1>3. DOMAIN gens = {} /\ DOMAIN recovered = {} /\ ToSet(queue) = {} /\ queue \in Seq(Seqs)
  BY <1>2 DEF ToSet
<1>4. StoreSound(Store) /\ Told(Store, ToSet(queue))
  BY <1>3, StoreFacts DEF StoreSound, PayloadsSound, Told
<1>5. Once
  BY <1>2 DEF Once
<1>. QED  BY <1>1, <1>2, <1>3, <1>4, <1>5 DEF IInv, DecoderSound

(* Nothing changes in a step of another part.                              *)
LEMMA EncoderStutters ==
    ASSUME EncoderSound, WireSound, UNCHANGED encoderVars
    PROVE  EncoderSound' /\ WireSound'
BY DEF encoderVars, EncoderSound, WireSound

(* The encoder's steps leave the decoder alone.                            *)
LEMMA DecoderStutters ==
    ASSUME DecoderSound, UNCHANGED decoderVars
    PROVE  DecoderSound'
BY StoreKept DEF decoderVars

(* A step of the codec, case by case.                                      *)
LEMMA CodecStep ==
    ASSUME IInv, [CodecNext]_codecVars
    PROVE  IInv'
<1> USE DEF IInv
<1>1. CASE Send
  BY <1>1, EncodeKeeps, DecoderStutters DEF Send
<1>2. ASSUME NEW symbol \in wire, Arrive(symbol)
      PROVE  IInv'
  <2>1. SoundSymbol(symbol)
    BY <1>2 DEF WireSound
  <2>2. EncoderSound' /\ WireSound'
    BY <1>2, EncoderStutters DEF Arrive
  <2>3. DecoderSound'
    BY <1>2, <2>1, FeedSourceKeeps, FeedRepairKeeps DEF Arrive
  <2>. QED  BY <2>2, <2>3
<1>3. ASSUME NEW f \in floor + 1 .. next_seq, RaiseFloor(f)
      PROVE  IInv'
  <2>1. f \in Nat
    BY <1>3 DEF DecoderSound, EncoderSound
  <2>. QED  BY <1>3, <2>1, EncoderStutters, AdvanceKeeps DEF RaiseFloor
<1>4. CASE AckArrives
  <2>1. floor \in Nat
    BY DEF DecoderSound
  <2>. QED  BY <1>4, <2>1, EncoderAdvanceKeeps, DecoderStutters DEF AckArrives
<1>5. CASE Propagate /\ UNCHANGED encoderVars
  BY <1>5, PropagateKeeps, EncoderStutters
<1>6. CASE UNCHANGED codecVars
  BY <1>6, EncoderStutters, DecoderStutters DEF codecVars
<1>. QED  BY <1>1, <1>2, <1>3, <1>4, <1>5, <1>6 DEF CodecNext

(***************************************************************************)
(* The systems, the payloads beside them and the queue of propagate agree, *)
(* whatever is lost, repeated or overtaken.                                *)
(***************************************************************************)
THEOREM GenerationInvariance == CodecSpec => []IInv
<1>1. CodecInit => IInv
  BY Initially
<1>2. IInv /\ [CodecNext]_codecVars => IInv'
  BY CodecStep
<1>. QED  BY <1>1, <1>2, PTL DEF CodecSpec

(***************************************************************************)
(* add_symbol, propagate and advance: every payload and coded row is true, *)
(* the payload of a known column stays in the store whatever the floor has *)
(* pruned, and no source reaches the caller twice.                         *)
(***************************************************************************)
THEOREM RetainedPayloads == CodecSpec => []PayloadsRetained
<1>1. ASSUME IInv
      PROVE  PayloadsRetained
  <2>1. /\ \A s \in DOMAIN recovered : recovered[s] = Unit(s)
        /\ \A slot \in DOMAIN gens : SystemSound(slot, gens[slot], DOMAIN recovered)
    BY <1>1, StoreFacts DEF IInv, DecoderSound, StoreSound, PayloadsSound
  <2>2. ASSUME NEW slot \in Live
        PROVE  /\ gens[slot].known \subseteq DOMAIN recovered
               /\ \A p \in DOMAIN gens[slot].pivots :
                     gens[slot].pivots[p].d = gens[slot].pivots[p].c
    <3>1. Solves(slot, gens[slot].known, gens[slot].pivots, DOMAIN recovered)
      BY <2>1, <2>2 DEF Live, SystemSound
    <3>2. \A p \in DOMAIN gens[slot].pivots : gens[slot].pivots[p] \in SoundRow
      BY <3>1 DEF Solves, PivotRow
    <3>. QED  BY <3>1, <3>2 DEF Solves, SoundRow, RowSound
  <2>3. \A s \in Seqs : given[s] <= 1
    BY <1>1 DEF IInv, DecoderSound, Once
  <2>. QED  BY <2>1, <2>2, <2>3 DEF PayloadsRetained
<1>2. IInv => PayloadsRetained
  BY <1>1
<1>. QED  BY <1>2, GenerationInvariance, PTL

(* A system that still solves needs more than it has.                      *)
LEMMA RankBelowWidth ==
    ASSUME NEW slot \in Slots, NEW known, NEW pivots, NEW found, Solves(slot, known, pivots, found)
    PROVE  Cardinality(known) + Cardinality(DOMAIN pivots) < slot[2]
<1> DEFINE span == SlotSpan(slot)
           cols == DOMAIN pivots
<1>1. slot[1] \in Nat /\ slot[2] \in Nat \ {0}
  BY SizeFacts DEF Slots, Seqs
<1>2. IsFiniteSet(span) /\ Cardinality(span) = slot[2]
  <2> DEFINE a == slot[1]
             b == slot[1] + slot[2] - 1
  <2>1. a \in Int /\ b \in Int /\ a <= b /\ b - a + 1 = slot[2]
    BY <1>1
  <2>2. span = a .. b
    BY DEF SlotSpan
  <2>. HIDE DEF a, b, span
  <2>. QED  BY <2>1, <2>2, FS_Interval
<1>3. \A p \in cols : /\ p \in Seqs /\ p \in span \ known
                      /\ PivotRow(pivots[p], p, span \ known, cols) /\ Support(pivots[p]) # {p}
  <2>1. \A p \in cols : /\ p \in Seqs /\ PivotRow(pivots[p], p, span \ known, cols)
                        /\ Support(pivots[p]) # {p}
    BY DEF Solves, Wanted
  <2>. QED  BY <2>1, PivotFacts
<1>4. known \subseteq span /\ known # span /\ cols \subseteq span /\ known \cap cols = {}
  BY <1>3 DEF Solves
<1>. HIDE DEF span, cols
<1>5. known \cup cols # span
  <2>1. CASE cols = {}
    BY <1>4, <2>1
  <2>2. CASE cols # {}
    <3>1. PICK p \in cols : TRUE
      BY <2>2
    <3>2. PICK q \in Support(pivots[p]) : q # p
      <4>1. p \in Support(pivots[p])
        BY <1>3, <3>1, PivotFacts
      <4>. QED  BY <1>3, <3>1, <4>1
    <3>3. q \in span \ known /\ q \notin cols
      BY <1>3, <3>1, <3>2 DEF PivotRow
    <3>. QED  BY <3>3
  <2>. QED  BY <2>1, <2>2
<1>6. IsFiniteSet(known) /\ IsFiniteSet(cols)
  BY <1>2, <1>4, FS_Subset
<1>7. /\ IsFiniteSet(known \cup cols)
      /\ Cardinality(known \cup cols) = Cardinality(known) + Cardinality(cols)
  <2>1. IsFiniteSet(known \cup cols)
    BY <1>6, FS_Union
  <2>2. Cardinality(known \cap cols) = 0
    BY <1>4, FS_EmptySet
  <2>3. Cardinality(known) \in Nat /\ Cardinality(cols) \in Nat
    BY <1>6, FS_CardinalityType
  <2>. QED  BY <1>6, <2>1, <2>2, <2>3, FS_Union
<1>8. Cardinality(known \cup cols) < Cardinality(span)
  <2>1. known \cup cols \subseteq span
    BY <1>4
  <2>2. Cardinality(known \cup cols) <= Cardinality(span)
        /\ (Cardinality(known \cup cols) = Cardinality(span) => known \cup cols = span)
    BY <1>2, <2>1, FS_Subset
  <2>3. Cardinality(known \cup cols) \in Nat /\ Cardinality(span) \in Nat
    BY <1>2, <1>7, FS_CardinalityType
  <2>. QED  BY <1>5, <2>2, <2>3
<1>. QED  BY <1>2, <1>7, <1>8 DEF cols

(***************************************************************************)
(* insert_equation and inject_source_into_active_gens: between two calls a *)
(* system knows all that is recovered of its span, its rows are unsolved   *)
(* equations in echelon form over the rest, and the rank reported falls    *)
(* short of the width.                                                     *)
(***************************************************************************)
THEOREM HonestDeficit == CodecSpec => []DeficitHonest
<1>1. ASSUME IInv, Idle
      PROVE  DeficitHonest
  <2> SUFFICES ASSUME NEW slot \in Live
               PROVE  LET known == gens[slot].known
                          rows  == gens[slot].pivots
                      IN  /\ known = SlotSpan(slot) \cap DOMAIN recovered
                          /\ \A p \in DOMAIN rows :
                                /\ rows[p].c[p] = One
                                /\ Support(rows[p]) # {p}
                                /\ Support(rows[p]) \subseteq SlotSpan(slot) \ known
                                /\ \A s \in Support(rows[p]) : p <= s
                                /\ Support(rows[p]) \cap DOMAIN rows = {p}
                          /\ rank_in(slot) < slot[2]
    BY <1>1 DEF DeficitHonest
  <2>1. DecoderSound /\ StoreSound(Store) /\ Told(Store, {})
    BY <1>1, NothingToTell DEF IInv, DecoderSound
  <2>2. slot \in DOMAIN gens /\ ~gens[slot].done
    BY DEF Live
  <2>3. /\ Solves(slot, gens[slot].known, gens[slot].pivots, DOMAIN recovered)
        /\ slot \in Slots
    BY <2>1, <2>2, StoreFacts DEF StoreSound, SystemSound
  <2>4. gens[slot].known = SlotSpan(slot) \cap DOMAIN recovered
    <3>1. (SlotSpan(slot) \cap DOMAIN recovered) \ gens[slot].known \subseteq {}
      BY <2>1, <2>2, StoreFacts DEF Told, Untold
    <3>2. gens[slot].known \subseteq SlotSpan(slot) \cap DOMAIN recovered
      BY <2>3 DEF Solves
    <3>. QED  BY <3>1, <3>2
  <2>5. rank_in(slot) < slot[2]
    <3>1. rank_in(slot) = Cardinality(gens[slot].known) + Cardinality(DOMAIN gens[slot].pivots)
      BY <2>2 DEF rank_in, Live
    <3>. QED  BY <2>3, <3>1, RankBelowWidth
  <2>. QED  BY <2>3, <2>4, <2>5 DEF Solves, PivotRow, Wanted
<1>2. IInv => DeficitHonest
  BY <1>1 DEF DeficitHonest
<1>. QED  BY <1>2, GenerationInvariance, PTL
=============================================================================
