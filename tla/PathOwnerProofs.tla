-------------------------- MODULE PathOwnerProofs --------------------------
(***************************************************************************)
(* A path is known to the scheduler before anything of it reaches the      *)
(* sender, what is read of it is handed on once and in order, and control  *)
(* never overtakes data, for any depth of the channels, any size of the    *)
(* batches and any load.                                                   *)
(***************************************************************************)
EXTENDS PathOwner, DataLemmas, SequenceTheorems

-----------------------------------------------------------------------------
(***************************************************************************)
(* The state of the tasks and what the channels carry.                     *)
(***************************************************************************)
Messages == {"ping", "pong", "other"}
Items == {"data", "ctrl"} \X Nat
Datagrams == {"rx", "tx"} \X (Nat \ {0})
Commands == [kind : {"connect", "send", "stream", "readers", "close"},
             items : Seq(Items), req : Nat]
Owners == [at : {"unconnected", "serving", "ended"}, readers : BOOLEAN,
           reader_dead : BOOLEAN, uni_dead : BOOLEAN, inbound : Seq(Nat),
           inbound_tx : Seq(Nat), ctrl_pending : SUBSET Messages, streams : Seq(Nat),
           busy : SUBSET Nat]
Senders == [at : {"select", "flush"}, data : Seq(Items), ctrl : Seq(Items)]
Reports == [at : {"idle", "tick", "asked", "send", "await"}, left : Int, req : Nat]

TasksTyped ==
    /\ owner \in Owners
    /\ quinn \in Seq(Datagrams)
    /\ arrived \in [rx : Nat, tx : Nat, uni : Nat]
    /\ overflowed \in [rx : SUBSET Nat, tx : SUBSET Nat]
    /\ wire \in Seq(Items)
    /\ io \in Seq(Commands)
    /\ msg \in Seq(Seq(Nat)) /\ sender_in \in Seq(Seq(Nat))
    /\ cmds \in Seq({"add", "remove", "tick", "revive"})
    /\ ctrl \in Seq(Messages)
    /\ known \in BOOLEAN
    /\ sender \in Senders
    /\ staged \in Nat
    /\ tx_seen \in Seq(Nat) /\ rx_seen \in Seq(Nat)
    /\ report \in Reports

(***************************************************************************)
(* How far the path command processor is, and what cannot be before.       *)
(***************************************************************************)
Unstarted == path_cmd \in {"connect", "connecting", "connected", "failed", "asked", "added"}

Leaving == path_cmd \in {"removing", "removed"}

Phases ==
    /\ path_cmd \in {"connect", "connecting", "connected", "failed", "asked", "added",
                     "running", "removing", "removed"}
    /\ path_cmd \in {"connect", "connecting"} => owner.at = "unconnected"
    /\ path_cmd \in {"added", "running"} => known
    /\ close_fwd => Leaving
    /\ \A i \in 1 .. Len(io) :
          /\ io[i].kind = "connect" =>
                /\ path_cmd = "connecting"
                /\ \A k \in 1 .. Len(io) : io[k].kind = "connect" => k = i
          /\ io[i].kind = "close" => Leaving
    /\ \A i \in 1 .. Len(cmds) : cmds[i] = "remove" => path_cmd = "removed"

(* Before the readers are started nothing of the path is on its way.       *)
Quiet ==
    Unstarted =>
        /\ ~owner.readers
        /\ owner.inbound_tx = <<>> /\ owner.ctrl_pending = {}
        /\ sender_in = <<>> /\ ctrl = <<>>
        /\ \A i \in 1 .. Len(io) : io[i].kind # "readers"

(***************************************************************************)
(* The datagrams the sender staged, on their way to the wire: x may go     *)
(* before y, and all of s before all of t.                                 *)
(***************************************************************************)
Goes(x, y) == x[2] <= y[2] \/ (x[1] = "data" /\ y[1] = "ctrl")

Ordered(s) == \A i, k \in 1 .. Len(s) : i < k => Goes(s[i], s[k])

Ahead(s, t) == \A i \in 1 .. Len(s), k \in 1 .. Len(t) : Goes(s[i], t[k])

UpTo(s, n) == \A i \in 1 .. Len(s) : s[i][2] <= n

(* The lanes of the slot, behind what went before them.                    *)
SlotBehind(s) == Ahead(s, sender.data) /\ Ahead(s, sender.ctrl) /\ UpTo(s, staged)

Pipeline ==
    /\ Ordered(sender.data) /\ Ordered(sender.ctrl) /\ Ahead(sender.data, sender.ctrl)
    /\ UpTo(sender.data, staged) /\ UpTo(sender.ctrl, staged)
    /\ \A i \in 1 .. Len(sender.data) : sender.data[i][1] = "data"
    /\ \A i \in 1 .. Len(sender.ctrl) : sender.ctrl[i][1] = "ctrl"
    /\ Ordered(wire) /\ SlotBehind(wire)
    /\ \A j \in 1 .. Len(io) :
          /\ Ordered(io[j].items) /\ SlotBehind(io[j].items)
          /\ Ahead(wire, io[j].items)
          /\ \A k \in j + 1 .. Len(io) : Ahead(io[j].items, io[k].items)

(***************************************************************************)
(* What arrived on a lane, on its way to its consumer; L is what quinn     *)
(* dropped of it.  The numbers of s that are not 0 are those above a up to *)
(* b that are not in L, in order.                                          *)
(***************************************************************************)
Counts(L, s, a, b) ==
    /\ a <= b
    /\ \A i \in 1 .. Len(s) : s[i] = 0 \/ (a < s[i] /\ s[i] <= b /\ s[i] \notin L)
    /\ \A i, k \in 1 .. Len(s) : i < k /\ s[i] # 0 /\ s[k] # 0 => s[i] < s[k]
    /\ \A v \in a + 1 .. b : v \in L \/ \E i \in 1 .. Len(s) : s[i] = v

(* The batches of a channel, one after the other.                          *)
Chained(L, channel, p, a, b) ==
    /\ p \in [0 .. Len(channel) -> Nat]
    /\ p[0] = a /\ p[Len(channel)] = b
    /\ \A k \in 0 .. Len(channel) : p[k] <= b
    /\ \A k \in 1 .. Len(channel) : Counts(L, channel[k], p[k - 1], p[k])

Chain(L, channel, a, b) == \E p : Chained(L, channel, p, a, b)

(* The numbers of a lane among quinn's datagrams.                          *)
Keys(batch, lane) == [i \in DOMAIN batch |-> IF batch[i][1] = lane THEN batch[i][2] ELSE 0]

Sorted(s) == \A i \in 1 .. Len(s) : s[i] # 0

(* A lane up to top: what its consumer has seen, the batches in its        *)
(* channel, the one held, and the numbers quinn still has.                 *)
FlowsBy(L, keys, top, seen, channel, held, a, b, c) ==
    /\ Counts(L, seen, 0, a)
    /\ Chain(L, channel, a, b)
    /\ Counts(L, held, b, c) /\ Sorted(held)
    /\ Counts(L, keys, c, top)
    /\ \A v \in L : v <= top

Flows(L, keys, top, seen, channel, held) ==
    \E a, b, c \in Nat : FlowsBy(L, keys, top, seen, channel, held, a, b, c)

Inbound ==
    owner.at # "ended" =>
        /\ Flows(overflowed.rx, Keys(quinn, "rx"), arrived.rx, rx_seen, msg, owner.inbound)
        /\ Flows(overflowed.tx, Keys(quinn, "tx"), arrived.tx, tx_seen, sender_in, owner.inbound_tx)

TasksInv == TasksTyped /\ Phases /\ Quiet /\ Pipeline /\ Inbound

-----------------------------------------------------------------------------
(***************************************************************************)
(* Records with a field replaced.                                          *)
(***************************************************************************)
LEMMA OwnerFields ==
    ASSUME NEW o \in Owners
    PROVE  /\ o.inbound \in Seq(Nat) /\ o.inbound_tx \in Seq(Nat)
           /\ o.streams \in Seq(Nat) /\ o.busy \in SUBSET Nat
           /\ o.ctrl_pending \in SUBSET Messages
           /\ o.at \in {"unconnected", "serving", "ended"}
           /\ o.readers \in BOOLEAN /\ o.reader_dead \in BOOLEAN /\ o.uni_dead \in BOOLEAN
BY DEF Owners

(* The owner with a field replaced by a value of its type is an owner.     *)
LEMMA OwnerReplaced ==
    ASSUME NEW o \in Owners
    PROVE  /\ [o EXCEPT !.at = "serving"] \in Owners
           /\ \A b \in BOOLEAN : [o EXCEPT !.reader_dead = b] \in Owners
           /\ \A b \in BOOLEAN : [o EXCEPT !.uni_dead = b] \in Owners
           /\ \A b, d \in BOOLEAN : [o EXCEPT !.readers = b, !.reader_dead = d] \in Owners
           /\ \A s \in Seq(Nat) : [o EXCEPT !.inbound = s] \in Owners
           /\ \A s \in Seq(Nat) : [o EXCEPT !.inbound_tx = s] \in Owners
           /\ \A s \in Seq(Nat) : [o EXCEPT !.streams = s] \in Owners
           /\ \A S \in SUBSET Messages : [o EXCEPT !.ctrl_pending = S] \in Owners
           /\ \A S \in SUBSET Nat : [o EXCEPT !.busy = S] \in Owners
           /\ \A S \in SUBSET Nat, s \in Seq(Nat) :
                 [o EXCEPT !.busy = S, !.streams = s] \in Owners
           /\ \A s, t \in Seq(Nat), b \in BOOLEAN :
                 [o EXCEPT !.inbound = s, !.inbound_tx = t, !.reader_dead = b] \in Owners
<1>1. [o EXCEPT !.at = "serving"] \in Owners
  BY DEF Owners
<1>2. /\ \A b \in BOOLEAN : [o EXCEPT !.reader_dead = b] \in Owners
      /\ \A b \in BOOLEAN : [o EXCEPT !.uni_dead = b] \in Owners
  BY DEF Owners
<1>3. \A b, d \in BOOLEAN : [o EXCEPT !.readers = b, !.reader_dead = d] \in Owners
  BY DEF Owners
<1>4. \A s \in Seq(Nat) : [o EXCEPT !.inbound = s] \in Owners
  BY DEF Owners
<1>5. \A s \in Seq(Nat) : [o EXCEPT !.inbound_tx = s] \in Owners
  BY DEF Owners
<1>6. \A s \in Seq(Nat) : [o EXCEPT !.streams = s] \in Owners
  BY DEF Owners
<1>7. \A S \in SUBSET Messages : [o EXCEPT !.ctrl_pending = S] \in Owners
  BY DEF Owners
<1>8. \A S \in SUBSET Nat : [o EXCEPT !.busy = S] \in Owners
  BY DEF Owners
<1>9. \A S \in SUBSET Nat, s \in Seq(Nat) : [o EXCEPT !.busy = S, !.streams = s] \in Owners
  BY DEF Owners
<1>10. \A s, t \in Seq(Nat), b \in BOOLEAN :
          [o EXCEPT !.inbound = s, !.inbound_tx = t, !.reader_dead = b] \in Owners
  BY DEF Owners
<1>. QED  BY <1>1, <1>2, <1>3, <1>4, <1>5, <1>6, <1>7, <1>8, <1>9, <1>10, Zenon

-----------------------------------------------------------------------------
(***************************************************************************)
(* The commands taken in a turn, one after the other: at the owner, and at *)
(* the sender.                                                             *)
(***************************************************************************)
LEMMA PerformSteps ==
    ASSUME NEW w, NEW sent \in Seq(Commands)
    PROVE  \E st : /\ st[0] = w
                   /\ \A k \in 1 .. Len(sent) : st[k] = Perform(st[k - 1], sent[k])
                   /\ Performed(w, sent) = st[Len(sent)]
<1> DEFINE n == Len(sent)
           Sub(k) == {s \in SUBSET (1 .. n) : Cardinality(s) <= k}
           By(f, k) == f = [s \in Sub(k) |-> IF s = {} THEN w
                                             ELSE Perform(f[s \ {Max(s)}], sent[Max(s)])]
           S == {k \in 0 .. n : \E f : By(f, k)}
           Eq(f) == f = [s \in SUBSET (1 .. n) |-> IF s = {} THEN w
                                      ELSE Perform(f[s \ {Max(s)}], sent[Max(s)])]
           iter == CHOOSE f : Eq(f)
           st == [k \in 0 .. n |-> iter[1 .. k]]
<1>1. n \in Nat /\ DOMAIN sent = 1 .. n
  OBVIOUS
<1>2. Performed(w, sent)
         = (CHOOSE f : f = [s \in SUBSET (DOMAIN sent) |-> IF s = {} THEN w
                              ELSE Perform(f[s \ {Max(s)}], sent[Max(s)])])[DOMAIN sent]
  BY DEF Performed, FoldLeft, MapThenFoldSet
<1>. HIDE DEF n
<1>3. Performed(w, sent) = iter[1 .. n]
  BY <1>1, <1>2
<1>4. \A s : Max(s) = Greatest(s)
  BY DEF Max, Greatest
<1>5. \A s \in SUBSET (1 .. n) : Cardinality(s) \in 0 .. n
  BY <1>1, PositionsCount
<1>6. 0 \in S
  <2>1. \A s \in Sub(0) : s = {}
    <3> SUFFICES ASSUME NEW s \in Sub(0), s # {}
                 PROVE  FALSE
      OBVIOUS
    <3>1. /\ s \ {Greatest(s)} \in SUBSET (1 .. n)
          /\ Cardinality(s \ {Greatest(s)}) = Cardinality(s) - 1
      BY <1>1, PositionsCount
    <3>2. Cardinality(s \ {Greatest(s)}) \in 0 .. n /\ Cardinality(s) \in 0 .. n
      BY <1>5, <3>1
    <3>. QED  BY <3>1, <3>2
  <2>2. By([s \in Sub(0) |-> w], 0)
    BY <2>1
  <2>3. 0 \in 0 .. n
    BY <1>1
  <2>. HIDE DEF By
  <2>. QED  BY <2>2, <2>3
<1>7. ASSUME NEW k \in 0 .. n - 1, k \in S
      PROVE  k + 1 \in S
  <2>1. PICK h : By(h, k)
    BY <1>7
  <2> DEFINE more == [s \in Sub(k + 1) |->
                        IF s = {} THEN w
                        ELSE Perform(h[s \ {Max(s)}], sent[Max(s)])]
  <2>2. ASSUME NEW s \in Sub(k + 1), s # {}
        PROVE  s \ {Max(s)} \in Sub(k) /\ s \ {Max(s)} \in Sub(k + 1)
    <3>1. /\ s \ {Max(s)} \in SUBSET (1 .. n) /\ Cardinality(s) <= k + 1
          /\ Cardinality(s \ {Max(s)}) = Cardinality(s) - 1
      BY <1>1, <1>4, <2>2, PositionsCount
    <3>2. Cardinality(s) \in Int /\ k \in Int
      BY <1>1, <1>5
    <3>. QED  BY <3>1, <3>2
  <2>. HIDE DEF Sub
  <2>3. \A s \in Sub(k + 1) : s \in Sub(k) => more[s] = h[s]
    BY <2>1
  <2>4. By(more, k + 1)
    BY <2>2, <2>3
  <2>5. k + 1 \in 0 .. n
    BY <1>1
  <2>. HIDE DEF more, By
  <2>. QED  BY <2>4, <2>5
<1>. HIDE DEF S
<1>8. n \in S
  <2>1. n \in 0 .. n
    BY <1>1
  <2>2. 0 .. n \subseteq S
    BY <1>1, <1>6, <1>7, IntervalInduction
  <2>. QED  BY <2>1, <2>2
<1>9. \E f : Eq(f)
  <2>1. PICK f : By(f, n)
    BY <1>8 DEF S
  <2>2. Sub(n) = SUBSET (1 .. n)
    BY <1>5
  <2>. QED  BY <2>1, <2>2
<1>10. Eq(iter)
  BY <1>9
<1>. HIDE DEF iter
<1>11. iter[1 .. 0] = w
  BY <1>10
<1>12. ASSUME NEW k \in 1 .. n
       PROVE  iter[1 .. k] = Perform(iter[1 .. k - 1], sent[k])
  <2>1. /\ 1 .. k \in SUBSET (1 .. n) /\ 1 .. k # {}
        /\ Greatest(1 .. k) = k /\ (1 .. k) \ {k} = 1 .. k - 1
    BY <1>1, IntervalTop
  <2>2. Max(1 .. k) = k
    BY <2>1, <1>4
  <2>. QED  BY <1>10, <2>1, <2>2
<1>13. st[0] = w /\ st[n] = iter[1 .. n]
  BY <1>1, <1>11
<1>14. \A k \in 1 .. n : st[k] = Perform(st[k - 1], sent[k])
  BY <1>1, <1>12
<1>. HIDE DEF st
<1>. QED  BY <1>3, <1>13, <1>14 DEF n

(***************************************************************************)
(* At the sender.                                                          *)
(***************************************************************************)
LEMMA ApplySteps ==
    ASSUME NEW T, NEW w, NEW sent \in Seq(T), NEW live
    PROVE  \E st : /\ st[0] = w
                   /\ \A k \in 1 .. Len(sent) : st[k] = Apply(st[k - 1], sent[k], live)
                   /\ Applied(w, sent, live) = st[Len(sent)]
<1> DEFINE n == Len(sent)
           Sub(k) == {s \in SUBSET (1 .. n) : Cardinality(s) <= k}
           By(f, k) == f = [s \in Sub(k) |-> IF s = {} THEN w
                                             ELSE Apply(f[s \ {Max(s)}], sent[Max(s)], live)]
           S == {k \in 0 .. n : \E f : By(f, k)}
           Eq(f) == f = [s \in SUBSET (1 .. n) |-> IF s = {} THEN w
                                      ELSE Apply(f[s \ {Max(s)}], sent[Max(s)], live)]
           iter == CHOOSE f : Eq(f)
           st == [k \in 0 .. n |-> iter[1 .. k]]
<1>1. n \in Nat /\ DOMAIN sent = 1 .. n
  OBVIOUS
<1>2. Applied(w, sent, live)
         = (CHOOSE f : f = [s \in SUBSET (DOMAIN sent) |-> IF s = {} THEN w
                              ELSE Apply(f[s \ {Max(s)}], sent[Max(s)], live)])[DOMAIN sent]
  BY DEF Applied, FoldLeft, MapThenFoldSet
<1>. HIDE DEF n
<1>3. Applied(w, sent, live) = iter[1 .. n]
  BY <1>1, <1>2
<1>4. \A s : Max(s) = Greatest(s)
  BY DEF Max, Greatest
<1>5. \A s \in SUBSET (1 .. n) : Cardinality(s) \in 0 .. n
  BY <1>1, PositionsCount
<1>6. 0 \in S
  <2>1. \A s \in Sub(0) : s = {}
    <3> SUFFICES ASSUME NEW s \in Sub(0), s # {}
                 PROVE  FALSE
      OBVIOUS
    <3>1. /\ s \ {Greatest(s)} \in SUBSET (1 .. n)
          /\ Cardinality(s \ {Greatest(s)}) = Cardinality(s) - 1
      BY <1>1, PositionsCount
    <3>2. Cardinality(s \ {Greatest(s)}) \in 0 .. n /\ Cardinality(s) \in 0 .. n
      BY <1>5, <3>1
    <3>. QED  BY <3>1, <3>2
  <2>2. By([s \in Sub(0) |-> w], 0)
    BY <2>1
  <2>3. 0 \in 0 .. n
    BY <1>1
  <2>. HIDE DEF By
  <2>. QED  BY <2>2, <2>3
<1>7. ASSUME NEW k \in 0 .. n - 1, k \in S
      PROVE  k + 1 \in S
  <2>1. PICK h : By(h, k)
    BY <1>7
  <2> DEFINE more == [s \in Sub(k + 1) |->
                        IF s = {} THEN w
                        ELSE Apply(h[s \ {Max(s)}], sent[Max(s)], live)]
  <2>2. ASSUME NEW s \in Sub(k + 1), s # {}
        PROVE  s \ {Max(s)} \in Sub(k) /\ s \ {Max(s)} \in Sub(k + 1)
    <3>1. /\ s \ {Max(s)} \in SUBSET (1 .. n) /\ Cardinality(s) <= k + 1
          /\ Cardinality(s \ {Max(s)}) = Cardinality(s) - 1
      BY <1>1, <1>4, <2>2, PositionsCount
    <3>2. Cardinality(s) \in Int /\ k \in Int
      BY <1>1, <1>5
    <3>. QED  BY <3>1, <3>2
  <2>. HIDE DEF Sub
  <2>3. \A s \in Sub(k + 1) : s \in Sub(k) => more[s] = h[s]
    BY <2>1
  <2>4. By(more, k + 1)
    BY <2>2, <2>3
  <2>5. k + 1 \in 0 .. n
    BY <1>1
  <2>. HIDE DEF more, By
  <2>. QED  BY <2>4, <2>5
<1>. HIDE DEF S
<1>8. n \in S
  <2>1. n \in 0 .. n
    BY <1>1
  <2>2. 0 .. n \subseteq S
    BY <1>1, <1>6, <1>7, IntervalInduction
  <2>. QED  BY <2>1, <2>2
<1>9. \E f : Eq(f)
  <2>1. PICK f : By(f, n)
    BY <1>8 DEF S
  <2>2. Sub(n) = SUBSET (1 .. n)
    BY <1>5
  <2>. QED  BY <2>1, <2>2
<1>10. Eq(iter)
  BY <1>9
<1>. HIDE DEF iter
<1>11. iter[1 .. 0] = w
  BY <1>10
<1>12. ASSUME NEW k \in 1 .. n
       PROVE  iter[1 .. k] = Apply(iter[1 .. k - 1], sent[k], live)
  <2>1. /\ 1 .. k \in SUBSET (1 .. n) /\ 1 .. k # {}
        /\ Greatest(1 .. k) = k /\ (1 .. k) \ {k} = 1 .. k - 1
    BY <1>1, IntervalTop
  <2>2. Max(1 .. k) = k
    BY <2>1, <1>4
  <2>. QED  BY <1>10, <2>1, <2>2
<1>13. st[0] = w /\ st[n] = iter[1 .. n]
  BY <1>1, <1>11
<1>14. \A k \in 1 .. n : st[k] = Apply(st[k - 1], sent[k], live)
  BY <1>1, <1>12
<1>. HIDE DEF st
<1>. QED  BY <1>3, <1>13, <1>14 DEF n

(***************************************************************************)
(* What the owner has after commands without a connect among them.         *)
(***************************************************************************)
Views == [o : Owners, wire : Seq(Items), close : BOOLEAN]

Alike(o, p) ==
    /\ p.at = o.at /\ p.inbound = o.inbound /\ p.inbound_tx = o.inbound_tx
    /\ p.ctrl_pending = o.ctrl_pending

Done(v, c, r) ==
    /\ r \in Views
    /\ Alike(v.o, r.o)
    /\ r.o.readers => v.o.readers \/ c.kind = "readers"
    /\ r.wire = v.wire \/ r.wire = v.wire \o c.items

(* One command: the hold is untouched, the wire grows by its items or not  *)
(* at all.                                                                 *)
LEMMA PerformDone ==
    ASSUME NEW v \in Views, NEW c \in Commands, c.kind # "connect"
    PROVE  Done(v, c, Perform(v, c))
<1>1. /\ v.o \in Owners /\ v.wire \in Seq(Items) /\ v.close \in BOOLEAN
      /\ v = [o |-> v.o, wire |-> v.wire, close |-> v.close]
  BY DEF Views
<1>2. /\ c.items \in Seq(Items) /\ c.req \in Nat
      /\ c.kind \in {"send", "stream", "readers", "close"}
  BY DEF Commands
<1>3. CASE c.kind = "send"
  <2> DEFINE more == IF conn = "up" THEN v.wire \o c.items ELSE v.wire
  <2>1. Perform(v, c) = [o |-> v.o, wire |-> more, close |-> v.close]
    BY <1>1, <1>3 DEF Perform
  <2>2. more \in Seq(Items) /\ (more = v.wire \/ more = v.wire \o c.items)
    BY <1>1, <1>2
  <2>. HIDE DEF more
  <2>. QED  BY <1>1, <2>1, <2>2 DEF Done, Views, Alike
<1>4. CASE c.kind = "stream"
  <2> DEFINE p == [v.o EXCEPT !.streams = Append(v.o.streams, c.req)]
  <2>1. Perform(v, c) = [o |-> p, wire |-> v.wire, close |-> v.close]
    BY <1>1, <1>4 DEF Perform, Owners
  <2>2. p \in Owners
    <3>1. v.o.streams \in Seq(Nat)
      BY <1>1, OwnerFields
    <3>2. Append(v.o.streams, c.req) \in Seq(Nat)
      BY <1>2, <3>1
    <3>. QED  BY <1>1, <3>2, OwnerReplaced, Zenon
  <2>3. Alike(v.o, p) /\ p.readers = v.o.readers
    BY <1>1 DEF Alike, Owners
  <2>. HIDE DEF p
  <2>. QED  BY <1>1, <2>1, <2>2, <2>3 DEF Done, Views
<1>5. CASE c.kind = "readers"
  <2> DEFINE p == [v.o EXCEPT !.readers = TRUE, !.reader_dead = FALSE]
  <2>1. Perform(v, c) = [o |-> p, wire |-> v.wire, close |-> v.close]
    BY <1>1, <1>5 DEF Perform, Owners
  <2>2. p \in Owners
    BY <1>1, OwnerReplaced, Zenon
  <2>3. Alike(v.o, p)
    BY <1>1 DEF Alike, Owners
  <2>. HIDE DEF p
  <2>. QED  BY <1>1, <1>5, <2>1, <2>2, <2>3 DEF Done, Views
<1>6. CASE c.kind = "close"
  <2>1. Perform(v, c) = [o |-> v.o, wire |-> v.wire, close |-> TRUE]
    BY <1>1, <1>6 DEF Perform
  <2>. QED  BY <1>1, <2>1 DEF Done, Views, Alike
<1>. QED  BY <1>2, <1>3, <1>4, <1>5, <1>6

(* The order of what is put on the wire.                                   *)
LEMMA OrderedJoined ==
    ASSUME NEW s \in Seq(Items), NEW t \in Seq(Items),
           Ordered(s), Ordered(t), Ahead(s, t)
    PROVE  /\ s \o t \in Seq(Items) /\ Ordered(s \o t)
           /\ \A u : Ahead(s, u) /\ Ahead(t, u) => Ahead(s \o t, u)
           /\ \A n : UpTo(s, n) /\ UpTo(t, n) => UpTo(s \o t, n)
<1> DEFINE m == Len(s)
           n == Len(t)
           c == s \o t
<1>1. /\ m \in Nat /\ n \in Nat /\ c \in Seq(Items) /\ Len(c) = m + n
      /\ \A i \in 1 .. m + n : c[i] = IF i <= m THEN s[i] ELSE t[i - m]
  OBVIOUS
<1>2. /\ \A i, k \in 1 .. m : i < k => Goes(s[i], s[k])
      /\ \A i, k \in 1 .. n : i < k => Goes(t[i], t[k])
      /\ \A i \in 1 .. m, k \in 1 .. n : Goes(s[i], t[k])
  BY DEF Ordered, Ahead
<1>. HIDE DEF m, n, c
<1>3. \A i \in 1 .. m + n : \/ i \in 1 .. m /\ c[i] = s[i]
                            \/ i - m \in 1 .. n /\ i > m /\ c[i] = t[i - m]
  BY <1>1
<1>4. ASSUME NEW i \in 1 .. m + n, NEW k \in 1 .. m + n, i < k
      PROVE  Goes(c[i], c[k])
  <2>1. CASE i \in 1 .. m /\ c[i] = s[i] /\ k \in 1 .. m /\ c[k] = s[k]
    BY <1>2, <1>4, <2>1
  <2>2. CASE i \in 1 .. m /\ c[i] = s[i] /\ k - m \in 1 .. n /\ c[k] = t[k - m]
    BY <1>2, <2>2
  <2>3. CASE i - m \in 1 .. n /\ c[i] = t[i - m] /\ k - m \in 1 .. n /\ c[k] = t[k - m]
    <3>1. i - m < k - m
      BY <1>1, <1>4
    <3>. QED  BY <1>2, <2>3, <3>1
  <2>4. ~ (i > m /\ k \in 1 .. m)
    BY <1>1, <1>4
  <2>. QED  BY <1>3, <2>1, <2>2, <2>3, <2>4
<1>5. Ordered(c)
  BY <1>1, <1>4 DEF Ordered
<1>6. ASSUME NEW u, Ahead(s, u), Ahead(t, u)
      PROVE  Ahead(c, u)
  <2>1. \A i \in 1 .. m + n, k \in 1 .. Len(u) : Goes(c[i], u[k])
    BY <1>3, <1>6 DEF Ahead, m, n
  <2>. QED  BY <1>1, <2>1 DEF Ahead
<1>7. ASSUME NEW x, UpTo(s, x), UpTo(t, x)
      PROVE  UpTo(c, x)
  <2>1. \A i \in 1 .. m + n : c[i][2] <= x
    BY <1>3, <1>7 DEF UpTo, m, n
  <2>. QED  BY <1>1, <2>1 DEF UpTo
<1>. QED  BY <1>1, <1>5, <1>6, <1>7 DEF c

(* All that was queued.                                                    *)
After(w) ==
    /\ w \in Views
    /\ Alike(owner, w.o)
    /\ w.o.readers => owner.readers \/ \E i \in 1 .. Len(io) : io[i].kind = "readers"
    /\ Ordered(w.wire) /\ SlotBehind(w.wire)

(* A turn of the owner: the readers are started only by a command, and the *)
(* wire stays ordered.                                                     *)
LEMMA PerformedAll ==
    ASSUME TasksTyped, Pipeline, \A i \in 1 .. Len(io) : io[i].kind # "connect"
    PROVE  After(Performed([o |-> owner, wire |-> wire, close |-> FALSE], io))
<1> DEFINE n == Len(io)
           first == [o |-> owner, wire |-> wire, close |-> FALSE]
<1>1. /\ owner \in Owners /\ wire \in Seq(Items) /\ io \in Seq(Commands) /\ n \in Nat
      /\ \A k \in 1 .. n : io[k] \in Commands
  BY DEF TasksTyped
<1>2. PICK st : /\ st[0] = first
                /\ \A k \in 1 .. n : st[k] = Perform(st[k - 1], io[k])
                /\ Performed(first, io) = st[n]
  BY <1>1, PerformSteps
<1> DEFINE Good(k) == After(st[k]) /\ \A j \in k + 1 .. n : Ahead(st[k].wire, io[j].items)
           S == {k \in 0 .. n : Good(k)}
<1>3. 0 \in S
  <2>1. first \in Views /\ first.o = owner /\ first.wire = wire
    BY <1>1 DEF Views
  <2>2. After(first)
    BY <2>1 DEF After, Alike, Pipeline
  <2>3. \A j \in 1 .. n : Ahead(wire, io[j].items)
    BY DEF Pipeline
  <2>4. st[0].wire = wire
    BY <1>2, <2>1
  <2>. HIDE DEF first
  <2>. QED  BY <1>1, <1>2, <2>2, <2>3, <2>4
<1>. HIDE DEF first
<1>4. ASSUME NEW k \in 0 .. n - 1, k \in S
      PROVE  k + 1 \in S
  <2> DEFINE v == st[k]
             c == io[k + 1]
             r == st[k + 1]
  <2>1. k + 1 \in 1 .. n /\ (k + 1) - 1 = k /\ k \in Nat
    BY <1>1
  <2>2. After(v) /\ \A j \in k + 1 .. n : Ahead(v.wire, io[j].items)
    BY <1>4
  <2>3. c \in Commands /\ c.kind # "connect" /\ v \in Views
    BY <1>1, <2>1, <2>2 DEF After
  <2>4. r = Perform(v, c)
    BY <1>2, <2>1
  <2>5. Done(v, c, r)
    BY <2>3, <2>4, PerformDone
  <2>6. Ordered(c.items) /\ SlotBehind(c.items) /\ c.items \in Seq(Items)
        /\ \A j \in (k + 1) + 1 .. n : Ahead(c.items, io[j].items)
    BY <2>1, <2>3 DEF Pipeline, Commands
  <2>7. Ahead(v.wire, c.items) /\ v.wire \in Seq(Items)
        /\ Ordered(v.wire) /\ SlotBehind(v.wire)
        /\ \A j \in (k + 1) + 1 .. n : Ahead(v.wire, io[j].items)
    <3>1. \A j \in (k + 1) + 1 .. n : j \in k + 1 .. n
      BY <1>1, <2>1
    <3>2. k + 1 \in k + 1 .. n
      BY <1>1, <2>1
    <3>. HIDE DEF v
    <3>3. Ahead(v.wire, io[k + 1].items)
      BY <2>2, <3>2
    <3>4. \A j \in (k + 1) + 1 .. n : Ahead(v.wire, io[j].items)
      BY <2>2, <3>1
    <3>5. v.wire \in Seq(Items) /\ Ordered(v.wire) /\ SlotBehind(v.wire)
      BY <2>2 DEF After, Views
    <3>. QED  BY <3>3, <3>4, <3>5
  <2>. HIDE DEF v, c, r
  <2>8. /\ Ordered(r.wire) /\ SlotBehind(r.wire)
        /\ \A j \in (k + 1) + 1 .. n : Ahead(r.wire, io[j].items)
    <3>1. CASE r.wire = v.wire
      BY <2>7, <3>1
    <3>2. CASE r.wire = v.wire \o c.items
      BY <2>6, <2>7, <3>2, OrderedJoined DEF SlotBehind
    <3>. QED  BY <2>5, <3>1, <3>2 DEF Done
  <2>9. After(r)
    <3>1. c.kind = "readers" => \E i \in 1 .. n : io[i].kind = "readers"
      BY <2>1 DEF c
    <3>. QED  BY <2>2, <2>5, <2>8, <3>1 DEF After, Done, Alike
  <2>. QED  BY <1>1, <2>1, <2>8, <2>9 DEF r
<1>. HIDE DEF S
<1>5. n \in S
  <2>1. 0 .. n \subseteq S
    BY <1>1, <1>3, <1>4, IntervalInduction
  <2>. QED  BY <1>1, <2>1
<1>6. After(st[n])
  BY <1>5 DEF S
<1>. QED  BY <1>2, <1>6 DEF first

(***************************************************************************)
(* What the sender believes after the commands of a turn: the path is      *)
(* known once it is added, and until a removal, which comes last.          *)
(***************************************************************************)
Beliefs == [known : BOOLEAN,
            at : {"connect", "connecting", "connected", "failed", "asked", "added",
                  "running", "removing", "removed"},
            report : Reports]

Believed(v, w) ==
    /\ w \in Beliefs
    /\ w.at = v.at \/ (v.at = "asked" /\ w.at = "added")
    /\ w.at \in {"added", "running"} => w.known

(* One command at the sender: a path is added only when asked for, and     *)
(* known then.                                                             *)
LEMMA ApplyBelieved ==
    ASSUME NEW v \in Beliefs, NEW c \in {"add", "remove", "tick", "revive"},
           NEW live \in BOOLEAN,
           v.at \in {"added", "running"} => v.known, c = "remove" => v.at = "removed"
    PROVE  Believed(v, Apply(v, c, live))
<1>1. /\ v.known \in BOOLEAN /\ v.report \in Reports
      /\ v = [known |-> v.known, at |-> v.at, report |-> v.report]
  BY DEF Beliefs
<1>2. CASE c = "add"
  <2>1. Apply(v, c, live) = [known |-> TRUE, at |-> IF v.at = "asked" THEN "added" ELSE v.at,
                             report |-> v.report]
    BY <1>1, <1>2 DEF Apply
  <2>. QED  BY <2>1 DEF Believed, Beliefs
<1>3. CASE c = "remove"
  <2>1. Apply(v, c, live) = [known |-> FALSE, at |-> v.at, report |-> v.report]
    BY <1>1, <1>3 DEF Apply
  <2>2. v.at = "removed"
    BY <1>3
  <2>. QED  BY <1>1, <2>1, <2>2 DEF Believed, Beliefs
<1>4. CASE c = "tick"
  <2> DEFINE asked == IF v.known /\ live THEN [v.report EXCEPT !.at = "send", !.left = 2]
                      ELSE [v.report EXCEPT !.at = "idle"]
  <2>1. Apply(v, c, live) = [known |-> v.known, at |-> v.at, report |-> asked]
    BY <1>1, <1>4 DEF Apply
  <2>2. asked \in Reports
    <3>1. [v.report EXCEPT !.at = "send", !.left = 2] \in Reports
      <4>1. \A l \in Int : [v.report EXCEPT !.at = "send", !.left = l] \in Reports
        BY <1>1 DEF Reports
      <4>2. 2 \in Int
        OBVIOUS
      <4>. QED  BY <4>1, <4>2, Zenon
    <3>2. [v.report EXCEPT !.at = "idle"] \in Reports
      BY <1>1 DEF Reports
    <3>. QED  BY <3>1, <3>2
  <2>. HIDE DEF asked
  <2>. QED  BY <1>1, <2>1, <2>2 DEF Believed, Beliefs
<1>5. CASE c = "revive"
  <2>1. Apply(v, c, live) = v
    BY <1>5 DEF Apply
  <2>. QED  BY <2>1 DEF Believed
<1>. QED  BY <1>2, <1>3, <1>4, <1>5

(* A turn of the sender.                                                   *)
LEMMA AppliedAll ==
    ASSUME TasksTyped, Phases, NEW live \in BOOLEAN
    PROVE  Believed([known |-> known, at |-> path_cmd, report |-> report],
                    Applied([known |-> known, at |-> path_cmd, report |-> report], cmds, live))
<1> DEFINE n == Len(cmds)
           first == [known |-> known, at |-> path_cmd, report |-> report]
           T == {"add", "remove", "tick", "revive"}
<1>1. /\ cmds \in Seq(T) /\ n \in Nat /\ \A k \in 1 .. n : cmds[k] \in T
      /\ \A k \in 1 .. n : cmds[k] = "remove" => path_cmd = "removed"
  BY DEF TasksTyped, Phases
<1>2. \E st : /\ st[0] = first
              /\ \A k \in 1 .. Len(cmds) : st[k] = Apply(st[k - 1], cmds[k], live)
              /\ Applied(first, cmds, live) = st[Len(cmds)]
  <2>. HIDE DEF first, T
  <2>1. cmds \in Seq(T)
    BY <1>1
  <2>. QED  BY <2>1, ApplySteps
<1>9. PICK st : /\ st[0] = first
                /\ \A k \in 1 .. n : st[k] = Apply(st[k - 1], cmds[k], live)
                /\ Applied(first, cmds, live) = st[n]
  BY <1>2
<1>3. Believed(first, first)
  BY DEF Believed, Beliefs, Phases, TasksTyped
<1>4. first.at = path_cmd
  OBVIOUS
<1>. HIDE DEF first, T
<1> DEFINE S == {k \in 0 .. n : Believed(first, st[k])}
<1>5. 0 \in S
  BY <1>1, <1>9, <1>3
<1>6. ASSUME NEW k \in 0 .. n - 1, k \in S
      PROVE  k + 1 \in S
  <2> DEFINE v == st[k]
             c == cmds[k + 1]
             r == st[k + 1]
  <2>1. k + 1 \in 1 .. n /\ (k + 1) - 1 = k
    BY <1>1
  <2>2. Believed(first, v)
    BY <1>6
  <2>3. c \in T /\ (c = "remove" => path_cmd = "removed")
    BY <1>1, <2>1
  <2>4. r = Apply(v, c, live)
    BY <1>9, <2>1
  <2>. HIDE DEF v, c, r
  <2>5. v \in Beliefs /\ (v.at \in {"added", "running"} => v.known)
        /\ (c = "remove" => v.at = "removed")
    BY <1>4, <2>2, <2>3 DEF Believed
  <2>6. Believed(v, r)
    BY <2>3, <2>4, <2>5, ApplyBelieved DEF T
  <2>7. Believed(first, r)
    BY <2>2, <2>6 DEF Believed
  <2>. QED  BY <1>1, <2>1, <2>7 DEF r
<1>. HIDE DEF S
<1>7. n \in S
  <2>1. 0 .. n \subseteq S
    BY <1>1, <1>5, <1>6, IntervalInduction
  <2>. QED  BY <1>1, <2>1
<1>8. Believed(first, st[n])
  BY <1>7 DEF S
<1>. QED  BY <1>9, <1>8 DEF first

-----------------------------------------------------------------------------
(***************************************************************************)
(* Counting what arrives.                                                  *)
(***************************************************************************)
LEMMA NothingCounts ==
    ASSUME NEW L, NEW a \in Nat
    PROVE  Counts(L, <<>>, a, a) /\ Counts(L, <<0>>, a, a) /\ Sorted(<<>>)
<1>1. Len(<<>>) = 0 /\ Len(<<0>>) = 1 /\ <<0>>[1] = 0
  OBVIOUS
<1>2. Counts(L, <<>>, a, a) /\ Sorted(<<>>)
  BY <1>1 DEF Counts, Sorted
<1>3. Counts(L, <<0>>, a, a)
  BY <1>1 DEF Counts
<1>. QED  BY <1>2, <1>3

(* One sequence after another.                                             *)
LEMMA CountsJoined ==
    ASSUME NEW L, NEW s \in Seq(Nat), NEW t \in Seq(Nat),
           NEW a \in Nat, NEW b \in Nat, NEW d \in Nat,
           Counts(L, s, a, b), Counts(L, t, b, d)
    PROVE  /\ s \o t \in Seq(Nat) /\ Counts(L, s \o t, a, d)
           /\ Sorted(s) /\ Sorted(t) => Sorted(s \o t)
<1> DEFINE m == Len(s)
           n == Len(t)
           c == s \o t
<1>1. /\ m \in Nat /\ n \in Nat /\ c \in Seq(Nat) /\ Len(c) = m + n
      /\ \A i \in 1 .. m + n : c[i] = IF i <= m THEN s[i] ELSE t[i - m]
      /\ \A i \in 1 .. m : s[i] \in Nat
      /\ \A i \in 1 .. n : t[i] \in Nat
  BY SMTT(20)
<1>2. /\ a <= b
      /\ \A i \in 1 .. m : s[i] = 0 \/ (a < s[i] /\ s[i] <= b /\ s[i] \notin L)
      /\ \A i, k \in 1 .. m : i < k /\ s[i] # 0 /\ s[k] # 0 => s[i] < s[k]
      /\ \A v \in a + 1 .. b : v \in L \/ \E i \in 1 .. m : s[i] = v
  BY DEF Counts
<1>3. /\ b <= d
      /\ \A i \in 1 .. n : t[i] = 0 \/ (b < t[i] /\ t[i] <= d /\ t[i] \notin L)
      /\ \A i, k \in 1 .. n : i < k /\ t[i] # 0 /\ t[k] # 0 => t[i] < t[k]
      /\ \A v \in b + 1 .. d : v \in L \/ \E i \in 1 .. n : t[i] = v
  BY DEF Counts
<1>4. /\ Sorted(s) => \A i \in 1 .. m : s[i] # 0
      /\ Sorted(t) => \A i \in 1 .. n : t[i] # 0
  BY DEF Sorted
<1>. HIDE DEF m, n, c
<1>5. \A i \in 1 .. m + n : \/ i \in 1 .. m /\ c[i] = s[i] /\ c[i] \in Nat
                            \/ i - m \in 1 .. n /\ i > m /\ c[i] = t[i - m] /\ c[i] \in Nat
  BY <1>1
<1>6. ASSUME NEW i \in 1 .. m + n
      PROVE  c[i] = 0 \/ (a < c[i] /\ c[i] <= d /\ c[i] \notin L)
  <2>1. CASE i \in 1 .. m /\ c[i] = s[i] /\ c[i] \in Nat
    BY <1>2, <1>3, <2>1
  <2>2. CASE i - m \in 1 .. n /\ c[i] = t[i - m] /\ c[i] \in Nat
    BY <1>2, <1>3, <2>2
  <2>. QED  BY <1>5, <2>1, <2>2
<1>7. ASSUME NEW i \in 1 .. m + n, NEW k \in 1 .. m + n, i < k, c[i] # 0, c[k] # 0
      PROVE  c[i] < c[k]
  <2>1. CASE i \in 1 .. m /\ c[i] = s[i] /\ k \in 1 .. m /\ c[k] = s[k]
    BY <1>2, <1>7, <2>1
  <2>2. CASE /\ i \in 1 .. m /\ c[i] = s[i] /\ c[i] \in Nat
             /\ k - m \in 1 .. n /\ c[k] = t[k - m] /\ c[k] \in Nat
    <3>1. c[i] <= b /\ b < c[k]
      BY <1>2, <1>3, <1>7, <2>2
    <3>. QED  BY <2>2, <3>1, SMTT(20)
  <2>3. CASE i - m \in 1 .. n /\ c[i] = t[i - m] /\ k - m \in 1 .. n /\ c[k] = t[k - m]
    <3>1. i - m < k - m
      BY <1>1, <1>7
    <3>. QED  BY <1>3, <1>7, <2>3, <3>1
  <2>4. ~ (i > m /\ k \in 1 .. m)
    BY <1>1, <1>7
  <2>. QED  BY <1>5, <2>1, <2>2, <2>3, <2>4
<1>8. ASSUME NEW v \in a + 1 .. d, v \notin L
      PROVE  \E i \in 1 .. m + n : c[i] = v
  <2>1. CASE v <= b
    <3>1. v \in a + 1 .. b
      BY <2>1
    <3>2. PICK i \in 1 .. m : s[i] = v
      BY <1>2, <1>8, <3>1
    <3>3. i \in 1 .. m + n /\ i <= m
      BY <1>1
    <3>. QED  BY <1>1, <3>2, <3>3
  <2>2. CASE ~ (v <= b)
    <3>1. v \in b + 1 .. d
      BY <2>2
    <3>2. PICK i \in 1 .. n : t[i] = v
      BY <1>3, <1>8, <3>1
    <3>3. m + i \in 1 .. m + n /\ ~ (m + i <= m) /\ (m + i) - m = i
      BY <1>1
    <3>. QED  BY <1>1, <3>2, <3>3
  <2>. QED  BY <2>1, <2>2
<1>9. a <= d
  BY <1>2, <1>3
<1>10. Counts(L, c, a, d)
  BY <1>1, <1>6, <1>7, <1>8, <1>9 DEF Counts
<1>11. ASSUME Sorted(s), Sorted(t)
       PROVE  Sorted(c)
  <2>1. \A i \in 1 .. m + n : c[i] # 0
    BY <1>4, <1>5, <1>11
  <2>. QED  BY <1>1, <2>1 DEF Sorted
<1>. QED  BY <1>1, <1>10, <1>11 DEF c

(* A sequence that counts, cut in two: each part counts.                   *)
LEMMA CountsSplit ==
    ASSUME NEW L, NEW s \in Seq(Nat), NEW n \in 0 .. Len(s), NEW a \in Nat, NEW b \in Nat,
           Counts(L, s, a, b)
    PROVE  \E c \in Nat : /\ Counts(L, SubSeq(s, 1, n), a, c)
                          /\ Counts(L, SubSeq(s, n + 1, Len(s)), c, b)
<1> DEFINE m == Len(s)
           f == SubSeq(s, 1, n)
           r == SubSeq(s, n + 1, Len(s))
           P == {i \in 1 .. n : s[i] # 0}
           c == IF P = {} THEN a ELSE s[Greatest(P)]
<1>1. /\ m \in Nat /\ n \in Nat /\ n <= m
      /\ \A i \in 1 .. m : s[i] \in Nat
      /\ Len(f) = n /\ \A i \in 1 .. n : f[i] = s[i]
      /\ Len(r) = m - n /\ \A i \in 1 .. m - n : r[i] = s[n + i]
  BY SMTT(20)
<1>2. /\ a <= b
      /\ \A i \in 1 .. m : s[i] = 0 \/ (a < s[i] /\ s[i] <= b /\ s[i] \notin L)
      /\ \A i, k \in 1 .. m : i < k /\ s[i] # 0 /\ s[k] # 0 => s[i] < s[k]
      /\ \A v \in a + 1 .. b : v \in L \/ \E i \in 1 .. m : s[i] = v
  BY DEF Counts
<1>. HIDE DEF m, f, r
<1>3. ASSUME P # {}
      PROVE  /\ Greatest(P) \in 1 .. n /\ s[Greatest(P)] # 0 /\ c = s[Greatest(P)]
             /\ \A i \in 1 .. n : s[i] # 0 => i <= Greatest(P)
  <2>1. P \in SUBSET (1 .. n)
    OBVIOUS
  <2>2. Greatest(P) \in P /\ \A i \in P : i <= Greatest(P)
    BY <1>1, <1>3, <2>1, GreatestMember
  <2>. QED  BY <1>3, <2>2
<1>4. P = {} => c = a /\ \A i \in 1 .. n : s[i] = 0
  OBVIOUS
<1> DEFINE g == Greatest(P)
<1>. HIDE DEF P, c, g
<1>5. c \in Nat /\ a <= c /\ c <= b
  <2>1. CASE P = {}
    BY <1>2, <1>4, <2>1
  <2>2. CASE P # {}
    <3>1. g \in 1 .. m /\ s[g] # 0 /\ c = s[g]
      BY <1>1, <1>3, <2>2 DEF g
    <3>. QED  BY <1>1, <1>2, <3>1
  <2>. QED  BY <2>1, <2>2
<1>6. ASSUME NEW i \in 1 .. n, s[i] # 0
      PROVE  a < s[i] /\ s[i] <= c /\ s[i] \notin L
  <2>1. P # {} /\ g \in 1 .. n /\ s[g] # 0 /\ c = s[g] /\ i <= g
    BY <1>3, <1>4, <1>6 DEF g
  <2>2. i \in 1 .. m /\ g \in 1 .. m
    BY <1>1, <2>1
  <2>3. a < s[i] /\ s[i] \in Nat /\ s[g] \in Nat /\ s[i] \notin L
    BY <1>1, <1>2, <1>6, <2>2
  <2>4. i = g \/ i < g
    BY <2>1, <2>2
  <2>5. i < g => s[i] < s[g]
    BY <1>2, <1>6, <2>1, <2>2
  <2>. QED  BY <2>1, <2>3, <2>4, <2>5, SMTT(20)
<1>7. ASSUME NEW i \in n + 1 .. m, s[i] # 0
      PROVE  c < s[i] /\ s[i] <= b /\ s[i] \notin L
  <2>1. i \in 1 .. m
    BY <1>1
  <2>2. a < s[i] /\ s[i] <= b /\ s[i] \notin L
    BY <1>2, <1>7, <2>1
  <2>3. CASE P = {}
    BY <1>4, <2>2, <2>3
  <2>4. CASE P # {}
    <3>1. g \in 1 .. n /\ s[g] # 0 /\ c = s[g]
      BY <1>3, <2>4 DEF g
    <3>2. g \in 1 .. m /\ g < i
      BY <1>1, <3>1
    <3>3. s[g] < s[i]
      BY <1>2, <1>7, <2>1, <3>1, <3>2
    <3>. QED  BY <2>2, <3>1, <3>3
  <2>. QED  BY <2>3, <2>4
<1>8. ASSUME NEW v \in a + 1 .. c, v \notin L
      PROVE  \E i \in 1 .. n : s[i] = v
  <2>1. v \in a + 1 .. b /\ v # 0 /\ v <= c
    BY <1>5
  <2>2. PICK i \in 1 .. m : s[i] = v
    BY <1>2, <1>8, <2>1
  <2>3. i \in 1 .. n \/ i \in n + 1 .. m
    BY <1>1
  <2>4. i \in n + 1 .. m => c < v
    BY <1>7, <2>1, <2>2
  <2>. QED  BY <1>5, <2>1, <2>2, <2>3, <2>4
<1>9. ASSUME NEW v \in c + 1 .. b, v \notin L
      PROVE  \E i \in n + 1 .. m : s[i] = v
  <2>1. v \in a + 1 .. b /\ v # 0 /\ c < v
    BY <1>5
  <2>2. PICK i \in 1 .. m : s[i] = v
    BY <1>2, <1>9, <2>1
  <2>3. i \in 1 .. n \/ i \in n + 1 .. m
    BY <1>1
  <2>4. i \in 1 .. n => v <= c
    BY <1>6, <2>1, <2>2
  <2>. QED  BY <1>5, <2>1, <2>2, <2>3, <2>4
<1>10. Counts(L, f, a, c)
  <2>1. \A i \in 1 .. n : f[i] = 0 \/ (a < f[i] /\ f[i] <= c /\ f[i] \notin L)
    BY <1>1, <1>6
  <2>2. ASSUME NEW i \in 1 .. n, NEW k \in 1 .. n, i < k, f[i] # 0, f[k] # 0
        PROVE  f[i] < f[k]
    <3>1. i \in 1 .. m /\ k \in 1 .. m /\ f[i] = s[i] /\ f[k] = s[k]
      BY <1>1
    <3>. QED  BY <1>2, <2>2, <3>1
  <2>3. \A v \in a + 1 .. c : v \in L \/ \E i \in 1 .. n : f[i] = v
    BY <1>1, <1>8
  <2>. QED  BY <1>1, <1>5, <2>1, <2>2, <2>3 DEF Counts
<1>11. Counts(L, r, c, b)
  <2>1. \A i \in 1 .. m - n : n + i \in n + 1 .. m /\ n + i \in 1 .. m
    BY <1>1
  <2>2. \A i \in 1 .. m - n : r[i] = 0 \/ (c < r[i] /\ r[i] <= b /\ r[i] \notin L)
    BY <1>1, <1>7, <2>1
  <2>3. ASSUME NEW i \in 1 .. m - n, NEW k \in 1 .. m - n, i < k, r[i] # 0, r[k] # 0
        PROVE  r[i] < r[k]
    <3>1. n + i < n + k
      BY <1>1, <2>3
    <3>. QED  BY <1>1, <1>2, <2>1, <2>3, <3>1
  <2>4. ASSUME NEW v \in c + 1 .. b, v \notin L
        PROVE  \E i \in 1 .. m - n : r[i] = v
    <3>1. PICK i \in n + 1 .. m : s[i] = v
      BY <1>9, <2>4
    <3>2. i - n \in 1 .. m - n /\ n + (i - n) = i
      BY <1>1
    <3>. QED  BY <1>1, <3>1, <3>2
  <2>. QED  BY <1>1, <1>5, <2>2, <2>3, <2>4 DEF Counts
<1>. QED  BY <1>5, <1>10, <1>11 DEF f, r

(* What is left of a sequence without its zeros, in its order.             *)
PlacedBy(at, o, s) ==
    /\ \A i, k \in 1 .. Len(o) : i < k => at[i] < at[k]
    /\ \A k \in 1 .. Len(o) :
          at[k] \in 1 .. Len(s) /\ s[at[k]] \in Nat \ {0} /\ o[k] = s[at[k]]
    /\ \A i \in 1 .. Len(s) : s[i] \in Nat \ {0} => \E k \in 1 .. Len(o) : at[k] = i

(* Own keeps the elements that are not 0, and their order.                 *)
LEMMA OwnElements ==
    ASSUME NEW T, NEW s \in Seq(T)
    PROVE  Own(s) \in Seq(T) /\ \E at : PlacedBy(at, Own(s), s)
<1> DEFINE P == Nat \ {0}
           o == Kept(s, P)
<1>1. Own(s) = o
  BY DEF Own
<1>. HIDE DEF P
<1>2. o \in Seq(T)
  BY KeptElements
<1>3. PICK at \in [1 .. Len(o) -> {i \in 1 .. Len(s) : s[i] \in P}] :
         /\ \A i, k \in 1 .. Len(o) : i < k => at[i] < at[k]
         /\ \A k \in 1 .. Len(o) : o[k] = s[at[k]]
         /\ \A i \in 1 .. Len(s) : s[i] \in P => \E k \in 1 .. Len(o) : at[k] = i
  BY KeptElements
<1>. HIDE DEF o
<1>4. \A k \in 1 .. Len(o) : at[k] \in 1 .. Len(s) /\ s[at[k]] \in P
  BY <1>3
<1>5. PlacedBy(at, o, s)
  BY <1>3, <1>4 DEF PlacedBy, P
<1>. QED  BY <1>1, <1>2, <1>5

(* It counts as it did.                                                    *)
LEMMA CountsOwn ==
    ASSUME NEW L, NEW s \in Seq(Nat), NEW a \in Nat, NEW b \in Nat, Counts(L, s, a, b)
    PROVE  Own(s) \in Seq(Nat) /\ Counts(L, Own(s), a, b) /\ Sorted(Own(s))
<1> DEFINE o == Own(s)
           n == Len(o)
           m == Len(s)
<1>1. PICK at : PlacedBy(at, o, s)
  BY OwnElements
<1>2. o \in Seq(Nat)
  BY OwnElements
<1>3. /\ \A i, k \in 1 .. n : i < k => at[i] < at[k]
      /\ \A k \in 1 .. n : at[k] \in 1 .. m /\ s[at[k]] \in Nat \ {0} /\ o[k] = s[at[k]]
      /\ \A i \in 1 .. m : s[i] \in Nat \ {0} => \E k \in 1 .. n : at[k] = i
  BY <1>1 DEF PlacedBy
<1>4. n \in Nat /\ m \in Nat /\ \A i \in 1 .. m : s[i] \in Nat
  BY <1>2
<1>5. /\ a <= b
      /\ \A i \in 1 .. m : s[i] = 0 \/ (a < s[i] /\ s[i] <= b /\ s[i] \notin L)
      /\ \A i, k \in 1 .. m : i < k /\ s[i] # 0 /\ s[k] # 0 => s[i] < s[k]
      /\ \A v \in a + 1 .. b : v \in L \/ \E i \in 1 .. m : s[i] = v
  BY DEF Counts
<1>. HIDE DEF n, m, o
<1>6. \A k \in 1 .. n : at[k] \in 1 .. m /\ s[at[k]] # 0 /\ o[k] = s[at[k]]
  BY <1>3
<1>7. \A k \in 1 .. n : o[k] # 0 /\ a < o[k] /\ o[k] <= b /\ o[k] \notin L
  BY <1>5, <1>6
<1>8. ASSUME NEW i \in 1 .. n, NEW k \in 1 .. n, i < k
      PROVE  o[i] < o[k]
  <2>1. at[i] < at[k]
    BY <1>3, <1>8
  <2>2. s[at[i]] < s[at[k]]
    BY <1>5, <1>6, <2>1
  <2>. QED  BY <1>6, <2>2
<1>9. ASSUME NEW v \in a + 1 .. b, v \notin L
      PROVE  \E k \in 1 .. n : o[k] = v
  <2>1. PICK i \in 1 .. m : s[i] = v
    BY <1>5, <1>9
  <2>2. v \in Nat \ {0}
    OBVIOUS
  <2>3. PICK k \in 1 .. n : at[k] = i
    BY <1>3, <2>1, <2>2
  <2>. QED  BY <1>6, <2>1, <2>3
<1>10. Counts(L, o, a, b) /\ Sorted(o)
  BY <1>5, <1>7, <1>8, <1>9 DEF Counts, Sorted, n
<1>. QED  BY <1>2, <1>10 DEF o

(* A sequence without zeros that counts from 0 ascends, and is all but L.  *)
LEMMA CountsAll ==
    ASSUME NEW L, NEW s \in Seq(Nat), NEW b \in Nat, Counts(L, s, 0, b), Sorted(s)
    PROVE  /\ \A i, k \in DOMAIN s : i < k => s[i] < s[k]
           /\ ToSet(s) = (1 .. b) \ L
<1>1. DOMAIN s = 1 .. Len(s) /\ \A i \in 1 .. Len(s) : s[i] \in Nat
  OBVIOUS
<1>2. /\ \A i \in 1 .. Len(s) : 0 < s[i] /\ s[i] <= b /\ s[i] \notin L
      /\ \A i, k \in 1 .. Len(s) : i < k => s[i] < s[k]
      /\ \A v \in 1 .. b : v \in L \/ \E i \in 1 .. Len(s) : s[i] = v
  BY DEF Counts, Sorted
<1>3. ToSet(s) = {s[i] : i \in 1 .. Len(s)}
  BY <1>1 DEF ToSet
<1>4. \A i \in 1 .. Len(s) : s[i] \in (1 .. b) \ L
  BY <1>1, <1>2
<1>. QED  BY <1>1, <1>2, <1>3, <1>4

(* What counted up to b also counts when more than b is dropped.           *)
LEMMA CountsLost ==
    ASSUME NEW L, NEW h \in Nat, NEW s \in Seq(Nat), NEW a \in Nat, NEW b \in Nat,
           Counts(L, s, a, b), b < h
    PROVE  Counts(L \cup {h}, s, a, b)
<1>1. \A i \in 1 .. Len(s) : s[i] \in Nat
  OBVIOUS
<1>2. \A i \in 1 .. Len(s) : s[i] <= b => s[i] # h
  BY <1>1
<1>. QED  BY <1>2 DEF Counts

(* The first element of a sequence that counts is dropped.                 *)
LEMMA CountsDropped ==
    ASSUME NEW L, NEW s \in Seq(Nat), NEW a \in Nat, NEW b \in Nat, Counts(L, s, a, b), s # <<>>
    PROVE  Counts(IF s[1] = 0 THEN L ELSE L \cup {s[1]}, Tail(s), a, b)
<1> DEFINE h == s[1]
           r == Tail(s)
           M == IF h = 0 THEN L ELSE L \cup {h}
           n == Len(s)
<1>1. /\ n \in Nat /\ n >= 1 /\ Len(r) = n - 1 /\ \A i \in 1 .. n : s[i] \in Nat
      /\ \A i \in 1 .. n - 1 : r[i] = s[i + 1] /\ i + 1 \in 1 .. n /\ 1 < i + 1
  OBVIOUS
<1>2. /\ a <= b
      /\ \A i \in 1 .. n : s[i] = 0 \/ (a < s[i] /\ s[i] <= b /\ s[i] \notin L)
      /\ \A i, k \in 1 .. n : i < k /\ s[i] # 0 /\ s[k] # 0 => s[i] < s[k]
      /\ \A v \in a + 1 .. b : v \in L \/ \E i \in 1 .. n : s[i] = v
  BY DEF Counts
<1>3. h = s[1] /\ h \in Nat /\ 1 \in 1 .. n /\ M = IF h = 0 THEN L ELSE L \cup {h}
  BY <1>1
<1>. HIDE DEF n, r, h, M
<1>4. ASSUME NEW i \in 1 .. n - 1, r[i] # 0
      PROVE  a < r[i] /\ r[i] <= b /\ r[i] \notin M
  <2>1. r[i] = s[i + 1] /\ i + 1 \in 1 .. n /\ 1 < i + 1
    BY <1>1
  <2>2. a < r[i] /\ r[i] <= b /\ r[i] \notin L
    BY <1>2, <1>4, <2>1
  <2>3. h # 0 => h < r[i]
    BY <1>2, <1>3, <1>4, <2>1
  <2>4. r[i] \in Nat
    BY <1>1, <2>1
  <2>. QED  BY <1>3, <2>2, <2>3, <2>4
<1>5. ASSUME NEW i \in 1 .. n - 1, NEW k \in 1 .. n - 1, i < k, r[i] # 0, r[k] # 0
      PROVE  r[i] < r[k]
  <2>1. /\ r[i] = s[i + 1] /\ i + 1 \in 1 .. n /\ r[k] = s[k + 1] /\ k + 1 \in 1 .. n
        /\ i + 1 < k + 1
    BY <1>1, <1>5
  <2>. QED  BY <1>2, <1>5, <2>1
<1>6. ASSUME NEW v \in a + 1 .. b, v \notin M
      PROVE  \E i \in 1 .. n - 1 : r[i] = v
  <2>1. v \notin L /\ v # 0
    BY <1>3, <1>6
  <2>2. PICK i \in 1 .. n : s[i] = v
    BY <1>2, <2>1
  <2>3. i # 1
    BY <1>3, <1>6, <2>1, <2>2
  <2>4. i - 1 \in 1 .. n - 1 /\ (i - 1) + 1 = i
    BY <1>1, <2>3
  <2>. QED  BY <1>1, <2>2, <2>4
<1>7. Counts(M, r, a, b)
  BY <1>1, <1>2, <1>4, <1>5, <1>6 DEF Counts
<1>. QED  BY <1>7 DEF M, r, h

(* An empty channel.                                                       *)
LEMMA ChainEmpty ==
    ASSUME NEW L, NEW a \in Nat
    PROVE  Chain(L, <<>>, a, a) /\ \A b : Chain(L, <<>>, a, b) => b = a
<1>1. Len(<<>>) = 0
  OBVIOUS
<1>2. Chained(L, <<>>, [i \in 0 .. 0 |-> a], a, a)
  BY <1>1 DEF Chained
<1>3. ASSUME NEW b, Chain(L, <<>>, a, b)
      PROVE  b = a
  BY <1>1, <1>3 DEF Chain, Chained
<1>. QED  BY <1>2, <1>3 DEF Chain

(* A batch put into a channel.                                             *)
LEMMA ChainAppended ==
    ASSUME NEW L, NEW q \in Seq(Seq(Nat)), NEW t \in Seq(Nat),
           NEW a \in Nat, NEW b \in Nat, NEW d \in Nat,
           Chain(L, q, a, b), Counts(L, t, b, d)
    PROVE  Chain(L, Append(q, t), a, d)
<1> DEFINE n == Len(q)
           r == Append(q, t)
<1>1. /\ n \in Nat /\ Len(r) = n + 1 /\ r[n + 1] = t
      /\ \A k \in 1 .. n : r[k] = q[k]
  OBVIOUS
<1>2. PICK p : Chained(L, q, p, a, b)
  BY DEF Chain
<1>3. /\ p \in [0 .. n -> Nat] /\ p[0] = a /\ p[n] = b
      /\ \A k \in 0 .. n : p[k] <= b
      /\ \A k \in 1 .. n : Counts(L, q[k], p[k - 1], p[k])
  BY <1>2 DEF Chained
<1>. HIDE DEF n, r
<1> DEFINE more == [k \in 0 .. n + 1 |-> IF k = n + 1 THEN d ELSE p[k]]
<1>4. \A k \in 0 .. n : more[k] = p[k]
  BY <1>1
<1>5. more \in [0 .. n + 1 -> Nat] /\ more[0] = a /\ more[n + 1] = d
  <2>1. \A k \in 0 .. n + 1 : k = n + 1 \/ k \in 0 .. n
    BY <1>1
  <2>. QED  BY <1>1, <1>3, <2>1
<1>. HIDE DEF more
<1>6. ASSUME NEW k \in 1 .. n + 1
      PROVE  Counts(L, r[k], more[k - 1], more[k])
  <2>1. CASE k = n + 1
    <3>1. k - 1 = n /\ n \in 0 .. n
      BY <1>1, <2>1
    <3>2. more[k - 1] = b /\ more[k] = d /\ r[k] = t
      BY <1>1, <1>3, <1>4, <1>5, <2>1, <3>1
    <3>. QED  BY <3>2
  <2>2. CASE k # n + 1
    <3>1. k \in 1 .. n /\ k \in 0 .. n /\ k - 1 \in 0 .. n
      BY <1>1, <2>2
    <3>. QED  BY <1>1, <1>3, <1>4, <3>1
  <2>. QED  BY <2>1, <2>2
<1>7. \A k \in 0 .. n + 1 : more[k] <= d
  <2>1. b <= d
    BY DEF Counts
  <2>2. \A k \in 0 .. n + 1 : k = n + 1 \/ k \in 0 .. n
    BY <1>1
  <2>3. \A k \in 0 .. n : more[k] \in Nat /\ more[k] <= b
    BY <1>3, <1>4
  <2>4. \A k \in 0 .. n : more[k] <= d
    BY <2>1, <2>3
  <2>. QED  BY <1>5, <2>2, <2>4
<1>8. Chained(L, r, more, a, d)
  BY <1>1, <1>5, <1>6, <1>7 DEF Chained
<1>. QED  BY <1>8 DEF Chain, r

(* The first batch taken from a channel.                                   *)
LEMMA ChainTaken ==
    ASSUME NEW L, NEW q \in Seq(Seq(Nat)), NEW a \in Nat, NEW b \in Nat, Chain(L, q, a, b), q # <<>>
    PROVE  \E c \in Nat : Counts(L, Head(q), a, c) /\ Chain(L, Tail(q), c, b)
<1> DEFINE n == Len(q)
           r == Tail(q)
<1>1. /\ n \in Nat /\ n >= 1 /\ Len(r) = n - 1 /\ Head(q) = q[1]
      /\ \A k \in 1 .. n - 1 : r[k] = q[k + 1]
  OBVIOUS
<1>2. PICK p : Chained(L, q, p, a, b)
  BY DEF Chain
<1>3. /\ p \in [0 .. n -> Nat] /\ p[0] = a /\ p[n] = b
      /\ \A k \in 0 .. n : p[k] <= b
      /\ \A k \in 1 .. n : Counts(L, q[k], p[k - 1], p[k])
  BY <1>2 DEF Chained
<1>. HIDE DEF n, r
<1> DEFINE rest == [k \in 0 .. n - 1 |-> p[k + 1]]
<1>4. \A k \in 0 .. n - 1 : rest[k] = p[k + 1] /\ k + 1 \in 0 .. n
  BY <1>1
<1>5. rest \in [0 .. n - 1 -> Nat] /\ rest[0] = p[1] /\ rest[n - 1] = b /\ p[1] \in Nat
  <2>1. 0 \in 0 .. n - 1 /\ n - 1 \in 0 .. n - 1 /\ (n - 1) + 1 = n /\ 0 + 1 = 1 /\ 1 \in 0 .. n
    BY <1>1
  <2>. QED  BY <1>3, <1>4, <2>1
<1>. HIDE DEF rest
<1>6. ASSUME NEW k \in 1 .. n - 1
      PROVE  Counts(L, r[k], rest[k - 1], rest[k])
  <2>1. /\ k + 1 \in 1 .. n /\ (k + 1) - 1 = k /\ k \in 0 .. n - 1
        /\ k - 1 \in 0 .. n - 1 /\ (k - 1) + 1 = k
    BY <1>1
  <2>2. rest[k - 1] = p[k] /\ rest[k] = p[k + 1] /\ r[k] = q[k + 1]
    BY <1>1, <1>4, <2>1
  <2>. QED  BY <1>3, <2>1, <2>2
<1>7. Chained(L, r, rest, p[1], b)
  <2>1. \A k \in 0 .. n - 1 : rest[k] <= b
    BY <1>3, <1>4
  <2>. QED  BY <1>1, <1>5, <1>6, <2>1 DEF Chained
<1>8. Counts(L, Head(q), a, p[1])
  <2>1. 1 \in 1 .. n /\ 1 - 1 = 0
    BY <1>1
  <2>. QED  BY <1>1, <1>3, <2>1
<1>. QED  BY <1>5, <1>7, <1>8 DEF Chain, r

(* What the channel carried is not what is dropped later.                  *)
LEMMA ChainLost ==
    ASSUME NEW L, NEW h \in Nat, NEW q \in Seq(Seq(Nat)), NEW a \in Nat, NEW b \in Nat,
           Chain(L, q, a, b), b < h
    PROVE  Chain(L \cup {h}, q, a, b)
<1>1. PICK p : Chained(L, q, p, a, b)
  BY DEF Chain
<1>2. /\ p \in [0 .. Len(q) -> Nat] /\ p[0] = a /\ p[Len(q)] = b
      /\ \A k \in 0 .. Len(q) : p[k] <= b
      /\ \A k \in 1 .. Len(q) : Counts(L, q[k], p[k - 1], p[k])
  BY <1>1 DEF Chained
<1>3. ASSUME NEW k \in 1 .. Len(q)
      PROVE  Counts(L \cup {h}, q[k], p[k - 1], p[k])
  <2>1. k - 1 \in 0 .. Len(q) /\ k \in 0 .. Len(q)
    OBVIOUS
  <2>2. p[k - 1] \in Nat /\ p[k] \in Nat /\ p[k] <= b
    BY <1>2, <2>1
  <2>3. p[k] < h /\ q[k] \in Seq(Nat)
    BY <2>2
  <2>. QED  BY <1>2, <2>2, <2>3, CountsLost
<1>4. Chained(L \cup {h}, q, p, a, b)
  BY <1>2, <1>3 DEF Chained
<1>. QED  BY <1>4 DEF Chain

(* All that a channel carries.                                             *)
LEMMA ChainCounts ==
    ASSUME NEW L, NEW q \in Seq(Seq(Nat)), NEW a \in Nat, NEW b \in Nat, Chain(L, q, a, b)
    PROVE  FlattenSeq(q) \in Seq(Nat) /\ Counts(L, FlattenSeq(q), a, b)
<1>1. CASE q = <<>>
  <2>1. FlattenSeq(q) = <<>>
    BY <1>1 DEF FlattenSeq
  <2>2. b = a
    BY <1>1, ChainEmpty
  <2>. QED  BY <2>1, <2>2, NothingCounts
<1>2. CASE q # <<>>
  <2> DEFINE n == Len(q)
  <2>1. n \in Nat /\ n >= 1 /\ \A k \in 1 .. n : q[k] \in Seq(Nat)
    BY <1>2
  <2>2. PICK p : Chained(L, q, p, a, b)
    BY DEF Chain
  <2>3. /\ p \in [0 .. n -> Nat] /\ p[0] = a /\ p[n] = b
        /\ \A k \in 1 .. n : Counts(L, q[k], p[k - 1], p[k])
    BY <2>2 DEF Chained
  <2>4. PICK st : /\ st[1] = q[1]
                  /\ \A k \in 2 .. n : st[k] = st[k - 1] \o q[k]
                  /\ FlattenSeq(q) = st[n]
    BY <1>2, FlattenSteps
  <2>. HIDE DEF n
  <2> DEFINE Good(k) == st[k] \in Seq(Nat) /\ Counts(L, st[k], a, p[k])
             S == {k \in 0 .. n - 1 : Good(k + 1)}
  <2>5. 0 \in S
    <3>1. 1 \in 1 .. n /\ 1 - 1 = 0 /\ 0 + 1 = 1 /\ 0 \in 0 .. n - 1
      BY <2>1
    <3>2. Good(1)
      BY <2>1, <2>3, <2>4, <3>1
    <3>. HIDE DEF Good
    <3>. QED  BY <3>1, <3>2
  <2>6. ASSUME NEW k \in 0 .. (n - 1) - 1, k \in S
        PROVE  k + 1 \in S
    <3> DEFINE j == k + 1
    <3>1. /\ j \in 1 .. n /\ j + 1 \in 2 .. n /\ j + 1 \in 1 .. n /\ (j + 1) - 1 = j
          /\ j \in 0 .. n - 1 /\ j \in 0 .. n /\ j + 1 \in 0 .. n
      BY <2>1
    <3>2. Good(j)
      BY <2>6
    <3>. HIDE DEF j
    <3>3. st[j + 1] = st[j] \o q[j + 1] /\ Counts(L, q[j + 1], p[j], p[j + 1])
      BY <2>3, <2>4, <3>1
    <3>4. p[j] \in Nat /\ p[j + 1] \in Nat /\ q[j + 1] \in Seq(Nat)
      BY <2>1, <2>3, <3>1
    <3>5. Good(j + 1)
      BY <3>2, <3>3, <3>4, CountsJoined
    <3>. HIDE DEF Good
    <3>6. j \in S
      BY <3>1, <3>5
    <3>. QED  BY <3>6 DEF j
  <2>7. Good(n)
    <3>. HIDE DEF S, Good
    <3>1. n - 1 \in Nat /\ n - 1 \in 0 .. n - 1 /\ (n - 1) + 1 = n
      BY <2>1
    <3>2. 0 .. n - 1 \subseteq S
      BY <2>5, <2>6, <3>1, IntervalInduction
    <3>. QED  BY <3>1, <3>2 DEF S
  <2>. QED  BY <2>3, <2>4, <2>7
<1>. QED  BY <1>1, <1>2

-----------------------------------------------------------------------------
(***************************************************************************)
(* A lane when something arrives, is read, is handed on or is taken.       *)
(***************************************************************************)
LEMMA FlowsArrived ==
    ASSUME NEW L \in SUBSET Nat, NEW keys \in Seq(Nat), NEW top \in Nat, NEW seen,
           NEW channel, NEW held,
           Flows(L, keys, top, seen, channel, held)
    PROVE  /\ Flows(L, Append(keys, top + 1), top + 1, seen, channel, held)
           /\ Flows(L, Append(keys, 0), top, seen, channel, held)
<1>1. PICK a, b, c \in Nat : FlowsBy(L, keys, top, seen, channel, held, a, b, c)
  BY DEF Flows
<1>2. Counts(L, <<top + 1>>, top, top + 1) /\ top + 1 \in Nat
  <2>1. Len(<<top + 1>>) = 1 /\ <<top + 1>>[1] = top + 1
    OBVIOUS
  <2>2. top + 1 \notin L
    BY <1>1 DEF FlowsBy
  <2>. QED  BY <2>1, <2>2 DEF Counts
<1>3. Counts(L, <<0>>, top, top)
  BY NothingCounts
<1>4. \A x \in Nat : Append(keys, x) = keys \o <<x>> /\ <<x>> \in Seq(Nat)
  BY AppendIsConcat
<1>5. Counts(L, keys, c, top)
  BY <1>1 DEF FlowsBy
<1>6. Counts(L, Append(keys, top + 1), c, top + 1)
  <2>1. <<top + 1>> \in Seq(Nat) /\ Append(keys, top + 1) = keys \o <<top + 1>>
    BY <1>2, <1>4
  <2>2. Counts(L, keys \o <<top + 1>>, c, top + 1)
    BY <1>2, <1>5, <2>1, CountsJoined
  <2>. QED  BY <2>1, <2>2
<1>7. Counts(L, Append(keys, 0), c, top)
  <2>1. <<0>> \in Seq(Nat) /\ Append(keys, 0) = keys \o <<0>>
    BY <1>4
  <2>2. Counts(L, keys \o <<0>>, c, top)
    BY <1>3, <1>5, <2>1, CountsJoined
  <2>. QED  BY <2>1, <2>2
<1>8. /\ FlowsBy(L, Append(keys, top + 1), top + 1, seen, channel, held, a, b, c)
      /\ FlowsBy(L, Append(keys, 0), top, seen, channel, held, a, b, c)
  <2>1. \A v \in L : v <= top /\ v <= top + 1
    BY <1>1 DEF FlowsBy
  <2>. QED  BY <1>1, <1>6, <1>7, <2>1 DEF FlowsBy
<1>. QED  BY <1>2, <1>8 DEF Flows

(* quinn drops its oldest datagram, of this lane or of the other.          *)
LEMMA FlowsDropped ==
    ASSUME NEW L \in SUBSET Nat, NEW keys \in Seq(Nat), NEW top \in Nat,
           NEW seen \in Seq(Nat), NEW channel \in Seq(Seq(Nat)), NEW held \in Seq(Nat),
           Flows(L, keys, top, seen, channel, held), keys # <<>>
    PROVE  Flows(IF keys[1] = 0 THEN L ELSE L \cup {keys[1]}, Tail(keys), top,
                 seen, channel, held)
<1> DEFINE h == keys[1]
           M == IF h = 0 THEN L ELSE L \cup {h}
<1>1. PICK a, b, c \in Nat : FlowsBy(L, keys, top, seen, channel, held, a, b, c)
  BY DEF Flows
<1>2. /\ Counts(L, seen, 0, a) /\ Chain(L, channel, a, b)
      /\ Counts(L, held, b, c) /\ Sorted(held) /\ Counts(L, keys, c, top)
      /\ \A v \in L : v <= top
  BY <1>1 DEF FlowsBy
<1>3. h \in Nat /\ 1 \in 1 .. Len(keys)
  OBVIOUS
<1>4. h = 0 \/ (c < h /\ h <= top)
  BY <1>2, <1>3 DEF Counts
<1>5. Counts(M, Tail(keys), c, top)
  BY <1>2, CountsDropped
<1>6. CASE h = 0
  <2>1. M = L
    BY <1>6
  <2>2. FlowsBy(M, Tail(keys), top, seen, channel, held, a, b, c)
    BY <1>2, <1>5, <2>1 DEF FlowsBy
  <2>. QED  BY <2>2 DEF Flows
<1>7. CASE h # 0
  <2>1. M = L \cup {h}
    BY <1>7
  <2>. HIDE DEF M, h
  <2>2. b <= c /\ c < h /\ h <= top
    BY <1>2, <1>4, <1>7 DEF Counts
  <2>3. a <= b
    <3>1. PICK p : Chained(L, channel, p, a, b)
      BY <1>2 DEF Chain
    <3>2. 0 \in 0 .. Len(channel) /\ p[0] = a /\ \A k \in 0 .. Len(channel) : p[k] <= b
      BY <3>1 DEF Chained
    <3>. QED  BY <3>2
  <2>4. a < h /\ b < h /\ c < h
    BY <1>3, <2>2, <2>3
  <2>5. Counts(M, seen, 0, a) /\ Chain(M, channel, a, b) /\ Counts(M, held, b, c)
    <3>1. Counts(M, seen, 0, a)
      BY <1>2, <1>3, <2>1, <2>4, CountsLost
    <3>2. Chain(M, channel, a, b)
      BY <1>2, <1>3, <2>1, <2>4, ChainLost
    <3>3. Counts(M, held, b, c)
      BY <1>2, <1>3, <2>1, <2>4, CountsLost
    <3>. QED  BY <3>1, <3>2, <3>3
  <2>6. \A v \in M : v <= top
    BY <1>2, <2>1, <2>2
  <2>7. FlowsBy(M, Tail(keys), top, seen, channel, held, a, b, c)
    BY <1>2, <1>5, <2>5, <2>6 DEF FlowsBy
  <2>. QED  BY <2>7 DEF Flows, M, h
<1>. QED  BY <1>6, <1>7

(* A read moves the head of the buffer to the channel, or to the hold.     *)
LEMMA FlowsRead ==
    ASSUME NEW L, NEW keys \in Seq(Nat), NEW top \in Nat, NEW seen, NEW channel \in Seq(Seq(Nat)),
           NEW n \in 0 .. Len(keys), Flows(L, keys, top, seen, channel, <<>>)
    PROVE  /\ Own(SubSeq(keys, 1, n)) \in Seq(Nat)
           /\ Flows(L, SubSeq(keys, n + 1, Len(keys)), top, seen,
                    Forward(channel, Own(SubSeq(keys, 1, n))),
                    Held(channel, Own(SubSeq(keys, 1, n))))
<1> DEFINE batch == SubSeq(keys, 1, n)
           rest == SubSeq(keys, n + 1, Len(keys))
           new == Own(batch)
<1>1. PICK a, b, c \in Nat : FlowsBy(L, keys, top, seen, channel, <<>>, a, b, c)
  BY DEF Flows
<1>2. /\ Counts(L, keys, b, top) /\ Chain(L, channel, a, b) /\ Counts(L, seen, 0, a)
      /\ \A v \in L : v <= top
  <2>1. /\ Counts(L, <<>>, b, c) /\ Counts(L, keys, c, top) /\ Chain(L, channel, a, b)
        /\ Counts(L, seen, 0, a) /\ \A v \in L : v <= top
    BY <1>1 DEF FlowsBy
  <2>2. <<>> \in Seq(Nat) /\ <<>> \o keys = keys
    OBVIOUS
  <2>3. Counts(L, <<>> \o keys, b, top)
    BY <2>1, <2>2, CountsJoined
  <2>. QED  BY <2>1, <2>2, <2>3
<1>3. PICK d \in Nat : Counts(L, batch, b, d) /\ Counts(L, rest, d, top)
  BY <1>2, CountsSplit
<1>4. batch \in Seq(Nat)
  OBVIOUS
<1>. HIDE DEF batch, rest
<1>5. new \in Seq(Nat) /\ Counts(L, new, b, d) /\ Sorted(new)
  BY <1>3, <1>4, CountsOwn
<1>. HIDE DEF new
<1>6. Counts(L, <<>>, d, d) /\ Sorted(<<>>)
  BY NothingCounts
<1>7. Flows(L, rest, top, seen, Forward(channel, new), Held(channel, new))
  <2>1. CASE new = <<>>
    <3>1. Counts(L, <<>>, b, d)
      BY <1>5, <2>1
    <3>2. Forward(channel, new) = channel /\ Held(channel, new) = <<>>
      BY <2>1 DEF Forward, Held
    <3>3. FlowsBy(L, rest, top, seen, channel, <<>>, a, b, d)
      BY <1>2, <1>3, <1>6, <3>1 DEF FlowsBy
    <3>. QED  BY <3>2, <3>3 DEF Flows
  <2>2. CASE new # <<>> /\ ~Room(channel)
    <3>1. Forward(channel, new) = channel /\ Held(channel, new) = new
      BY <2>2 DEF Forward, Held, Try
    <3>2. FlowsBy(L, rest, top, seen, channel, new, a, b, d)
      BY <1>2, <1>3, <1>5 DEF FlowsBy
    <3>. QED  BY <3>1, <3>2 DEF Flows
  <2>3. CASE new # <<>> /\ Room(channel)
    <3>1. Forward(channel, new) = Append(channel, new) /\ Held(channel, new) = <<>>
      BY <2>3 DEF Forward, Held, Try
    <3>2. Chain(L, Append(channel, new), a, d)
      BY <1>2, <1>5, ChainAppended
    <3>3. FlowsBy(L, rest, top, seen, Append(channel, new), <<>>, a, d, d)
      BY <1>2, <1>3, <1>6, <3>2 DEF FlowsBy
    <3>. QED  BY <3>1, <3>3 DEF Flows
  <2>. QED  BY <2>1, <2>2, <2>3
<1>. QED  BY <1>5, <1>7 DEF new, batch, rest

(* The hold handed on; a fast-path message; a batch taken; all taken.      *)
LEMMA FlowsPassed ==
    ASSUME NEW L, NEW keys, NEW top, NEW seen \in Seq(Nat), NEW channel \in Seq(Seq(Nat)),
           NEW held \in Seq(Nat), Flows(L, keys, top, seen, channel, held)
    PROVE  /\ Flows(L, keys, top, seen, Append(channel, held), <<>>)
           /\ Flows(L, keys, top, seen, Try(channel, <<0>>), held)
           /\ channel # <<>> => Flows(L, keys, top, seen \o Head(channel), Tail(channel), held)
           /\ /\ FlattenSeq(channel) \in Seq(Nat)
              /\ Flows(L, keys, top, seen \o FlattenSeq(channel), <<>>, held)
<1>1. PICK a, b, c \in Nat : FlowsBy(L, keys, top, seen, channel, held, a, b, c)
  BY DEF Flows
<1>2. /\ Counts(L, seen, 0, a) /\ Chain(L, channel, a, b)
      /\ Counts(L, held, b, c) /\ Sorted(held) /\ Counts(L, keys, c, top)
      /\ \A v \in L : v <= top
  BY <1>1 DEF FlowsBy
<1>3. Flows(L, keys, top, seen, Append(channel, held), <<>>)
  <2>1. Chain(L, Append(channel, held), a, c)
    BY <1>2, ChainAppended
  <2>2. FlowsBy(L, keys, top, seen, Append(channel, held), <<>>, a, c, c)
    BY <1>2, <2>1, NothingCounts DEF FlowsBy
  <2>. QED  BY <2>2 DEF Flows
<1>4. Flows(L, keys, top, seen, Try(channel, <<0>>), held)
  <2>1. CASE ~Room(channel)
    BY <2>1 DEF Try
  <2>2. CASE Room(channel)
    <3>1. Counts(L, <<0>>, b, b) /\ <<0>> \in Seq(Nat)
      BY NothingCounts
    <3>2. Chain(L, Append(channel, <<0>>), a, b)
      BY <1>2, <3>1, ChainAppended
    <3>3. FlowsBy(L, keys, top, seen, Append(channel, <<0>>), held, a, b, c)
      BY <1>2, <3>2 DEF FlowsBy
    <3>4. Try(channel, <<0>>) = Append(channel, <<0>>)
      BY <2>2 DEF Try
    <3>. QED  BY <3>3, <3>4 DEF Flows
  <2>. QED  BY <2>1, <2>2
<1>5. ASSUME channel # <<>>
      PROVE  Flows(L, keys, top, seen \o Head(channel), Tail(channel), held)
  <2>1. PICK d \in Nat : Counts(L, Head(channel), a, d) /\ Chain(L, Tail(channel), d, b)
    BY <1>2, <1>5, ChainTaken
  <2>2. Head(channel) \in Seq(Nat) /\ 0 \in Nat
    BY <1>5
  <2>3. Counts(L, seen \o Head(channel), 0, d)
    BY <1>2, <2>1, <2>2, CountsJoined
  <2>4. FlowsBy(L, keys, top, seen \o Head(channel), Tail(channel), held, d, b, c)
    BY <1>2, <2>1, <2>3 DEF FlowsBy
  <2>. QED  BY <2>4 DEF Flows
<1>6. /\ FlattenSeq(channel) \in Seq(Nat)
      /\ Flows(L, keys, top, seen \o FlattenSeq(channel), <<>>, held)
  <2>1. FlattenSeq(channel) \in Seq(Nat) /\ Counts(L, FlattenSeq(channel), a, b) /\ 0 \in Nat
    BY <1>2, ChainCounts
  <2>2. Counts(L, seen \o FlattenSeq(channel), 0, b)
    BY <1>2, <2>1, CountsJoined
  <2>3. FlowsBy(L, keys, top, seen \o FlattenSeq(channel), <<>>, held, b, b, c)
    BY <1>2, <2>2, ChainEmpty DEF FlowsBy
  <2>. QED  BY <2>1, <2>3 DEF Flows
<1>. QED  BY <1>3, <1>4, <1>5, <1>6

(* The numbers of a lane when quinn's buffer grows or is read.             *)
KeysMore(s, lane, l, n) ==
    l \in {"rx", "tx"} /\ n \in Nat =>
        Keys(Append(s, <<l, n>>), lane) = Append(Keys(s, lane), IF l = lane THEN n ELSE 0)

KeysCut(s, lane, n) ==
    /\ Keys(SubSeq(s, 1, n), lane) = SubSeq(Keys(s, lane), 1, n)
    /\ Keys(SubSeq(s, n + 1, Len(s)), lane)
         = SubSeq(Keys(s, lane), n + 1, Len(Keys(s, lane)))

(* The numbers of a lane are numbers, and follow the buffer's growth and   *)
(* cuts.                                                                   *)
LEMMA KeysOf ==
    ASSUME NEW s \in Seq(Datagrams), NEW lane
    PROVE  /\ Keys(s, lane) \in Seq(Nat) /\ Len(Keys(s, lane)) = Len(s)
           /\ Lane(s, lane) = Own(Keys(s, lane))
           /\ \A l, n : KeysMore(s, lane, l, n)
           /\ \A n \in 0 .. Len(s) : KeysCut(s, lane, n)
<1> DEFINE k == Keys(s, lane)
           m == Len(s)
<1>1. /\ m \in Nat /\ DOMAIN s = 1 .. m
      /\ \A i \in 1 .. m : s[i][1] \in {"rx", "tx"} /\ s[i][2] \in Nat
  BY DEF Datagrams
<1>2. k = [i \in 1 .. m |-> IF s[i][1] = lane THEN s[i][2] ELSE 0]
  BY <1>1 DEF Keys
<1>3. /\ k \in Seq(Nat) /\ Len(k) = m
      /\ \A i \in 1 .. m : k[i] = IF s[i][1] = lane THEN s[i][2] ELSE 0
  BY <1>1, <1>2
<1>4. Lane(s, lane) = Own(k)
  BY DEF Lane, Keys
<1>. HIDE DEF k, m
<1>5. ASSUME NEW l \in {"rx", "tx"}, NEW n \in Nat
      PROVE  Keys(Append(s, <<l, n>>), lane) = Append(k, IF l = lane THEN n ELSE 0)
  <2> DEFINE r == Append(s, <<l, n>>)
             x == IF l = lane THEN n ELSE 0
  <2>1. /\ DOMAIN r = 1 .. m + 1 /\ r[m + 1] = <<l, n>>
        /\ \A i \in 1 .. m : r[i] = s[i]
    BY DEF m
  <2>2. /\ Len(Append(k, x)) = m + 1 /\ DOMAIN Append(k, x) = 1 .. m + 1
        /\ Append(k, x)[m + 1] = x /\ \A i \in 1 .. m : Append(k, x)[i] = k[i]
        /\ Append(k, x) = [i \in 1 .. m + 1 |-> Append(k, x)[i]]
    BY <1>3
  <2>. HIDE DEF r
  <2>3. Keys(r, lane) = [i \in 1 .. m + 1 |-> IF r[i][1] = lane THEN r[i][2] ELSE 0]
    BY <2>1 DEF Keys
  <2>4. \A i \in 1 .. m + 1 : (IF r[i][1] = lane THEN r[i][2] ELSE 0) = Append(k, x)[i]
    <3>1. \A i \in 1 .. m + 1 : i \in 1 .. m \/ i = m + 1
      BY <1>1
    <3>. HIDE DEF x
    <3>2. (IF r[m + 1][1] = lane THEN r[m + 1][2] ELSE 0) = x
      BY <2>1 DEF x
    <3>3. ASSUME NEW i \in 1 .. m
          PROVE  (IF r[i][1] = lane THEN r[i][2] ELSE 0) = Append(k, x)[i]
      <4>1. r[i] = s[i] /\ Append(k, x)[i] = k[i]
        BY <2>1, <2>2
      <4>. QED  BY <1>3, <4>1
    <3>. QED  BY <2>2, <3>1, <3>2, <3>3
  <2>. HIDE DEF x
  <2>5. Keys(r, lane) = Append(k, x)
    BY <2>2, <2>3, <2>4
  <2>. QED  BY <2>5 DEF r, x
<1>6. ASSUME NEW n \in 0 .. m
      PROVE  Keys(SubSeq(s, 1, n), lane) = SubSeq(k, 1, n)
  <2> DEFINE r == SubSeq(s, 1, n)
  <2>1. n \in Nat /\ n <= m
    BY <1>1
  <2>2. DOMAIN r = 1 .. n /\ \A i \in 1 .. n : r[i] = s[i] /\ i \in 1 .. m
    BY <1>1, <2>1 DEF m
  <2>3. SubSeq(k, 1, n) = [i \in 1 .. n |-> k[i]]
    BY <1>3, <2>1
  <2>. HIDE DEF r
  <2>4. Keys(r, lane) = [i \in 1 .. n |-> k[i]]
    BY <1>3, <2>2 DEF Keys
  <2>. QED  BY <2>3, <2>4 DEF r
<1>7. ASSUME NEW n \in 0 .. m
      PROVE  Keys(SubSeq(s, n + 1, m), lane) = SubSeq(k, n + 1, m)
  <2> DEFINE r == SubSeq(s, n + 1, m)
  <2>1. n \in Nat /\ n <= m
    BY <1>1
  <2>2. DOMAIN r = 1 .. m - n /\ \A i \in 1 .. m - n : r[i] = s[n + i] /\ n + i \in 1 .. m
    BY <1>1, <2>1 DEF m
  <2>3. SubSeq(k, n + 1, m) = [i \in 1 .. m - n |-> k[n + i]]
    BY <1>1, <1>3, <2>1
  <2>. HIDE DEF r
  <2>4. Keys(r, lane) = [i \in 1 .. m - n |-> k[n + i]]
    BY <1>3, <2>2, ZenonT(40) DEF Keys
  <2>. QED  BY <2>3, <2>4 DEF r
<1>. QED  BY <1>3, <1>4, <1>5, <1>6, <1>7 DEF k, m, KeysMore, KeysCut

(* quinn's oldest datagram gone.                                           *)
LEMMA KeysDropped ==
    ASSUME NEW s \in Seq(Datagrams), NEW lane, s # <<>>
    PROVE  /\ Tail(s) \in Seq(Datagrams) /\ s[1] \in Datagrams /\ Head(s) = s[1]
           /\ Keys(s, lane) # <<>>
           /\ Keys(s, lane)[1] = IF s[1][1] = lane THEN s[1][2] ELSE 0
           /\ Keys(Tail(s), lane) = Tail(Keys(s, lane))
<1> DEFINE k == Keys(s, lane)
           m == Len(s)
<1>1. /\ m \in Nat /\ m >= 1 /\ DOMAIN s = 1 .. m /\ 1 \in 0 .. m /\ 1 \in 1 .. m
      /\ Tail(s) \in Seq(Datagrams) /\ s[1] \in Datagrams /\ Head(s) = s[1]
  OBVIOUS
<1>2. k[1] = IF s[1][1] = lane THEN s[1][2] ELSE 0
  BY <1>1 DEF Keys
<1>3. k \in Seq(Nat) /\ Len(k) = m /\ KeysCut(s, lane, 1)
  BY <1>1, KeysOf
<1>4. Keys(SubSeq(s, 1 + 1, Len(s)), lane) = SubSeq(k, 1 + 1, Len(k))
  BY <1>3 DEF KeysCut
<1>. HIDE DEF k
<1>5. k # <<>>
  BY <1>1, <1>3
<1>6. Tail(s) = SubSeq(s, 1 + 1, Len(s))
  BY <1>1
<1>7. Tail(k) = SubSeq(k, 1 + 1, Len(k))
  BY <1>3, <1>5
<1>. QED  BY <1>1, <1>2, <1>4, <1>5, <1>6, <1>7 DEF k

-----------------------------------------------------------------------------
(***************************************************************************)
(* Types.  An answer leaves the report task where it can be.               *)
(***************************************************************************)
LEMMA AnsweredTyped ==
    ASSUME report \in Reports, NEW reqs
    PROVE  Answered(reqs) \in Reports
<1>1. report.left \in Int /\ report.req \in Nat
  BY DEF Reports
<1>2. report.left - 1 \in Int /\ report.req + 1 \in Nat
  BY <1>1
<1>. QED  BY <1>2 DEF Answered, Reports

(* A sequence with one element more.                                       *)
LEMMA AppendedItems ==
    ASSUME NEW T, NEW s \in Seq(T), NEW x
    PROVE  /\ Len(s) \in Nat /\ Len(Append(s, x)) = Len(s) + 1
           /\ Append(s, x)[Len(s) + 1] = x
           /\ \A i \in 1 .. Len(s) : Append(s, x)[i] = s[i]
           /\ \A i \in 1 .. Len(s) + 1 : i \in 1 .. Len(s) \/ i = Len(s) + 1
           /\ x \in T => Append(s, x) \in Seq(T)
  OBVIOUS

(* What the channels are given.                                            *)
LEMMA CommandsTyped ==
    /\ \A items \in Seq(Items) : Dgrams(items) \in Commands /\ Dgrams(items).items = items
    /\ \A items : Dgrams(items).kind = "send"
    /\ \A kind \in {"connect", "stream", "readers", "close"}, req \in Nat :
          /\ Request(kind, req) \in Commands
          /\ Request(kind, req).kind = kind /\ Request(kind, req).items = <<>>
<1>1. 0 \in Nat /\ <<>> \in Seq(Items)
  OBVIOUS
<1>. QED  BY <1>1 DEF Dgrams, Request, Commands

(* The owner that has ended.                                               *)
LEMMA EndedFields ==
    /\ Ended \in Owners
    /\ Ended.at = "ended" /\ Ended.readers = FALSE
    /\ Ended.inbound_tx = <<>> /\ Ended.ctrl_pending = {}
<1>1. <<>> \in Seq(Nat) /\ {} \in SUBSET Nat /\ {} \in SUBSET Messages
  OBVIOUS
<1>2. /\ Unconnected \in Owners /\ Unconnected.readers = FALSE
      /\ Unconnected.inbound_tx = <<>> /\ Unconnected.ctrl_pending = {}
  BY <1>1 DEF Unconnected, Owners
<1>3. \A o \in Owners : /\ [o EXCEPT !.at = "ended"] \in Owners
                        /\ [o EXCEPT !.at = "ended"].at = "ended"
                        /\ [o EXCEPT !.at = "ended"].readers = o.readers
                        /\ [o EXCEPT !.at = "ended"].inbound_tx = o.inbound_tx
                        /\ [o EXCEPT !.at = "ended"].ctrl_pending = o.ctrl_pending
  BY DEF Owners
<1>. QED  BY <1>2, <1>3 DEF Ended

(* A batch read on either lane is one of numbers.                          *)
LEMMA LaneTyped ==
    ASSUME NEW s \in Seq(Datagrams), NEW lane
    PROVE  Lane(s, lane) \in Seq(Nat)
BY KeysOf, OwnElements

TypedVars ==
    <<owner, quinn, arrived, overflowed, wire, io, msg, sender_in, cmds, ctrl, known, sender, staged,
      tx_seen, rx_seen, report>>

(* A step that changes nothing typed keeps the types.                      *)
LEMMA TypedFrame ==
    ASSUME TasksTyped, UNCHANGED TypedVars
    PROVE  TasksTyped'
BY DEF TasksTyped, TypedVars

(* A datagram that arrives, and what becomes of the oldest in the buffer.  *)
PeerSent(lane, rest) ==
    /\ rest \in Seq(Datagrams)
    /\ <<lane, arrived[lane] + 1>> \in Datagrams
    /\ quinn' = Append(rest, <<lane, arrived[lane] + 1>>)
    /\ \/ rest = quinn /\ overflowed' = overflowed
       \/ /\ quinn # <<>> /\ rest = Tail(quinn)
          /\ overflowed' = [overflowed EXCEPT
                               ![quinn[1][1]] = overflowed[quinn[1][1]] \cup {quinn[1][2]}]

(* A full buffer has an oldest datagram.                                   *)
LEMMA PeerSendsOne ==
    ASSUME TasksTyped, NEW lane \in {"rx", "tx"}, PeerSends(lane)
    PROVE  \E rest : PeerSent(lane, rest)
<1>1. quinn \in Seq(Datagrams) /\ arrived[lane] \in Nat
  BY DEF TasksTyped
<1>2. <<lane, arrived[lane] + 1>> \in Datagrams
  BY <1>1 DEF Datagrams
<1>3. CASE Len(quinn) < QuinnCap
  <2>1. PeerSent(lane, quinn)
    BY <1>1, <1>2, <1>3 DEF PeerSends, PeerSent
  <2>. QED  BY <2>1
<1>4. CASE ~ (Len(quinn) < QuinnCap)
  <2>1. quinn # <<>>
    BY <1>1, <1>4, OwnerAssumption DEF OwnerAssumption
  <2>2. Tail(quinn) \in Seq(Datagrams) /\ Head(quinn) = quinn[1]
    BY <1>1, <2>1, KeysDropped
  <2>3. PeerSent(lane, Tail(quinn))
    BY <1>2, <1>4, <2>1, <2>2 DEF PeerSends, PeerSent
  <2>. QED  BY <2>3
<1>. QED  BY <1>3, <1>4

(* The steps of the environment keep the types.                            *)
LEMMA EnvironmentTyped ==
    ASSUME TasksTyped, Environment
    PROVE  TasksTyped'
<1>1. ASSUME NEW lane \in {"rx", "tx"}, PeerSends(lane)
      PROVE  TasksTyped'
  <2>1. arrived[lane] \in Nat /\ arrived[lane] + 1 \in Nat
    BY DEF TasksTyped
  <2>2. arrived' \in [rx : Nat, tx : Nat, uni : Nat]
    BY <1>1, <2>1 DEF TasksTyped, PeerSends
  <2>3. quinn' \in Seq(Datagrams) /\ overflowed' \in [rx : SUBSET Nat, tx : SUBSET Nat]
    <3>1. PICK rest : PeerSent(lane, rest)
      BY <1>1, PeerSendsOne
    <3>2. quinn' \in Seq(Datagrams)
      BY <3>1 DEF PeerSent
    <3>3. /\ overflowed \in [rx : SUBSET Nat, tx : SUBSET Nat]
          /\ quinn # <<>> => quinn[1] \in Datagrams
      BY KeysDropped DEF TasksTyped
    <3>4. \A l \in {"rx", "tx"}, v \in Nat :
              [overflowed EXCEPT ![l] = overflowed[l] \cup {v}]
                \in [rx : SUBSET Nat, tx : SUBSET Nat]
      BY <3>3
    <3>. QED  BY <3>1, <3>2, <3>3, <3>4 DEF PeerSent, Datagrams
  <2>. QED  BY <1>1, <2>2, <2>3 DEF TasksTyped, PeerSends, channels, senderVars, receiverVars,
                                    reportVars
<1>2. CASE PeerStream
  <2>0. arrived \in [rx : Nat, tx : Nat, uni : Nat] /\ arrived.uni \in Nat
        /\ arrived.uni + 1 \in Nat /\ arrived' = [arrived EXCEPT !.uni = arrived.uni + 1]
    BY <1>2, SMTT(20) DEF TasksTyped, PeerStream
  <2> DEFINE more == arrived.uni + 1
  <2>. HIDE DEF more
  <2>1. arrived' \in [rx : Nat, tx : Nat, uni : Nat]
    BY <2>0 DEF more
  <2>. QED  BY <1>2, <2>1 DEF TasksTyped, PeerStream, channels, senderVars, receiverVars,
                              reportVars
<1>3. CASE ConnectionLost
  BY <1>3, TypedFrame DEF ConnectionLost, TypedVars, channels, senderVars, receiverVars, reportVars
<1>. QED  BY <1>1, <1>2, <1>3 DEF Environment

(* The steps of the owner keep the types.                                  *)
LEMMA OwnerTyped ==
    ASSUME TasksTyped, Phases, Pipeline, OwnerArm
    PROVE  TasksTyped'
<1>. USE DEF connVars, channels, senderVars, receiverVars, reportVars
<1>0. /\ owner \in Owners /\ report \in Reports /\ Ended \in Owners
      /\ msg \in Seq(Seq(Nat)) /\ sender_in \in Seq(Seq(Nat)) /\ ctrl \in Seq(Messages)
      /\ io \in Seq(Commands) /\ <<>> \in Seq(Commands) /\ <<>> \in Seq(Nat)
      /\ owner.inbound \in Seq(Nat) /\ owner.inbound_tx \in Seq(Nat)
  BY EndedFields, OwnerFields DEF TasksTyped
<1>1. ASSUME NEW ok \in BOOLEAN, OwnerConnects(ok)
      PROVE  TasksTyped'
  <2>1. owner' \in Owners
    BY <1>0, <1>1, OwnerReplaced, Zenon DEF OwnerConnects
  <2>2. io' \in Seq(Commands)
    BY <1>0, <1>1 DEF OwnerConnects
  <2>. QED  BY <1>1, <2>1, <2>2 DEF TasksTyped, OwnerConnects
<1>2. CASE OwnerUnconnectedCloses
  BY <1>0, <1>2 DEF TasksTyped, OwnerUnconnectedCloses
<1>3. CASE OwnerCommands
  <2> DEFINE w == Performed([o |-> owner, wire |-> wire, close |-> FALSE], io)
  <2>1. After(w)
    <3>1. \A i \in 1 .. Len(io) : io[i].kind # "connect"
      BY <1>3 DEF Phases, OwnerCommands, takes_commands
    <3>. QED  BY <3>1, PerformedAll
  <2>2. /\ wire' = w.wire /\ io' = <<>>
        /\ owner' = IF w.close THEN Ended ELSE w.o
        /\ report' = IF w.close THEN Answered(ToSet(w.o.streams) \cup w.o.busy) ELSE report
    BY <1>3 DEF OwnerCommands
  <2>. HIDE DEF w
  <2>3. w.wire \in Seq(Items) /\ w.o \in Owners
    BY <2>1 DEF After, Views
  <2>4. report' \in Reports
    BY <1>0, <2>2, AnsweredTyped
  <2>5. owner' \in Owners /\ wire' \in Seq(Items) /\ io' \in Seq(Commands)
    BY <1>0, <2>2, <2>3
  <2>. QED  BY <1>3, <2>4, <2>5 DEF TasksTyped, OwnerCommands
<1>4. CASE OwnerReads
  <2> DEFINE n == IF Len(quinn) < BatchMax THEN Len(quinn) ELSE BatchMax
             batch == SubSeq(quinn, 1, n)
             dead == conn = "lost" /\ n < BatchMax
             rx == Lane(batch, "rx")
             tx == Lane(batch, "tx")
  <2>1. /\ quinn' = SubSeq(quinn, n + 1, Len(quinn))
        /\ owner' = [owner EXCEPT !.inbound = Held(msg, rx), !.inbound_tx = Held(sender_in, tx),
                                  !.reader_dead = dead]
        /\ sender_in' = Forward(sender_in, tx) /\ msg' = Forward(msg, rx)
    BY <1>4 DEF OwnerReads
  <2>2. n \in 0 .. Len(quinn) /\ quinn \in Seq(Datagrams)
    BY OwnerAssumption, SMTT(20) DEF TasksTyped, OwnerAssumption
  <2>. HIDE DEF n
  <2>3. batch \in Seq(Datagrams) /\ quinn' \in Seq(Datagrams)
    BY <2>1, <2>2
  <2>4. dead \in BOOLEAN
    OBVIOUS
  <2>. HIDE DEF batch, dead
  <2>5. rx \in Seq(Nat) /\ tx \in Seq(Nat)
    BY <2>3, LaneTyped
  <2>. HIDE DEF rx, tx
  <2>6. /\ Held(msg, rx) \in Seq(Nat) /\ Held(sender_in, tx) \in Seq(Nat)
        /\ Forward(msg, rx) \in Seq(Seq(Nat)) /\ Forward(sender_in, tx) \in Seq(Seq(Nat))
    BY <1>0, <2>5 DEF Held, Forward, Try
  <2>7. owner' \in Owners
    BY <1>0, <2>1, <2>4, <2>6, OwnerReplaced, Zenon
  <2>. QED  BY <1>4, <2>1, <2>3, <2>6, <2>7 DEF TasksTyped, OwnerReads
<1>5. CASE OwnerReadFails
  <2>1. owner' \in Owners
    BY <1>0, <1>5, OwnerReplaced, Zenon DEF OwnerReadFails
  <2>. QED  BY <1>5, <2>1 DEF TasksTyped, OwnerReadFails
<1>6. CASE OwnerForwardsTx
  <2>1. owner' \in Owners
    BY <1>0, <1>6, OwnerReplaced, Zenon DEF OwnerForwardsTx
  <2>2. sender_in' \in Seq(Seq(Nat))
    BY <1>0, <1>6 DEF OwnerForwardsTx
  <2>. QED  BY <1>6, <2>1, <2>2 DEF TasksTyped, OwnerForwardsTx
<1>7. CASE OwnerForwardsRx
  <2>1. owner' \in Owners
    BY <1>0, <1>7, OwnerReplaced, Zenon DEF OwnerForwardsRx
  <2>2. msg' \in Seq(Seq(Nat))
    BY <1>0, <1>7 DEF OwnerForwardsRx
  <2>. QED  BY <1>7, <2>1, <2>2 DEF TasksTyped, OwnerForwardsRx
<1>8. ASSUME NEW kind \in Messages, OwnerReadsUni(kind)
      PROVE  TasksTyped'
  <2>0. {kind} \in SUBSET Messages
    OBVIOUS
  <2>1. owner' \in Owners
    <3>1. \/ owner' = [owner EXCEPT !.ctrl_pending = {kind}]
          \/ owner' = [owner EXCEPT !.uni_dead = TRUE]
      BY <1>8 DEF OwnerReadsUni
    <3>2. [owner EXCEPT !.ctrl_pending = {kind}] \in Owners
      BY <1>0, <2>0, OwnerReplaced, Zenon
    <3>3. [owner EXCEPT !.uni_dead = TRUE] \in Owners
      BY <1>0 DEF Owners
    <3>. QED  BY <3>1, <3>2, <3>3
  <2>. QED  BY <1>8, <2>1 DEF TasksTyped, OwnerReadsUni
<1>9. CASE OwnerForwardsUni
  <2>1. PICK kind \in owner.ctrl_pending :
           ctrl' = Append(ctrl, kind) /\ owner' = [owner EXCEPT !.ctrl_pending = {}]
    BY <1>9 DEF OwnerForwardsUni
  <2>2. kind \in Messages
    BY <1>0, OwnerFields
  <2>3. owner' \in Owners
    <3>1. {} \in SUBSET Messages
      OBVIOUS
    <3>. QED  BY <1>0, <2>1, <3>1, OwnerReplaced, Zenon
  <2>4. ctrl' \in Seq(Messages)
    BY <1>0, <2>1, <2>2
  <2>. QED  BY <1>9, <2>3, <2>4 DEF TasksTyped, OwnerForwardsUni
<1>10. CASE OwnerOpensStream
  <2>1. owner.streams \in Seq(Nat) /\ owner.streams # <<>>
    BY <1>0, <1>10, OwnerFields DEF OwnerOpensStream
  <2>2. Head(owner.streams) \in Nat /\ Tail(owner.streams) \in Seq(Nat)
    BY <2>1
  <2>3. owner' = [owner EXCEPT !.busy = {Head(owner.streams)}, !.streams = Tail(owner.streams)]
    BY <1>10 DEF OwnerOpensStream
  <2>4. owner' \in Owners
    BY <1>0, <2>2, <2>3, OwnerReplaced, Zenon
  <2>. QED  BY <1>10, <2>4 DEF TasksTyped, OwnerOpensStream
<1>11. CASE OwnerStreamDone
  <2>1. owner' \in Owners /\ report' \in Reports
    BY <1>0, <1>11, OwnerReplaced, AnsweredTyped, Zenon DEF OwnerStreamDone
  <2>. QED  BY <1>11, <2>1 DEF TasksTyped, OwnerStreamDone
<1>. QED  BY <1>1, <1>2, <1>3, <1>4, <1>5, <1>6, <1>7, <1>8, <1>9, <1>10, <1>11
          DEF OwnerArm, Messages

(* What a command sent does to the owner's channel.                        *)
LEMMA SentTyped ==
    ASSUME io \in Seq(Commands), NEW cmd \in Commands, ToOwner(cmd)
    PROVE  io' \in Seq(Commands)
BY DEF ToOwner

(* The steps of the sender keep the types.                                 *)
LEMMA SenderTyped ==
    ASSUME TasksTyped, Phases, SenderStep
    PROVE  TasksTyped'
<1>. USE DEF connVars, channels, senderVars, receiverVars, reportVars
<1>0. /\ sender \in Senders /\ sender.data \in Seq(Items) /\ sender.ctrl \in Seq(Items)
      /\ <<>> \in Seq(Items) /\ staged \in Nat /\ io \in Seq(Commands)
      /\ sender_in \in Seq(Seq(Nat)) /\ tx_seen \in Seq(Nat)
  BY DEF TasksTyped, Senders
<1>1. ASSUME NEW lane \in {"data", "ctrl"}, SenderStages(lane)
      PROVE  TasksTyped'
  <2>1. staged' = staged + 1 /\ staged' \in Nat
    BY <1>0, <1>1 DEF SenderStages
  <2>2. <<lane, staged'>> \in Items
    BY <2>1 DEF Items
  <2>3. Append(sender[lane], <<lane, staged'>>) \in Seq(Items)
    <3>1. sender[lane] \in Seq(Items)
      BY <1>0
    <3>. QED  BY <2>2, <3>1
  <2>4. \A s \in Seq(Items) : [sender EXCEPT ![lane] = s] \in Senders
    BY <1>0 DEF Senders
  <2>5. [sender EXCEPT !.data = <<>>, !.ctrl = <<>>] \in Senders
    BY <1>0 DEF Senders
  <2>6. \/ sender' = [sender EXCEPT ![lane] = Append(sender[lane], <<lane, staged'>>)]
        \/ sender' = [sender EXCEPT !.data = <<>>, !.ctrl = <<>>]
    BY <1>1 DEF SenderStages
  <2>7. sender' \in Senders
    BY <2>3, <2>4, <2>5, <2>6
  <2>. QED  BY <1>1, <2>1, <2>7 DEF TasksTyped, SenderStages
<1>2. CASE SenderFlushes
  <2>1. sender' \in Senders
    BY <1>0, <1>2 DEF SenderFlushes, Senders
  <2>. QED  BY <1>2, <2>1 DEF TasksTyped, SenderFlushes
<1>3. CASE SenderSends
  <2>1. lane_first \in {"data", "ctrl"} /\ sender[lane_first] \in Seq(Items)
    BY <1>0 DEF lane_first
  <2>2. io' \in Seq(Commands)
    BY <1>0, <1>3, <2>1, CommandsTyped, SentTyped, Zenon DEF SenderSends
  <2>3. sender' \in Senders
    <3> DEFINE rest == [sender EXCEPT ![lane_first] = <<>>]
    <3>1. rest \in Senders
      BY <1>0, <2>1 DEF Senders
    <3>2. sender' = [rest EXCEPT !.at = "select"] \/ sender' = rest
      BY <1>3, Zenon DEF SenderSends
    <3>. HIDE DEF rest
    <3>. QED  BY <3>1, <3>2 DEF Senders
  <2>. QED  BY <1>3, <2>2, <2>3, Zenon DEF TasksTyped, SenderSends
<1>4. CASE SenderInput
  <2>1. sender_in # <<>> /\ tx_seen' = tx_seen \o FlattenSeq(sender_in) /\ sender_in' = <<>>
    BY <1>4 DEF SenderInput
  <2>2. FlattenSeq(sender_in) \in Seq(Nat)
    BY <1>0, FlattenTyped
  <2>3. tx_seen' \in Seq(Nat) /\ sender_in' \in Seq(Seq(Nat))
    BY <1>0, <2>1, <2>2
  <2>. QED  BY <1>4, <2>3 DEF TasksTyped, SenderInput
<1>5. ASSUME NEW live \in BOOLEAN, SenderCommands(live)
      PROVE  TasksTyped'
  <2> DEFINE w == Applied([known |-> known, at |-> path_cmd, report |-> report], cmds, live)
  <2>1. w \in Beliefs
    BY AppliedAll DEF Believed
  <2>2. known' = w.known /\ report' = w.report /\ cmds' = <<>>
    BY <1>5 DEF SenderCommands
  <2>. HIDE DEF w
  <2>3. known' \in BOOLEAN /\ report' \in Reports
    BY <2>1, <2>2 DEF Beliefs
  <2>. QED  BY <1>5, <2>2, <2>3 DEF TasksTyped, SenderCommands
<1>. QED  BY <1>1, <1>2, <1>3, <1>4, <1>5 DEF SenderStep

(* The steps of the other tasks keep the types.                            *)
LEMMA OthersTyped ==
    ASSUME TasksTyped, ReceiverStep \/ FastPath \/ ReportStep \/ PathCmdStep
    PROVE  TasksTyped'
<1>. USE DEF connVars, cmdVars, channels, senderVars, receiverVars, reportVars
<1>0. /\ msg \in Seq(Seq(Nat)) /\ rx_seen \in Seq(Nat) /\ sender_in \in Seq(Seq(Nat))
      /\ ctrl \in Seq(Messages) /\ io \in Seq(Commands) /\ report \in Reports
      /\ cmds \in Seq({"add", "remove", "tick", "revive"}) /\ <<0>> \in Seq(Nat)
      /\ report.req \in Nat
  BY DEF TasksTyped, Reports
<1>1. ASSUME NEW nudge \in BOOLEAN, ReceiverTakes(nudge)
      PROVE  TasksTyped'
  <2>1. msg # <<>> /\ rx_seen' = rx_seen \o Head(msg) /\ msg' = Tail(msg)
    BY <1>1 DEF ReceiverTakes
  <2>2. Head(msg) \in Seq(Nat) /\ Tail(msg) \in Seq(Seq(Nat))
    BY <1>0, <2>1
  <2>3. rx_seen' \in Seq(Nat) /\ msg' \in Seq(Seq(Nat))
    BY <1>0, <2>1, <2>2
  <2>4. cmds' \in Seq({"add", "remove", "tick", "revive"})
    BY <1>0, <1>1 DEF ReceiverTakes, Try
  <2>. QED  BY <1>1, <2>3, <2>4 DEF TasksTyped, ReceiverTakes
<1>2. CASE ReceiverSends
  <2>1. io' \in Seq(Commands)
    <3>1. <<>> \in Seq(Items)
      OBVIOUS
    <3>. QED  BY <1>0, <1>2, <3>1, CommandsTyped, SentTyped DEF ReceiverSends
  <2>. QED  BY <1>2, <2>1 DEF TasksTyped, ReceiverSends
<1>3. CASE FastPath
  <2>1. /\ ctrl # <<>> /\ ctrl' = Tail(ctrl)
        /\ sender_in' = sender_in \/ sender_in' = Append(sender_in, <<0>>)
        /\ msg' = msg \/ msg' = Append(msg, <<0>>)
    BY <1>3 DEF FastPath, Try
  <2>2. ctrl' \in Seq(Messages)
    BY <1>0, <2>1
  <2>3. \A q \in Seq(Seq(Nat)) : Append(q, <<0>>) \in Seq(Seq(Nat))
    BY <1>0, AppendedItems
  <2>4. sender_in' \in Seq(Seq(Nat)) /\ msg' \in Seq(Seq(Nat))
    BY <1>0, <2>1, <2>3
  <2>. QED  BY <1>3, <2>2, <2>4 DEF TasksTyped, FastPath
<1>4. CASE Tick
  <2>1. report' \in Reports
    BY <1>0, <1>4 DEF Tick, Reports
  <2>. QED  BY <1>4, <2>1 DEF TasksTyped, Tick
<1>5. CASE TickSends
  <2>1. report' \in Reports
    BY <1>0, <1>5 DEF TickSends, Reports
  <2>2. cmds' \in Seq({"add", "remove", "tick", "revive"})
    BY <1>0, <1>5 DEF TickSends
  <2>. QED  BY <1>5, <2>1, <2>2 DEF TasksTyped, TickSends
<1>6. CASE ReportSends
  <2>1. report' \in Reports
    <3>1. report' = [report EXCEPT !.at = "await"] \/ report' = Answered({report.req})
      BY <1>6 DEF ReportSends
    <3>2. [report EXCEPT !.at = "await"] \in Reports
      BY <1>0 DEF Reports
    <3>. QED  BY <1>0, <3>1, <3>2, AnsweredTyped
  <2>2. io' \in Seq(Commands)
    <3>1. Request("stream", report.req) \in Commands
      BY <1>0, CommandsTyped
    <3>. QED  BY <1>0, <1>6, <3>1, SentTyped DEF ReportSends
  <2>. QED  BY <1>6, <2>1, <2>2 DEF TasksTyped, ReportSends
<1>7. CASE ReportTimesOut
  <2>1. report' \in Reports
    BY <1>0, <1>7, AnsweredTyped DEF ReportTimesOut
  <2>. QED  BY <1>7, <2>1 DEF TasksTyped, ReportTimesOut
<1>8. CASE AddConnects \/ AddStarts \/ RemovePath \/ CloseForwards
  <2>1. 0 \in Nat
    OBVIOUS
  <2>2. \A kind \in {"connect", "readers", "close"} : Request(kind, 0) \in Commands
    BY <2>1, CommandsTyped
  <2>3. \/ io' = io
        \/ \E kind \in {"connect", "readers", "close"} : io' = Append(io, Request(kind, 0))
    BY <1>8 DEF AddConnects, AddStarts, RemovePath, CloseForwards, Try
  <2>4. io' \in Seq(Commands)
    <3>1. \A cmd \in Commands : Append(io, cmd) \in Seq(Commands)
      BY <1>0
    <3>. QED  BY <1>0, <2>2, <2>3, <3>1
  <2>. QED  BY <1>8, <2>4 DEF TasksTyped, AddConnects, AddStarts, RemovePath, CloseForwards
<1>9. CASE AddAsks \/ RemoveTells
  <2>1. cmds' \in Seq({"add", "remove", "tick", "revive"})
    <3>1. cmds' = Append(cmds, "add") \/ cmds' = Append(cmds, "remove")
      BY <1>9 DEF AddAsks, RemoveTells
    <3>2. Append(cmds, "add") \in Seq({"add", "remove", "tick", "revive"})
      BY <1>0
    <3>3. Append(cmds, "remove") \in Seq({"add", "remove", "tick", "revive"})
      BY <1>0
    <3>. QED  BY <3>1, <3>2, <3>3
  <2>. QED  BY <1>9, <2>1 DEF TasksTyped, AddAsks, RemoveTells
<1>. QED  BY <1>1, <1>2, <1>3, <1>4, <1>5, <1>6, <1>7, <1>8, <1>9
          DEF ReceiverStep, ReportStep, PathCmdStep

-----------------------------------------------------------------------------
(***************************************************************************)
(* How far the path command processor is.  What the owner's channel holds  *)
(* for each stage.                                                         *)
(***************************************************************************)
Awaited(s, stage) ==
    \A i \in 1 .. Len(s) :
        /\ s[i].kind = "connect" =>
              /\ stage = "connecting"
              /\ \A k \in 1 .. Len(s) : s[k].kind = "connect" => k = i
        /\ s[i].kind = "close" => stage \in {"removing", "removed"}

Told(s, stage) == \A i \in 1 .. Len(s) : s[i] = "remove" => stage = "removed"

(* The phases, with what the channels hold named.                          *)
LEMMA PhasesParts ==
    Phases <=>
        /\ path_cmd \in {"connect", "connecting", "connected", "failed", "asked", "added",
                         "running", "removing", "removed"}
        /\ path_cmd \in {"connect", "connecting"} => owner.at = "unconnected"
        /\ path_cmd \in {"added", "running"} => known
        /\ close_fwd => Leaving
        /\ Awaited(io, path_cmd) /\ Told(cmds, path_cmd)
BY DEF Phases, Awaited, Told, Leaving

(* A command that is no connect, and a close only when the path leaves.    *)
LEMMA AwaitedAppended ==
    ASSUME NEW s \in Seq(Commands), NEW cmd, NEW p, NEW q, Awaited(s, p),
           \A i \in 1 .. Len(s) : s[i].kind = "connect" => p = q,
           p \in {"removing", "removed"} => q \in {"removing", "removed"},
           cmd.kind # "connect",
           cmd.kind = "close" => q \in {"removing", "removed"}
    PROVE  Awaited(Append(s, cmd), q) /\ Awaited(s, q) /\ Awaited(<<>>, q)
<1>1. /\ Len(Append(s, cmd)) = Len(s) + 1 /\ Append(s, cmd)[Len(s) + 1] = cmd
      /\ \A i \in 1 .. Len(s) : Append(s, cmd)[i] = s[i]
      /\ \A i \in 1 .. Len(s) + 1 : i \in 1 .. Len(s) \/ i = Len(s) + 1
  BY AppendedItems
<1>2. Awaited(s, q)
  BY DEF Awaited
<1>3. Awaited(Append(s, cmd), q)
  BY <1>1, <1>2 DEF Awaited
<1>4. Awaited(<<>>, q)
  BY DEF Awaited
<1>. QED  BY <1>2, <1>3, <1>4

PhaseVars == <<path_cmd, known, close_fwd, io, cmds>>

(* A step that changes none of this keeps the phases.                      *)
LEMMA PhasesFrame ==
    ASSUME Phases, UNCHANGED PhaseVars, owner'.at = owner.at
    PROVE  Phases'
<1>1. /\ path_cmd' = path_cmd /\ known' = known /\ close_fwd' = close_fwd /\ io' = io
      /\ cmds' = cmds
  BY DEF PhaseVars
<1>. QED  BY <1>1 DEF Phases, Leaving

(* A command of another task.                                              *)
LEMMA PhasesSent ==
    ASSUME TasksTyped, Phases, NEW cmd, cmd.kind \notin {"connect", "close"},
           io' = io \/ io' = Append(io, cmd),
           UNCHANGED <<path_cmd, known, close_fwd, cmds>>, owner'.at = owner.at
    PROVE  Phases'
<1>1. io \in Seq(Commands) /\ Awaited(io, path_cmd)
  BY PhasesParts DEF TasksTyped
<1>2. Awaited(io', path_cmd)
  <2>1. Awaited(Append(io, cmd), path_cmd)
    BY <1>1, AwaitedAppended
  <2>. QED  BY <1>1, <2>1
<1>. QED  BY <1>2 DEF Phases, Awaited, Leaving

(* The owner's steps leave its stage as it is, but for those that connect  *)
(* or end it.                                                              *)
LEMMA StageKept ==
    ASSUME owner \in Owners,
           \/ Environment
           \/ OwnerReads \/ OwnerReadFails \/ OwnerForwardsTx \/ OwnerForwardsRx
           \/ \E kind \in Messages : OwnerReadsUni(kind)
           \/ OwnerForwardsUni \/ OwnerOpensStream \/ OwnerStreamDone
    PROVE  owner'.at = owner.at /\ UNCHANGED PhaseVars
<1>. USE DEF connVars, cmdVars, channels, senderVars, receiverVars, reportVars, PhaseVars, Owners
<1>1. CASE Environment
  BY <1>1 DEF Environment, PeerSends, PeerStream, ConnectionLost
<1>2. CASE OwnerReads \/ OwnerReadFails
  BY <1>2 DEF OwnerReads, OwnerReadFails
<1>3. CASE OwnerForwardsTx \/ OwnerForwardsRx
  BY <1>3 DEF OwnerForwardsTx, OwnerForwardsRx
<1>4. CASE \E kind \in Messages : OwnerReadsUni(kind)
  BY <1>4 DEF OwnerReadsUni
<1>5. CASE OwnerForwardsUni
  BY <1>5 DEF OwnerForwardsUni
<1>6. CASE OwnerOpensStream \/ OwnerStreamDone
  BY <1>6 DEF OwnerOpensStream, OwnerStreamDone
<1>. QED  BY <1>1, <1>2, <1>3, <1>4, <1>5, <1>6

(* The steps of the owner keep the phases.                                 *)
LEMMA OwnerPhases ==
    ASSUME TasksTyped, Phases, Pipeline, OwnerArm
    PROVE  Phases'
<1>0. /\ owner \in Owners /\ io \in Seq(Commands)
      /\ Awaited(io, path_cmd) /\ Told(cmds, path_cmd)
      /\ Awaited(<<>>, path_cmd')
  BY PhasesParts DEF TasksTyped, Awaited
<1>1. ASSUME NEW ok \in BOOLEAN, OwnerConnects(ok)
      PROVE  Phases'
  <2>1. /\ io # <<>> /\ Head(io).kind = "connect" /\ io' = Tail(io)
        /\ path_cmd' = IF ok THEN "connected" ELSE "failed"
        /\ cmds' = cmds /\ close_fwd' = close_fwd
    BY <1>1 DEF OwnerConnects
  <2>2. /\ Len(io) \in Nat /\ 1 \in 1 .. Len(io) /\ io[1].kind = "connect"
        /\ Len(io') = Len(io) - 1 /\ \A i \in 1 .. Len(io') : io'[i] = io[i + 1]
    BY <1>0, <2>1
  <2>3. /\ path_cmd = "connecting"
        /\ \A k \in 1 .. Len(io) : io[k].kind = "connect" => k = 1
        /\ \A k \in 1 .. Len(io) : io[k].kind # "close"
    BY <1>0, <2>2 DEF Awaited
  <2>4. \A i \in 1 .. Len(io') : io'[i].kind # "connect" /\ io'[i].kind # "close"
    <3>1. \A i \in 1 .. Len(io') : i + 1 \in 1 .. Len(io) /\ i + 1 # 1
      BY <2>2
    <3>. QED  BY <2>2, <2>3, <3>1
  <2>5. Awaited(io', path_cmd')
    BY <2>4 DEF Awaited
  <2>6. Told(cmds', path_cmd')
    BY <1>0, <2>1, <2>3 DEF Told
  <2>7. ~close_fwd
    BY <2>3 DEF Phases, Leaving
  <2>. QED  BY <2>1, <2>5, <2>6, <2>7 DEF Phases, Awaited, Told, Leaving
<1>2. CASE OwnerUnconnectedCloses
  <2>1. /\ io # <<>> /\ Head(io).kind = "close" /\ io' = <<>>
        /\ UNCHANGED <<path_cmd, close_fwd, known, cmds>>
    BY <1>2 DEF OwnerUnconnectedCloses, cmdVars, senderVars
  <2>2. 1 \in 1 .. Len(io) /\ io[1].kind = "close"
    BY <1>0, <2>1
  <2>3. Leaving
    BY <2>2 DEF Phases
  <2>. QED  BY <1>0, <2>1, <2>3 DEF Phases, Awaited, Leaving
<1>3. CASE OwnerCommands
  <2>1. owner.at = "serving" /\ io' = <<>> /\ UNCHANGED <<path_cmd, close_fwd, known, cmds>>
    BY <1>3 DEF OwnerCommands, takes_commands, cmdVars, senderVars
  <2>. QED  BY <1>0, <2>1 DEF Phases, Awaited, Leaving
<1>4. CASE \/ OwnerReads \/ OwnerReadFails \/ OwnerForwardsTx \/ OwnerForwardsRx
           \/ \E kind \in Messages : OwnerReadsUni(kind)
           \/ OwnerForwardsUni \/ OwnerOpensStream \/ OwnerStreamDone
  BY <1>0, <1>4, StageKept, PhasesFrame
<1>. QED  BY <1>1, <1>2, <1>3, <1>4 DEF OwnerArm, Messages

(* The steps of the sender keep the phases.                                *)
LEMMA SenderPhases ==
    ASSUME TasksTyped, Phases, SenderStep
    PROVE  Phases'
<1>0. io \in Seq(Commands) /\ sender \in Senders
  BY DEF TasksTyped
<1>1. CASE \/ \E lane \in {"data", "ctrl"} : SenderStages(lane)
           \/ SenderFlushes \/ SenderInput
  BY <1>1, PhasesFrame DEF SenderStages, SenderFlushes, SenderInput, PhaseVars, cmdVars,
                           channels
<1>2. CASE SenderSends
  <2> DEFINE cmd == Dgrams(sender[lane_first])
  <2>1. /\ io' = io \/ io' = Append(io, cmd)
        /\ UNCHANGED <<path_cmd, known, close_fwd, cmds, owner>>
    BY <1>2, Zenon DEF SenderSends, ToOwner, cmdVars
  <2>2. cmd.kind \notin {"connect", "close"}
    BY CommandsTyped
  <2>. HIDE DEF cmd
  <2>. QED  BY <2>1, <2>2, PhasesSent
<1>3. ASSUME NEW live \in BOOLEAN, SenderCommands(live)
      PROVE  Phases'
  <2> DEFINE v == [known |-> known, at |-> path_cmd, report |-> report]
             w == Applied(v, cmds, live)
  <2>1. Believed(v, w) /\ v.at = path_cmd
    BY AppliedAll
  <2>2. /\ known' = w.known /\ path_cmd' = w.at /\ cmds' = <<>>
        /\ UNCHANGED <<io, close_fwd, owner>>
    BY <1>3 DEF SenderCommands
  <2>. HIDE DEF v, w
  <2>3. /\ path_cmd' = path_cmd \/ (path_cmd = "asked" /\ path_cmd' = "added")
        /\ path_cmd' \in {"added", "running"} => known'
    BY <2>1, <2>2 DEF Believed
  <2>4. Len(cmds') = 0
    BY <2>2
  <2>. QED  BY <2>2, <2>3, <2>4 DEF Phases, Leaving
<1>. QED  BY <1>1, <1>2, <1>3 DEF SenderStep

(* The steps of the environment and the other tasks keep the phases.       *)
LEMMA OthersPhases ==
    ASSUME TasksTyped, Phases, Environment \/ ReceiverStep \/ FastPath \/ ReportStep
    PROVE  Phases'
<1>0. owner \in Owners /\ cmds \in Seq({"add", "remove", "tick", "revive"})
  BY DEF TasksTyped
<1>1. CASE Environment
  BY <1>0, <1>1, StageKept, PhasesFrame
<1>2. CASE FastPath \/ Tick \/ ReportTimesOut
  BY <1>2, PhasesFrame DEF FastPath, Tick, ReportTimesOut, PhaseVars, cmdVars, senderVars, channels
<1>3. ASSUME UNCHANGED <<path_cmd, known, close_fwd, io, owner>>,
             NEW c \in {"tick", "revive"}, cmds' = Append(cmds, c) \/ cmds' = cmds
      PROVE  Phases'
  <2>1. \A i \in 1 .. Len(cmds') : cmds'[i] = "remove" =>
            i \in 1 .. Len(cmds) /\ cmds[i] = "remove"
    BY <1>0, <1>3, AppendedItems
  <2>. QED  BY <1>3, <2>1 DEF Phases, Leaving
<1>4. ASSUME NEW nudge \in BOOLEAN, ReceiverTakes(nudge)
      PROVE  Phases'
  BY <1>3, <1>4 DEF ReceiverTakes, Try, cmdVars, senderVars
<1>5. CASE TickSends
  BY <1>3, <1>5 DEF TickSends, cmdVars, senderVars
<1>6. CASE ReceiverSends
  <2>1. /\ io' = io \/ io' = Append(io, Dgrams(<<>>))
        /\ UNCHANGED <<path_cmd, known, close_fwd, cmds, owner>>
    BY <1>6 DEF ReceiverSends, ToOwner, cmdVars, senderVars
  <2>2. Dgrams(<<>>).kind \notin {"connect", "close"}
    BY CommandsTyped
  <2>. QED  BY <2>1, <2>2, PhasesSent
<1>7. CASE ReportSends
  <2>1. /\ io' = io \/ io' = Append(io, Request("stream", report.req))
        /\ UNCHANGED <<path_cmd, known, close_fwd, cmds, owner>>
    BY <1>7 DEF ReportSends, ToOwner, cmdVars, senderVars
  <2>2. Request("stream", report.req).kind \notin {"connect", "close"}
    BY DEF Request
  <2>. QED  BY <2>1, <2>2, PhasesSent
<1>. QED  BY <1>1, <1>2, <1>4, <1>5, <1>6, <1>7 DEF ReceiverStep, ReportStep

(* The steps of the path command processor keep the phases.                *)
LEMMA PathCmdPhases ==
    ASSUME TasksTyped, Phases, PathCmdStep
    PROVE  Phases'
<1>. USE DEF senderVars
<1>0. /\ io \in Seq(Commands) /\ cmds \in Seq({"add", "remove", "tick", "revive"})
      /\ Awaited(io, path_cmd) /\ Told(cmds, path_cmd)
      /\ \A kind, req : Request(kind, req).kind = kind
  BY PhasesParts DEF TasksTyped, Request
<1>1. CASE AddConnects
  <2>1. /\ path_cmd = "connect" /\ io' = Append(io, Request("connect", 0))
        /\ path_cmd' = "connecting" /\ UNCHANGED <<known, close_fwd, cmds, owner>>
    BY <1>1 DEF AddConnects
  <2>2. \A i \in 1 .. Len(io) : io[i].kind # "connect" /\ io[i].kind # "close"
    BY <1>0, <2>1 DEF Awaited
  <2>3. Awaited(io', path_cmd')
    <3>1. /\ Len(io') = Len(io) + 1 /\ io'[Len(io) + 1].kind = "connect"
          /\ \A i \in 1 .. Len(io) : io'[i] = io[i]
          /\ \A i \in 1 .. Len(io) + 1 : i \in 1 .. Len(io) \/ i = Len(io) + 1
      BY <1>0, <2>1, AppendedItems
    <3>2. \A i \in 1 .. Len(io') : /\ io'[i].kind = "connect" => i = Len(io) + 1
                                   /\ io'[i].kind # "close"
      BY <2>2, <3>1
    <3>. QED  BY <2>1, <3>2 DEF Awaited
  <2>4. Told(cmds', path_cmd')
    BY <1>0, <2>1 DEF Told
  <2>. QED  BY <2>1, <2>3, <2>4 DEF Phases, Awaited, Told, Leaving
<1>2. CASE AddAsks
  <2>1. /\ path_cmd = "connected" /\ cmds' = Append(cmds, "add") /\ path_cmd' = "asked"
        /\ UNCHANGED <<known, close_fwd, io, owner>>
    BY <1>2 DEF AddAsks
  <2>2. Awaited(io', path_cmd')
    BY <1>0, <2>1 DEF Awaited
  <2>3. Told(cmds', path_cmd')
    <3>1. \A i \in 1 .. Len(cmds') : cmds'[i] = "remove" =>
              i \in 1 .. Len(cmds) /\ cmds[i] = "remove"
      BY <1>0, <2>1, AppendedItems
    <3>. QED  BY <1>0, <2>1, <3>1 DEF Told
  <2>. QED  BY <2>1, <2>2, <2>3 DEF Phases, Awaited, Told, Leaving
<1>3. CASE AddStarts
  <2>1. /\ path_cmd = "added" /\ io' = Append(io, Request("readers", 0))
        /\ path_cmd' = "running" /\ UNCHANGED <<known, close_fwd, cmds, owner>>
    BY <1>3 DEF AddStarts, may_start
  <2>2. \A i \in 1 .. Len(io) : io[i].kind # "connect"
    BY <1>0, <2>1 DEF Awaited
  <2>3. Awaited(io', path_cmd')
    <3> DEFINE cmd == Request("readers", 0)
    <3>1. cmd.kind # "connect" /\ cmd.kind # "close" /\ Awaited(io, "added")
      BY <1>0, <2>1
    <3>. HIDE DEF cmd
    <3>2. Awaited(Append(io, cmd), "running")
      BY <1>0, <2>2, <3>1, AwaitedAppended
    <3>. QED  BY <2>1, <3>2 DEF cmd
  <2>4. Told(cmds', path_cmd')
    BY <1>0, <2>1 DEF Told
  <2>. QED  BY <2>1, <2>3, <2>4 DEF Phases, Awaited, Told, Leaving
<1>4. CASE RemovePath
  <2>1. /\ path_cmd \in {"running", "failed"} /\ path_cmd' = "removing"
        /\ io' = io \/ io' = Append(io, Request("close", 0))
        /\ UNCHANGED <<known, cmds, owner>>
    BY <1>4 DEF RemovePath, Try
  <2>2. \A i \in 1 .. Len(io) : io[i].kind # "connect"
    BY <1>0, <2>1 DEF Awaited
  <2>3. Awaited(Append(io, Request("close", 0)), "removing") /\ Awaited(io, "removing")
    <3> DEFINE cmd == Request("close", 0)
    <3>1. /\ cmd.kind # "connect"
          /\ path_cmd \in {"removing", "removed"} => "removing" \in {"removing", "removed"}
      BY <1>0
    <3>. HIDE DEF cmd
    <3>2. Awaited(Append(io, cmd), "removing") /\ Awaited(io, "removing")
      BY <1>0, <2>2, <3>1, AwaitedAppended
    <3>. QED  BY <3>2 DEF cmd
  <2>4. Awaited(io', path_cmd')
    BY <2>1, <2>3
  <2>5. Told(cmds', path_cmd')
    BY <1>0, <2>1 DEF Told
  <2>. QED  BY <2>1, <2>4, <2>5 DEF Phases, Awaited, Told, Leaving
<1>5. CASE RemoveTells
  <2>1. /\ path_cmd = "removing" /\ path_cmd' = "removed" /\ UNCHANGED <<known, io, owner>>
    BY <1>5 DEF RemoveTells
  <2>2. Awaited(io', path_cmd')
    BY <1>0, <2>1 DEF Awaited
  <2>. QED  BY <2>1, <2>2 DEF Phases, Awaited, Leaving
<1>6. CASE CloseForwards
  <2>1. /\ close_fwd /\ io' = Append(io, Request("close", 0)) /\ close_fwd' = FALSE
        /\ UNCHANGED <<path_cmd, known, cmds, owner>>
    BY <1>6 DEF CloseForwards
  <2>2. Leaving
    BY <2>1 DEF Phases
  <2>3. \A i \in 1 .. Len(io) : io[i].kind # "connect"
    BY <1>0, <2>2 DEF Awaited, Leaving
  <2>4. Awaited(io', path_cmd')
    BY <1>0, <2>1, <2>2, <2>3, AwaitedAppended DEF Leaving
  <2>. QED  BY <2>1, <2>4 DEF Phases, Awaited, Leaving
<1>. QED  BY <1>1, <1>2, <1>3, <1>4, <1>5, <1>6 DEF PathCmdStep

-----------------------------------------------------------------------------
(***************************************************************************)
(* Nothing comes before the readers are started.                           *)
(***************************************************************************)
Silent ==
    /\ ~owner.readers
    /\ owner.inbound_tx = <<>> /\ owner.ctrl_pending = {}
    /\ sender_in = <<>> /\ ctrl = <<>>

Asks(s) == \A i \in 1 .. Len(s) : s[i].kind # "readers"

(* Quiet, with its parts named.                                            *)
LEMMA QuietParts == Quiet <=> (Unstarted => Silent /\ Asks(io))
BY DEF Quiet, Silent, Asks

(* A command that starts no readers adds no such command.                  *)
LEMMA AsksAppended ==
    ASSUME NEW s \in Seq(Commands), NEW cmd, Asks(s), cmd.kind # "readers"
    PROVE  Asks(Append(s, cmd))
BY AppendedItems DEF Asks

(* A step of a task that neither reads nor starts the readers.             *)
LEMMA QuietSent ==
    ASSUME TasksTyped, Quiet, Unstarted' => Unstarted,
           UNCHANGED <<owner, sender_in, ctrl>>,
           \/ io' = io
           \/ \E cmd : io' = Append(io, cmd) /\ cmd.kind # "readers"
    PROVE  Quiet'
<1> SUFFICES ASSUME Unstarted'
             PROVE  Silent' /\ Asks(io)'
  BY DEF Quiet, Silent, Asks
<1>1. Silent /\ Asks(io) /\ io \in Seq(Commands)
  BY QuietParts DEF TasksTyped
<1>2. Silent'
  BY <1>1 DEF Silent
<1>3. Asks(io')
  BY <1>1, AsksAppended
<1>. QED  BY <1>2, <1>3

(* The steps of the owner keep the quiet before the readers.               *)
LEMMA OwnerQuiet ==
    ASSUME TasksTyped, Phases, Quiet, Pipeline, OwnerArm
    PROVE  Quiet'
<1> SUFFICES ASSUME Unstarted'
             PROVE  Silent' /\ Asks(io)'
  BY DEF Quiet, Silent, Asks
<1>0. /\ owner \in Owners /\ io \in Seq(Commands) /\ Asks(<<>>)
      /\ Ended.readers = FALSE /\ Ended.inbound_tx = <<>> /\ Ended.ctrl_pending = {}
      /\ Unstarted => Silent /\ Asks(io)
  BY QuietParts, EndedFields DEF TasksTyped, Asks
<1>1. ASSUME NEW ok \in BOOLEAN, OwnerConnects(ok)
      PROVE  Silent' /\ Asks(io)'
  <2>1. /\ io # <<>> /\ Head(io).kind = "connect" /\ io' = Tail(io)
        /\ UNCHANGED <<sender_in, ctrl>>
        /\ owner' = owner \/ owner' = [owner EXCEPT !.at = "serving"]
    BY <1>1 DEF OwnerConnects
  <2>2. 1 \in 1 .. Len(io) /\ io[1].kind = "connect"
    BY <1>0, <2>1
  <2>3. Unstarted
    BY <2>2 DEF Phases, Unstarted
  <2>4. Silent'
    BY <1>0, <2>1, <2>3 DEF Silent, Owners
  <2>5. \A i \in 1 .. Len(io') : i + 1 \in 1 .. Len(io) /\ io'[i] = io[i + 1]
    BY <1>0, <2>1
  <2>6. Asks(io')
    BY <1>0, <2>3, <2>5 DEF Asks
  <2>. QED  BY <2>4, <2>6
<1>2. CASE OwnerUnconnectedCloses
  <2>1. owner' = Ended /\ io' = <<>> /\ UNCHANGED <<sender_in, ctrl, path_cmd>>
    BY <1>2 DEF OwnerUnconnectedCloses, cmdVars
  <2>. QED  BY <1>0, <2>1 DEF Silent, Unstarted
<1>3. CASE OwnerCommands
  <2> DEFINE w == Performed([o |-> owner, wire |-> wire, close |-> FALSE], io)
  <2>1. After(w)
    <3>1. \A i \in 1 .. Len(io) : io[i].kind # "connect"
      BY <1>3 DEF Phases, OwnerCommands, takes_commands
    <3>. QED  BY <3>1, PerformedAll
  <2>2. /\ owner' = (IF w.close THEN Ended ELSE w.o) /\ io' = <<>>
        /\ UNCHANGED <<sender_in, ctrl, path_cmd>>
    BY <1>3 DEF OwnerCommands, cmdVars
  <2>. HIDE DEF w
  <2>3. Silent /\ Asks(io)
    BY <1>0, <2>2 DEF Unstarted
  <2>4. ~w.o.readers /\ w.o.inbound_tx = <<>> /\ w.o.ctrl_pending = {}
    BY <2>1, <2>3 DEF After, Alike, Silent, Asks
  <2>. QED  BY <1>0, <2>2, <2>3, <2>4 DEF Silent
<1>4. CASE OwnerOpensStream \/ OwnerStreamDone
  <2>1. /\ owner'.readers = owner.readers /\ owner'.inbound_tx = owner.inbound_tx
        /\ owner'.ctrl_pending = owner.ctrl_pending
        /\ UNCHANGED <<io, sender_in, ctrl, path_cmd>>
    BY <1>0, <1>4 DEF OwnerOpensStream, OwnerStreamDone, Owners, channels, cmdVars
  <2>. QED  BY <1>0, <2>1 DEF Silent, Unstarted
<1>5. CASE OwnerForwardsRx
  <2>1. /\ owner'.readers = owner.readers /\ owner'.inbound_tx = owner.inbound_tx
        /\ owner'.ctrl_pending = owner.ctrl_pending
        /\ UNCHANGED <<io, sender_in, ctrl, path_cmd>>
    BY <1>0, <1>5 DEF OwnerForwardsRx, Owners, cmdVars
  <2>. QED  BY <1>0, <2>1 DEF Silent, Unstarted
<1>6. CASE OwnerReads \/ OwnerReadFails
  <2>1. owner.readers /\ path_cmd' = path_cmd
    BY <1>6 DEF OwnerReads, OwnerReadFails, reading, cmdVars
  <2>. QED  BY <1>0, <2>1 DEF Silent, Unstarted
<1>7. CASE OwnerForwardsTx
  <2>1. owner.inbound_tx # <<>> /\ path_cmd' = path_cmd
    BY <1>7 DEF OwnerForwardsTx, cmdVars
  <2>. QED  BY <1>0, <2>1 DEF Silent, Unstarted
<1>8. ASSUME NEW kind \in Messages, OwnerReadsUni(kind)
      PROVE  Silent' /\ Asks(io)'
  <2>1. owner.readers /\ path_cmd' = path_cmd
    BY <1>8 DEF OwnerReadsUni, cmdVars
  <2>. QED  BY <1>0, <2>1 DEF Silent, Unstarted
<1>9. CASE OwnerForwardsUni
  <2>1. owner.ctrl_pending # {} /\ path_cmd' = path_cmd
    BY <1>9 DEF OwnerForwardsUni, cmdVars
  <2>. QED  BY <1>0, <2>1 DEF Silent, Unstarted
<1>. QED  BY <1>1, <1>2, <1>3, <1>4, <1>5, <1>6, <1>7, <1>8, <1>9 DEF OwnerArm, Messages

(* The steps of all the others keep it.                                    *)
LEMMA OthersQuiet ==
    ASSUME TasksTyped, Phases, Quiet,
           Environment \/ SenderStep \/ ReceiverStep \/ FastPath \/ ReportStep \/ PathCmdStep
    PROVE  Quiet'
<1>. USE DEF cmdVars
<1>0. \A kind, req : Request(kind, req).kind = kind
  BY DEF Request
<1>1. CASE Environment
  BY <1>1, QuietSent DEF Environment, PeerSends, PeerStream, ConnectionLost, Unstarted, channels
<1>2. CASE SenderStep
  <2>1. ASSUME NEW lane \in {"data", "ctrl"}, SenderStages(lane)
        PROVE  Quiet'
    BY <2>1, QuietSent DEF SenderStages, Unstarted, channels
  <2>2. CASE SenderFlushes
    BY <2>2, QuietSent DEF SenderFlushes, Unstarted, channels
  <2>3. CASE SenderSends
    BY <2>3, QuietSent, CommandsTyped, Zenon DEF SenderSends, ToOwner, Unstarted
  <2>4. CASE SenderInput
    <3>1. sender_in # <<>> /\ path_cmd' = path_cmd
      BY <2>4 DEF SenderInput
    <3>. QED  BY <3>1 DEF Quiet, Unstarted
  <2>5. ASSUME NEW live \in BOOLEAN, SenderCommands(live)
        PROVE  Quiet'
    <3> DEFINE v == [known |-> known, at |-> path_cmd, report |-> report]
               w == Applied(v, cmds, live)
    <3>1. Believed(v, w) /\ v.at = path_cmd
      BY AppliedAll
    <3>2. path_cmd' = w.at /\ UNCHANGED <<io, owner, sender_in, ctrl>>
      BY <2>5 DEF SenderCommands
    <3>. HIDE DEF v, w
    <3>3. Unstarted' => Unstarted
      BY <3>1, <3>2 DEF Believed, Unstarted
    <3>. QED  BY <3>2, <3>3, QuietSent
  <2>. QED  BY <1>2, <2>1, <2>2, <2>3, <2>4, <2>5 DEF SenderStep
<1>3. CASE ReceiverStep
  <2>1. ASSUME NEW nudge \in BOOLEAN, ReceiverTakes(nudge)
        PROVE  Quiet'
    BY <2>1, QuietSent DEF ReceiverTakes, Unstarted
  <2>2. CASE ReceiverSends
    BY <2>2, QuietSent, CommandsTyped DEF ReceiverSends, ToOwner, Unstarted
  <2>. QED  BY <1>3, <2>1, <2>2 DEF ReceiverStep
<1>4. CASE FastPath
  <2>1. ctrl # <<>> /\ path_cmd' = path_cmd
    BY <1>4 DEF FastPath
  <2>. QED  BY <2>1 DEF Quiet, Unstarted
<1>5. CASE ReportStep
  <2>1. CASE Tick \/ TickSends \/ ReportTimesOut
    BY <2>1, QuietSent DEF Tick, TickSends, ReportTimesOut, Unstarted, channels
  <2>2. CASE ReportSends
    BY <1>0, <2>2, QuietSent DEF ReportSends, ToOwner, Unstarted
  <2>. QED  BY <1>5, <2>1, <2>2 DEF ReportStep
<1>6. CASE PathCmdStep
  <2>1. CASE AddConnects
    BY <1>0, <2>1, QuietSent DEF AddConnects, Unstarted
  <2>2. CASE AddAsks
    BY <2>2, QuietSent DEF AddAsks, Unstarted
  <2>3. CASE AddStarts \/ RemovePath \/ RemoveTells
    BY <2>3 DEF AddStarts, RemovePath, RemoveTells, Quiet, Unstarted
  <2>4. CASE CloseForwards
    BY <1>0, <2>4, QuietSent DEF CloseForwards, Unstarted
  <2>. QED  BY <1>6, <2>1, <2>2, <2>3, <2>4 DEF PathCmdStep
<1>. QED  BY <1>1, <1>2, <1>3, <1>4, <1>5, <1>6

-----------------------------------------------------------------------------
(***************************************************************************)
(* The order of what is staged.  A command put into the owner's channel is *)
(* behind what is there, and ahead of what the slot keeps.                 *)
(***************************************************************************)
LEMMA PipelineSent ==
    ASSUME TasksTyped, Pipeline, NEW cmd \in Commands,
           io' = io \/ io' = Append(io, cmd), UNCHANGED <<wire, staged>>,
           sender'.data = sender.data \/ sender'.data = <<>>,
           sender'.ctrl = sender.ctrl \/ sender'.ctrl = <<>>,
           Ordered(cmd.items), UpTo(cmd.items, staged), Ahead(wire, cmd.items),
           \A j \in 1 .. Len(io) : Ahead(io[j].items, cmd.items),
           Ahead(cmd.items, sender'.data), Ahead(cmd.items, sender'.ctrl)
    PROVE  Pipeline'
<1>1. io \in Seq(Commands) /\ Len(io) \in Nat
  BY DEF TasksTyped
<1>2. \A s : Ordered(<<>>) /\ Ahead(s, <<>>) /\ Ahead(<<>>, s) /\ UpTo(<<>>, s)
  BY DEF Ordered, Ahead, UpTo
<1>3. \A s : SlotBehind(s) => Ahead(s, sender'.data) /\ Ahead(s, sender'.ctrl) /\ UpTo(s, staged)
  BY <1>2 DEF SlotBehind
<1>4. /\ Ordered(sender'.data) /\ Ordered(sender'.ctrl) /\ Ahead(sender'.data, sender'.ctrl)
      /\ UpTo(sender'.data, staged) /\ UpTo(sender'.ctrl, staged)
  BY <1>2 DEF Pipeline
<1>5. /\ \A i \in 1 .. Len(sender'.data) : sender'.data[i][1] = "data"
      /\ \A i \in 1 .. Len(sender'.ctrl) : sender'.ctrl[i][1] = "ctrl"
  BY DEF Pipeline
<1>6. Ordered(wire) /\ Ahead(wire, sender'.data) /\ Ahead(wire, sender'.ctrl) /\ UpTo(wire, staged)
  BY <1>3 DEF Pipeline
<1> DEFINE Fits(s) == /\ Ordered(s) /\ Ahead(s, sender'.data) /\ Ahead(s, sender'.ctrl)
                      /\ UpTo(s, staged) /\ Ahead(wire, s)
<1>7. Fits(cmd.items)
  OBVIOUS
<1>8. \A j \in 1 .. Len(io) : Fits(io[j].items)
  BY <1>3 DEF Pipeline
<1>9. \A j \in 1 .. Len(io) : \A k \in j + 1 .. Len(io) : Ahead(io[j].items, io[k].items)
  BY DEF Pipeline
<1>. HIDE DEF Fits
<1>10. /\ \A j \in 1 .. Len(io') : Fits(io'[j].items)
       /\ \A j \in 1 .. Len(io') : \A k \in j + 1 .. Len(io') : Ahead(io'[j].items, io'[k].items)
  <2>1. CASE io' = io
    BY <1>8, <1>9, <2>1
  <2>2. CASE io' = Append(io, cmd)
    <3>1. /\ Len(io') = Len(io) + 1 /\ io'[Len(io) + 1] = cmd
          /\ \A i \in 1 .. Len(io) : io'[i] = io[i]
          /\ \A i \in 1 .. Len(io) + 1 : i \in 1 .. Len(io) \/ i = Len(io) + 1
      BY <1>1, <2>2, AppendedItems
    <3>2. \A j \in 1 .. Len(io') : Fits(io'[j].items)
      BY <1>7, <1>8, <3>1
    <3>3. ASSUME NEW j \in 1 .. Len(io'), NEW k \in j + 1 .. Len(io')
          PROVE  Ahead(io'[j].items, io'[k].items)
      <4>1. j \in 1 .. Len(io) /\ (k \in j + 1 .. Len(io) \/ k = Len(io) + 1)
        BY <1>1, <3>1
      <4>2. k \in j + 1 .. Len(io) => k \in 1 .. Len(io)
        BY <1>1, <4>1
      <4>. QED  BY <1>9, <3>1, <4>1, <4>2
    <3>. QED  BY <3>2, <3>3
  <2>. QED  BY <2>1, <2>2
<1>. QED  BY <1>4, <1>5, <1>6, <1>10 DEF Pipeline, SlotBehind, Fits

(* A step of a task that sends no datagrams of the sender.                 *)
LEMMA PipelineFrame ==
    ASSUME TasksTyped, Pipeline, UNCHANGED <<wire, staged>>,
           sender'.data = sender.data, sender'.ctrl = sender.ctrl,
           \/ io' = io
           \/ \E cmd \in Commands : io' = Append(io, cmd) /\ cmd.items = <<>>
    PROVE  Pipeline'
<1>1. \A s : Ordered(<<>>) /\ Ahead(s, <<>>) /\ Ahead(<<>>, s) /\ UpTo(<<>>, s)
  BY DEF Ordered, Ahead, UpTo
<1>2. CASE io' = io
  BY <1>2 DEF Pipeline, SlotBehind
<1>3. ASSUME NEW cmd \in Commands, io' = Append(io, cmd), cmd.items = <<>>
      PROVE  Pipeline'
  BY <1>1, <1>3, PipelineSent
<1>. QED  BY <1>2, <1>3

(* One datagram more, behind all that were staged.                         *)
LEMMA OneStaged ==
    ASSUME NEW s \in Seq(Items), NEW n \in Nat, NEW lane \in {"data", "ctrl"}, UpTo(s, n)
    PROVE  /\ UpTo(s, n + 1) /\ UpTo(Append(s, <<lane, n + 1>>), n + 1)
           /\ Ordered(s) => Ordered(Append(s, <<lane, n + 1>>))
           /\ \A t \in Seq(Items) :
                 UpTo(t, n) /\ Ahead(t, s) => Ahead(t, Append(s, <<lane, n + 1>>))
           /\ \A t \in Seq(Items) :
                 /\ lane = "data" /\ Ahead(s, t) /\ (\A i \in 1 .. Len(t) : t[i][1] = "ctrl")
                 => Ahead(Append(s, <<lane, n + 1>>), t)
<1> DEFINE x == <<lane, n + 1>>
           r == Append(s, x)
<1>0. x \in Items /\ x[1] = lane /\ x[2] = n + 1
  BY DEF Items
<1>. HIDE DEF x
<1>1. /\ Len(s) \in Nat /\ Len(r) = Len(s) + 1 /\ r[Len(s) + 1] = x
      /\ \A i \in 1 .. Len(s) : r[i] = s[i]
      /\ \A i \in 1 .. Len(s) + 1 : i \in 1 .. Len(s) \/ i = Len(s) + 1
  BY AppendedItems
<1>2. \A t \in Seq(Items) : \A i \in 1 .. Len(t) : t[i][2] \in Nat
  BY DEF Items
<1>. HIDE DEF r
<1>3. ASSUME NEW t \in Seq(Items), UpTo(t, n)
      PROVE  UpTo(t, n + 1) /\ \A i \in 1 .. Len(t) : Goes(t[i], x)
  <2>1. \A i \in 1 .. Len(t) : t[i][2] \in Nat /\ t[i][2] <= n
    BY <1>2, <1>3 DEF UpTo
  <2>2. \A i \in 1 .. Len(t) : t[i][2] <= n + 1
    BY <2>1
  <2>. QED  BY <1>0, <2>2 DEF UpTo, Goes
<1>4. UpTo(r, n + 1)
  <2>1. \A i \in 1 .. Len(s) : s[i][2] <= n + 1
    BY <1>3 DEF UpTo
  <2>. QED  BY <1>0, <1>1, <2>1 DEF UpTo
<1>5. ASSUME Ordered(s)
      PROVE  Ordered(r)
  <2> SUFFICES ASSUME NEW i \in 1 .. Len(r), NEW k \in 1 .. Len(r), i < k
               PROVE  Goes(r[i], r[k])
    BY DEF Ordered
  <2>1. i \in 1 .. Len(s) /\ r[i] = s[i]
    BY <1>1
  <2>2. CASE k \in 1 .. Len(s)
    BY <1>1, <1>5, <2>1, <2>2 DEF Ordered
  <2>3. CASE k = Len(s) + 1
    BY <1>1, <1>3, <2>1, <2>3
  <2>. QED  BY <1>1, <2>2, <2>3
<1>6. ASSUME NEW t \in Seq(Items), UpTo(t, n), Ahead(t, s)
      PROVE  Ahead(t, r)
  BY <1>1, <1>3, <1>6 DEF Ahead
<1>7. ASSUME NEW t \in Seq(Items), lane = "data", Ahead(s, t),
             \A i \in 1 .. Len(t) : t[i][1] = "ctrl"
      PROVE  Ahead(r, t)
  BY <1>0, <1>1, <1>7 DEF Ahead, Goes
<1>. QED  BY <1>3, <1>4, <1>5, <1>6, <1>7 DEF r, x

(* Staging a datagram keeps the order.                                     *)
LEMMA StagesPipeline ==
    ASSUME TasksTyped, Pipeline, NEW lane \in {"data", "ctrl"}, SenderStages(lane)
    PROVE  Pipeline'
<1>0. /\ sender \in Senders /\ staged \in Nat /\ io \in Seq(Commands) /\ wire \in Seq(Items)
      /\ sender.data \in Seq(Items) /\ sender.ctrl \in Seq(Items)
      /\ \A j \in 1 .. Len(io) : io[j].items \in Seq(Items)
  <2>1. /\ sender \in Senders /\ staged \in Nat /\ io \in Seq(Commands) /\ wire \in Seq(Items)
    BY DEF TasksTyped
  <2>2. sender.data \in Seq(Items) /\ sender.ctrl \in Seq(Items)
    BY <2>1 DEF Senders
  <2>3. \A j \in 1 .. Len(io) : io[j] \in Commands
    BY <2>1
  <2>4. \A j \in 1 .. Len(io) : io[j].items \in Seq(Items)
    BY <2>3 DEF Commands
  <2>. QED  BY <2>1, <2>2, <2>4
<1>1. staged' = staged + 1 /\ UNCHANGED <<io, wire>>
  BY <1>0 DEF SenderStages, channels
<1>2. /\ Ordered(sender.data) /\ Ordered(sender.ctrl) /\ Ahead(sender.data, sender.ctrl)
      /\ UpTo(sender.data, staged) /\ UpTo(sender.ctrl, staged)
      /\ \A i \in 1 .. Len(sender.data) : sender.data[i][1] = "data"
      /\ \A i \in 1 .. Len(sender.ctrl) : sender.ctrl[i][1] = "ctrl"
      /\ Ordered(wire) /\ SlotBehind(wire)
      /\ \A j \in 1 .. Len(io) :
            /\ Ordered(io[j].items) /\ SlotBehind(io[j].items)
            /\ Ahead(wire, io[j].items)
            /\ \A k \in j + 1 .. Len(io) : Ahead(io[j].items, io[k].items)
  BY DEF Pipeline
<1> DEFINE d == sender'.data
           c == sender'.ctrl
           AtSlot == /\ Ordered(d) /\ Ordered(c) /\ Ahead(d, c)
                     /\ UpTo(d, staged + 1) /\ UpTo(c, staged + 1)
                     /\ \A i \in 1 .. Len(d) : d[i][1] = "data"
                     /\ \A i \in 1 .. Len(c) : c[i][1] = "ctrl"
                     /\ \A s \in Seq(Items) :
                           SlotBehind(s) => Ahead(s, d) /\ Ahead(s, c) /\ UpTo(s, staged + 1)
<1>3. \A s \in Seq(Items) : UpTo(s, staged) => UpTo(s, staged + 1)
  BY <1>0, OneStaged
<1>4. AtSlot
  <2>1. CASE ~paths
    <3>1. d = <<>> /\ c = <<>>
      BY <1>0, <2>1 DEF SenderStages, Senders
    <3>. HIDE DEF d, c
    <3>2. \A s : Ordered(<<>>) /\ Ahead(s, <<>>) /\ Ahead(<<>>, s) /\ UpTo(<<>>, s)
      BY DEF Ordered, Ahead, UpTo
    <3>3. Len(d) = 0 /\ Len(c) = 0
      BY <3>1
    <3>. QED  BY <1>3, <3>1, <3>2, <3>3 DEF SlotBehind
  <2>2. CASE paths /\ lane = "data"
    <3>1. d = Append(sender.data, <<"data", staged + 1>>) /\ c = sender.ctrl
      BY <1>0, <1>1, <2>2 DEF SenderStages, Senders
    <3>. HIDE DEF d, c
    <3>2. /\ UpTo(d, staged + 1) /\ Ordered(d) /\ Ahead(d, c) /\ UpTo(c, staged + 1)
          /\ \A s \in Seq(Items) : UpTo(s, staged) /\ Ahead(s, sender.data) => Ahead(s, d)
      BY <1>0, <1>2, <1>3, <3>1, OneStaged
    <3>3. \A i \in 1 .. Len(d) : d[i][1] = "data"
      BY <1>0, <1>2, <3>1, AppendedItems
    <3>. QED  BY <1>2, <1>3, <3>1, <3>2, <3>3 DEF SlotBehind
  <2>3. CASE paths /\ lane = "ctrl"
    <3>1. c = Append(sender.ctrl, <<"ctrl", staged + 1>>) /\ d = sender.data
      BY <1>0, <1>1, <2>3 DEF SenderStages, Senders
    <3>. HIDE DEF d, c
    <3>2. /\ UpTo(c, staged + 1) /\ Ordered(c) /\ Ahead(d, c) /\ UpTo(d, staged + 1)
          /\ \A s \in Seq(Items) : UpTo(s, staged) /\ Ahead(s, sender.ctrl) => Ahead(s, c)
      BY <1>0, <1>2, <1>3, <3>1, OneStaged
    <3>3. \A i \in 1 .. Len(c) : c[i][1] = "ctrl"
      BY <1>0, <1>2, <3>1, AppendedItems
    <3>. QED  BY <1>2, <1>3, <3>1, <3>2, <3>3 DEF SlotBehind
  <2>. QED  BY <2>1, <2>2, <2>3
<1>5. /\ Ahead(wire, d) /\ Ahead(wire, c) /\ UpTo(wire, staged + 1)
      /\ \A j \in 1 .. Len(io) : /\ Ahead(io[j].items, d) /\ Ahead(io[j].items, c)
                                 /\ UpTo(io[j].items, staged + 1)
  BY <1>0, <1>2, <1>4
<1>. QED  BY <1>1, <1>2, <1>4, <1>5 DEF Pipeline, SlotBehind

(* Handing a lane of the slot to the owner keeps the order.                *)
LEMMA SendsPipeline ==
    ASSUME TasksTyped, Pipeline, SenderSends
    PROVE  Pipeline'
<1> DEFINE items == sender[lane_first]
           cmd == Dgrams(items)
<1>0. /\ sender \in Senders
      /\ sender.data \in Seq(Items) /\ sender.ctrl \in Seq(Items)
      /\ \A j \in 1 .. Len(io) : SlotBehind(io[j].items)
      /\ SlotBehind(wire)
      /\ Ordered(sender.data) /\ Ordered(sender.ctrl) /\ Ahead(sender.data, sender.ctrl)
      /\ UpTo(sender.data, staged) /\ UpTo(sender.ctrl, staged)
  BY DEF TasksTyped, Senders, Pipeline
<1>1. UNCHANGED <<wire, staged>> /\ (io' = io \/ io' = Append(io, cmd))
  BY Zenon DEF SenderSends, ToOwner
<1>2. \A s : Ahead(s, <<>>)
  BY DEF Ahead
<1>3. \/ /\ items = sender.data /\ sender'.data = <<>> /\ sender'.ctrl = sender.ctrl
      \/ /\ items = sender.ctrl /\ sender'.data = sender.data /\ sender'.ctrl = <<>>
         /\ sender.data = <<>>
  <2>1. CASE sender.data # <<>>
    <3>1. lane_first = "data"
      BY <2>1 DEF lane_first
    <3>2. \/ sender' = [sender EXCEPT !["data"] = <<>>]
          \/ sender' = [[sender EXCEPT !["data"] = <<>>] EXCEPT !.at = "select"]
      BY <3>1, Zenon DEF SenderSends
    <3>. QED  BY <1>0, <3>1, <3>2, Zenon DEF Senders
  <2>2. CASE sender.data = <<>>
    <3>1. lane_first = "ctrl"
      BY <2>2 DEF lane_first
    <3>2. \/ sender' = [sender EXCEPT !["ctrl"] = <<>>]
          \/ sender' = [[sender EXCEPT !["ctrl"] = <<>>] EXCEPT !.at = "select"]
      BY <3>1, Zenon DEF SenderSends
    <3>. QED  BY <1>0, <2>2, <3>1, <3>2, Zenon DEF Senders
  <2>. QED  BY <2>1, <2>2
<1>4. items \in Seq(Items)
  BY <1>0, <1>3
<1>. HIDE DEF items
<1>5. cmd \in Commands /\ cmd.items = items
  BY <1>4, CommandsTyped
<1>6. /\ Ordered(items) /\ UpTo(items, staged) /\ Ahead(wire, items)
      /\ \A j \in 1 .. Len(io) : Ahead(io[j].items, items)
      /\ Ahead(items, sender'.data) /\ Ahead(items, sender'.ctrl)
  <2>1. CASE items = sender.data /\ sender'.data = <<>> /\ sender'.ctrl = sender.ctrl
    BY <1>0, <1>2, <2>1 DEF SlotBehind
  <2>2. CASE /\ items = sender.ctrl /\ sender'.data = sender.data /\ sender'.ctrl = <<>>
             /\ sender.data = <<>>
    BY <1>0, <1>2, <2>2 DEF SlotBehind
  <2>. QED  BY <1>3, <2>1, <2>2
<1>. HIDE DEF cmd
<1>. QED  BY <1>1, <1>3, <1>5, <1>6, PipelineSent

(* Every step keeps the order.                                             *)
LEMMA PipelineKept ==
    ASSUME TasksTyped, Phases, Pipeline, TaskNext
    PROVE  Pipeline'
<1>. USE DEF connVars, cmdVars, senderVars, receiverVars, reportVars
<1>0. /\ io \in Seq(Commands) /\ sender \in Senders /\ report.req \in Nat /\ 0 \in Nat
      /\ <<>> \in Seq(Items)
  BY DEF TasksTyped, Reports
<1>1. CASE Environment
  BY <1>1, PipelineFrame DEF Environment, PeerSends, PeerStream, ConnectionLost, channels
<1>2. ASSUME NEW ok \in BOOLEAN, OwnerConnects(ok)
      PROVE  Pipeline'
  <2>1. io # <<>> /\ io' = Tail(io) /\ UNCHANGED <<wire, sender, staged>>
    BY <1>2 DEF OwnerConnects
  <2>2. /\ Len(io) \in Nat /\ Len(io') = Len(io) - 1
        /\ \A i \in 1 .. Len(io') : i + 1 \in 1 .. Len(io) /\ io'[i] = io[i + 1]
    BY <1>0, <2>1
  <2>3. \A j \in 1 .. Len(io') : \A k \in j + 1 .. Len(io') :
            k + 1 \in (j + 1) + 1 .. Len(io) /\ k \in 1 .. Len(io')
    BY <2>2
  <2>4. \A j \in 1 .. Len(io') :
            /\ Ordered(io'[j].items) /\ SlotBehind(io'[j].items) /\ Ahead(wire, io'[j].items)
            /\ \A k \in j + 1 .. Len(io') : Ahead(io'[j].items, io'[k].items)
    BY <2>2, <2>3 DEF Pipeline
  <2>. QED  BY <2>1, <2>4 DEF Pipeline, SlotBehind
<1>3. CASE OwnerUnconnectedCloses
  <2>1. Len(io') = 0 /\ UNCHANGED <<wire, sender, staged>>
    BY <1>3 DEF OwnerUnconnectedCloses
  <2>. QED  BY <2>1 DEF Pipeline, SlotBehind
<1>4. CASE OwnerCommands
  <2> DEFINE w == Performed([o |-> owner, wire |-> wire, close |-> FALSE], io)
  <2>1. After(w)
    <3>1. \A i \in 1 .. Len(io) : io[i].kind # "connect"
      BY <1>4 DEF Phases, OwnerCommands, takes_commands
    <3>. QED  BY <3>1, PerformedAll
  <2>2. wire' = w.wire /\ io' = <<>> /\ UNCHANGED <<sender, staged>>
    BY <1>4 DEF OwnerCommands
  <2>. HIDE DEF w
  <2>3. Ordered(wire') /\ SlotBehind(wire') /\ Len(io') = 0
    BY <2>1, <2>2 DEF After
  <2>. QED  BY <2>2, <2>3 DEF Pipeline, SlotBehind
<1>5. CASE OwnerReads \/ OwnerReadFails \/ OwnerForwardsTx \/ OwnerForwardsRx
  BY <1>5, PipelineFrame DEF OwnerReads, OwnerReadFails, OwnerForwardsTx, OwnerForwardsRx, channels
<1>6. ASSUME NEW kind \in Messages, OwnerReadsUni(kind)
      PROVE  Pipeline'
  BY <1>6, PipelineFrame DEF OwnerReadsUni, channels
<1>7. CASE OwnerForwardsUni
  BY <1>7, PipelineFrame DEF OwnerForwardsUni
<1>8. CASE OwnerOpensStream \/ OwnerStreamDone
  BY <1>8, PipelineFrame DEF OwnerOpensStream, OwnerStreamDone, channels
<1>9. CASE SenderStep
  <2>1. CASE SenderFlushes
    BY <1>0, <2>1, PipelineFrame DEF SenderFlushes, Senders, channels
  <2>2. CASE SenderInput
    BY <2>2, PipelineFrame DEF SenderInput
  <2>3. ASSUME NEW live \in BOOLEAN, SenderCommands(live)
        PROVE  Pipeline'
    BY <2>3, PipelineFrame DEF SenderCommands
  <2>. QED  BY <1>9, <2>1, <2>2, <2>3, StagesPipeline, SendsPipeline DEF SenderStep
<1>10. CASE ReceiverStep
  <2>1. ASSUME NEW nudge \in BOOLEAN, ReceiverTakes(nudge)
        PROVE  Pipeline'
    BY <2>1, PipelineFrame DEF ReceiverTakes
  <2>2. CASE ReceiverSends
    BY <1>0, <2>2, CommandsTyped, PipelineFrame DEF ReceiverSends, ToOwner
  <2>. QED  BY <1>10, <2>1, <2>2 DEF ReceiverStep
<1>11. CASE FastPath
  BY <1>11, PipelineFrame DEF FastPath
<1>12. CASE ReportStep
  <2>1. CASE Tick \/ TickSends \/ ReportTimesOut
    BY <2>1, PipelineFrame DEF Tick, TickSends, ReportTimesOut, channels
  <2>2. CASE ReportSends
    <3>1. /\ Request("stream", report.req) \in Commands
          /\ Request("stream", report.req).items = <<>>
      BY <1>0, CommandsTyped
    <3>. QED  BY <2>2, <3>1, PipelineFrame DEF ReportSends, ToOwner
  <2>. QED  BY <1>12, <2>1, <2>2 DEF ReportStep
<1>13. CASE PathCmdStep
  <2>1. \A kind \in {"connect", "readers", "close"} :
            Request(kind, 0) \in Commands /\ Request(kind, 0).items = <<>>
    BY <1>0, CommandsTyped
  <2>2. /\ UNCHANGED <<wire, sender, staged>>
        /\ \/ io' = io
           \/ \E kind \in {"connect", "readers", "close"} : io' = Append(io, Request(kind, 0))
    BY <1>13 DEF PathCmdStep, AddConnects, AddAsks, AddStarts, RemovePath, RemoveTells,
                 CloseForwards, Try
  <2>. QED  BY <2>1, <2>2, PipelineFrame
<1>. QED  BY <1>1, <1>2, <1>3, <1>4, <1>5, <1>6, <1>7, <1>8, <1>9, <1>10, <1>11, <1>12, <1>13
          DEF TaskNext, OwnerArm, Messages

-----------------------------------------------------------------------------
(***************************************************************************)
(* What arrives is handed on once.                                         *)
(***************************************************************************)
Lanes ==
    /\ Flows(overflowed.rx, Keys(quinn, "rx"), arrived.rx, rx_seen, msg, owner.inbound)
    /\ Flows(overflowed.tx, Keys(quinn, "tx"), arrived.tx, tx_seen, sender_in, owner.inbound_tx)

LanesVars == <<quinn, arrived, overflowed, rx_seen, tx_seen, msg, sender_in>>

(* A step that touches no lane keeps what arrives.                         *)
LEMMA InboundFrame ==
    ASSUME Inbound, UNCHANGED LanesVars,
           \/ owner'.at = "ended"
           \/ /\ owner.at # "ended"
              /\ owner'.inbound = owner.inbound /\ owner'.inbound_tx = owner.inbound_tx
           \/ owner' = owner
    PROVE  Inbound'
<1>1. /\ quinn' = quinn /\ arrived' = arrived /\ overflowed' = overflowed
      /\ rx_seen' = rx_seen /\ tx_seen' = tx_seen
      /\ msg' = msg /\ sender_in' = sender_in
  BY DEF LanesVars
<1>. QED  BY <1>1 DEF Inbound

(* A datagram arrives: in its lane it is on top, and the other lane or its *)
(* own may lose its oldest one.                                            *)
LEMMA FlowsSent ==
    ASSUME TasksTyped, NEW lane \in {"rx", "tx"}, PeerSends(lane), NEW l \in {"rx", "tx"},
           NEW seen \in Seq(Nat), NEW channel \in Seq(Seq(Nat)), NEW held \in Seq(Nat),
           Flows(overflowed[l], Keys(quinn, l), arrived[l], seen, channel, held)
    PROVE  Flows(overflowed'[l], Keys(quinn', l), arrived'[l], seen, channel, held)
<1> DEFINE x == arrived[lane] + 1
<1>1. /\ quinn \in Seq(Datagrams) /\ arrived[l] \in Nat /\ x \in Nat
      /\ overflowed \in [rx : SUBSET Nat, tx : SUBSET Nat] /\ overflowed[l] \in SUBSET Nat
      /\ Keys(quinn, l) \in Seq(Nat)
      /\ arrived'[l] = IF lane = l THEN arrived[l] + 1 ELSE arrived[l]
  <2>1. /\ quinn \in Seq(Datagrams) /\ arrived \in [rx : Nat, tx : Nat, uni : Nat]
        /\ overflowed \in [rx : SUBSET Nat, tx : SUBSET Nat]
        /\ arrived' = [arrived EXCEPT ![lane] = arrived[lane] + 1]
    BY DEF TasksTyped, PeerSends
  <2>2. Keys(quinn, l) \in Seq(Nat)
    BY <2>1, KeysOf
  <2>3. arrived'[l] = IF lane = l THEN arrived[l] + 1 ELSE arrived[l]
    BY <2>1
  <2>. QED  BY <2>1, <2>2, <2>3
<1>2. PICK rest : PeerSent(lane, rest)
  BY PeerSendsOne
<1>3. Flows(overflowed'[l], Keys(rest, l), arrived[l], seen, channel, held)
      /\ overflowed'[l] \in SUBSET Nat
  <2>1. CASE rest = quinn /\ overflowed' = overflowed
    BY <1>1, <2>1
  <2>2. CASE /\ quinn # <<>> /\ rest = Tail(quinn)
             /\ overflowed' = [overflowed EXCEPT
                                  ![quinn[1][1]] = overflowed[quinn[1][1]] \cup {quinn[1][2]}]
    <3> DEFINE h == Keys(quinn, l)[1]
    <3>1. /\ Keys(quinn, l) # <<>> /\ Keys(rest, l) = Tail(Keys(quinn, l))
          /\ h = IF quinn[1][1] = l THEN quinn[1][2] ELSE 0
          /\ quinn[1] \in Datagrams
      BY <1>1, <2>2, KeysDropped
    <3>2. Flows(IF h = 0 THEN overflowed[l] ELSE overflowed[l] \cup {h},
                Tail(Keys(quinn, l)), arrived[l], seen, channel, held)
      BY <1>1, <3>1, FlowsDropped
    <3>. HIDE DEF h
    <3>3. quinn[1][1] \in {"rx", "tx"} /\ quinn[1][2] \in Nat \ {0}
      BY <3>1 DEF Datagrams
    <3>4. overflowed'[l] = IF h = 0 THEN overflowed[l] ELSE overflowed[l] \cup {h}
      BY <1>1, <2>2, <3>1, <3>3
    <3>5. overflowed'[l] \in SUBSET Nat
      BY <1>1, <3>1, <3>3, <3>4
    <3>. QED  BY <3>1, <3>2, <3>4, <3>5
  <2>. QED  BY <1>2, <2>1, <2>2 DEF PeerSent
<1>4. Keys(quinn', l) = Append(Keys(rest, l), IF lane = l THEN x ELSE 0)
  <2>1. rest \in Seq(Datagrams) /\ quinn' = Append(rest, <<lane, x>>)
    BY <1>2 DEF PeerSent
  <2>. HIDE DEF x
  <2>2. KeysMore(rest, l, lane, x)
    BY <2>1, KeysOf
  <2>. QED  BY <1>1, <2>1, <2>2 DEF KeysMore
<1>5. Keys(rest, l) \in Seq(Nat)
  BY <1>2, KeysOf DEF PeerSent
<1> DEFINE L == overflowed'[l]
           keys == Keys(rest, l)
           top == arrived[l]
<1>6. L \in SUBSET Nat /\ keys \in Seq(Nat) /\ top \in Nat
      /\ Flows(L, keys, top, seen, channel, held)
  BY <1>1, <1>3, <1>5
<1>. HIDE DEF L, keys, top
<1>7. /\ Flows(L, Append(keys, top + 1), top + 1, seen, channel, held)
      /\ Flows(L, Append(keys, 0), top, seen, channel, held)
  BY <1>6, FlowsArrived
<1>8. lane = l => x = top + 1
  BY DEF top
<1>. QED  BY <1>1, <1>4, <1>7, <1>8 DEF L, keys, top

(* Every step keeps what arrives.                                          *)
LEMMA InboundKept ==
    ASSUME TasksTyped, Phases, Pipeline, Inbound, TaskNext
    PROVE  Inbound'
<1>. USE DEF connVars, cmdVars, senderVars, receiverVars, reportVars
<1>0. /\ owner \in Owners /\ quinn \in Seq(Datagrams)
      /\ arrived \in [rx : Nat, tx : Nat, uni : Nat]
      /\ arrived.rx \in Nat /\ arrived.tx \in Nat
      /\ msg \in Seq(Seq(Nat)) /\ sender_in \in Seq(Seq(Nat))
      /\ rx_seen \in Seq(Nat) /\ tx_seen \in Seq(Nat)
      /\ owner.inbound \in Seq(Nat) /\ owner.inbound_tx \in Seq(Nat)
      /\ Keys(quinn, "rx") \in Seq(Nat) /\ Keys(quinn, "tx") \in Seq(Nat)
  <2>1. /\ owner \in Owners /\ quinn \in Seq(Datagrams)
        /\ arrived \in [rx : Nat, tx : Nat, uni : Nat]
        /\ msg \in Seq(Seq(Nat)) /\ sender_in \in Seq(Seq(Nat))
        /\ rx_seen \in Seq(Nat) /\ tx_seen \in Seq(Nat)
    BY DEF TasksTyped
  <2>2. Keys(quinn, "rx") \in Seq(Nat) /\ Keys(quinn, "tx") \in Seq(Nat)
    BY <2>1, KeysOf
  <2>. QED  BY <2>1, <2>2, OwnerFields
<1>1. ASSUME NEW lane \in {"rx", "tx"}, PeerSends(lane)
      PROVE  Inbound'
  <2>1. owner.at = "serving" /\ UNCHANGED <<owner, rx_seen, tx_seen, msg, sender_in>>
    BY <1>1 DEF PeerSends, channels
  <2>2. Lanes
    BY <2>1 DEF Inbound, Lanes
  <2>3. Flows(overflowed'["rx"], Keys(quinn', "rx"), arrived'["rx"], rx_seen, msg, owner.inbound)
    BY <1>0, <1>1, <2>2, FlowsSent DEF Lanes
  <2>4. Flows(overflowed'["tx"], Keys(quinn', "tx"), arrived'["tx"], tx_seen, sender_in,
              owner.inbound_tx)
    BY <1>0, <1>1, <2>2, FlowsSent DEF Lanes
  <2>. QED  BY <2>1, <2>3, <2>4 DEF Inbound
<1>2. CASE PeerStream
  <2>1. /\ arrived'.rx = arrived.rx /\ arrived'.tx = arrived.tx
        /\ UNCHANGED <<owner, quinn, overflowed, rx_seen, tx_seen, msg, sender_in>>
    BY <1>0, <1>2 DEF PeerStream, channels
  <2>. QED  BY <2>1 DEF Inbound
<1>3. CASE ConnectionLost
  BY <1>3, InboundFrame DEF ConnectionLost, LanesVars, channels
<1>4. ASSUME NEW ok \in BOOLEAN, OwnerConnects(ok)
      PROVE  Inbound'
  BY <1>0, <1>4, InboundFrame DEF OwnerConnects, LanesVars, Owners
<1>5. CASE OwnerUnconnectedCloses
  BY <1>5, EndedFields, InboundFrame DEF OwnerUnconnectedCloses, LanesVars
<1>6. CASE OwnerCommands
  <2> DEFINE w == Performed([o |-> owner, wire |-> wire, close |-> FALSE], io)
  <2>1. After(w)
    <3>1. \A i \in 1 .. Len(io) : io[i].kind # "connect"
      BY <1>6 DEF Phases, OwnerCommands, takes_commands
    <3>. QED  BY <3>1, PerformedAll
  <2>2. /\ owner.at = "serving" /\ owner' = (IF w.close THEN Ended ELSE w.o)
        /\ UNCHANGED LanesVars
    BY <1>6 DEF OwnerCommands, takes_commands, LanesVars
  <2>. HIDE DEF w
  <2>. QED  BY <2>1, <2>2, EndedFields, InboundFrame DEF After, Alike
<1>7. CASE OwnerReads
  <2> DEFINE n == IF Len(quinn) < BatchMax THEN Len(quinn) ELSE BatchMax
             batch == SubSeq(quinn, 1, n)
             dead == conn = "lost" /\ n < BatchMax
             rx == Lane(batch, "rx")
             tx == Lane(batch, "tx")
  <2>1. /\ quinn' = SubSeq(quinn, n + 1, Len(quinn))
        /\ owner' = [owner EXCEPT !.inbound = Held(msg, rx), !.inbound_tx = Held(sender_in, tx),
                                  !.reader_dead = dead]
        /\ sender_in' = Forward(sender_in, tx) /\ msg' = Forward(msg, rx)
        /\ owner.at = "serving" /\ owner.inbound = <<>> /\ owner.inbound_tx = <<>>
        /\ UNCHANGED <<arrived, overflowed, rx_seen, tx_seen>>
    BY <1>7 DEF OwnerReads, reading
  <2>2. n \in 0 .. Len(quinn)
    BY <1>0, OwnerAssumption DEF OwnerAssumption
  <2>. HIDE DEF n
  <2>3. batch \in Seq(Datagrams)
    BY <1>0, <2>2
  <2>4. \A l \in {"rx", "tx"} :
            /\ Keys(batch, l) = SubSeq(Keys(quinn, l), 1, n)
            /\ Lane(batch, l) = Own(Keys(batch, l))
            /\ Keys(quinn', l) = SubSeq(Keys(quinn, l), n + 1, Len(Keys(quinn, l)))
            /\ n \in 0 .. Len(Keys(quinn, l))
    <3>. HIDE DEF batch
    <3>1. \A l \in {"rx", "tx"} : Lane(batch, l) = Own(Keys(batch, l))
      BY <2>3, KeysOf
    <3>. USE DEF batch
    <3>2. \A l \in {"rx", "tx"} :
            /\ Keys(batch, l) = SubSeq(Keys(quinn, l), 1, n)
            /\ Keys(quinn', l) = SubSeq(Keys(quinn, l), n + 1, Len(Keys(quinn, l)))
            /\ Len(Keys(quinn, l)) = Len(quinn)
      <4>1. \A l \in {"rx", "tx"} :
              /\ Keys(SubSeq(quinn, 1, n), l) = SubSeq(Keys(quinn, l), 1, n)
              /\ Keys(SubSeq(quinn, n + 1, Len(quinn)), l)
                   = SubSeq(Keys(quinn, l), n + 1, Len(Keys(quinn, l)))
              /\ Len(Keys(quinn, l)) = Len(quinn)
        BY <1>0, <2>2, KeysOf DEF KeysCut
      <4>. QED  BY <2>1, <4>1
    <3>. QED  BY <2>2, <3>1, <3>2
  <2>. HIDE DEF batch, dead
  <2>5. Lanes /\ Flows(overflowed.rx, Keys(quinn, "rx"), arrived.rx, rx_seen, msg, <<>>)
        /\ Flows(overflowed.tx, Keys(quinn, "tx"), arrived.tx, tx_seen, sender_in, <<>>)
    BY <2>1 DEF Inbound, Lanes
  <2>6. Flows(overflowed.rx, Keys(quinn', "rx"), arrived.rx, rx_seen, Forward(msg, rx), Held(msg, rx))
    BY <1>0, <2>4, <2>5, FlowsRead
  <2>7. Flows(overflowed.tx, Keys(quinn', "tx"), arrived.tx, tx_seen, Forward(sender_in, tx),
              Held(sender_in, tx))
    BY <1>0, <2>4, <2>5, FlowsRead
  <2>. HIDE DEF rx, tx
  <2>8. owner'.inbound = Held(msg, rx) /\ owner'.inbound_tx = Held(sender_in, tx)
    BY <1>0, <2>1 DEF Owners
  <2>. QED  BY <2>1, <2>6, <2>7, <2>8 DEF Inbound
<1>8. CASE OwnerReadFails
  BY <1>0, <1>8, InboundFrame DEF OwnerReadFails, reading, LanesVars, Owners, channels
<1>9. CASE OwnerForwardsTx
  <2>1. /\ sender_in' = Append(sender_in, owner.inbound_tx)
        /\ owner'.inbound_tx = <<>> /\ owner'.inbound = owner.inbound /\ owner'.at = owner.at
        /\ UNCHANGED <<quinn, arrived, overflowed, rx_seen, tx_seen, msg>>
    BY <1>0, <1>9 DEF OwnerForwardsTx, Owners
  <2>2. owner.at # "ended" =>
            Flows(overflowed.tx, Keys(quinn, "tx"), arrived.tx, tx_seen, Append(sender_in, owner.inbound_tx), <<>>)
    BY <1>0, FlowsPassed DEF Inbound
  <2>. QED  BY <2>1, <2>2 DEF Inbound
<1>10. CASE OwnerForwardsRx
  <2>1. /\ msg' = Append(msg, owner.inbound)
        /\ owner'.inbound = <<>> /\ owner'.inbound_tx = owner.inbound_tx /\ owner'.at = owner.at
        /\ UNCHANGED <<quinn, arrived, overflowed, rx_seen, tx_seen, sender_in>>
    BY <1>0, <1>10 DEF OwnerForwardsRx, Owners
  <2>2. owner.at # "ended" =>
            Flows(overflowed.rx, Keys(quinn, "rx"), arrived.rx, rx_seen, Append(msg, owner.inbound), <<>>)
    BY <1>0, FlowsPassed DEF Inbound
  <2>. QED  BY <2>1, <2>2 DEF Inbound
<1>11. ASSUME NEW kind \in Messages, OwnerReadsUni(kind)
       PROVE  Inbound'
  BY <1>0, <1>11, InboundFrame DEF OwnerReadsUni, LanesVars, Owners, channels
<1>12. CASE OwnerForwardsUni
  <2>1. /\ owner'.inbound = owner.inbound /\ owner'.inbound_tx = owner.inbound_tx
        /\ owner'.at = owner.at /\ UNCHANGED LanesVars
    BY <1>0, <1>12 DEF OwnerForwardsUni, LanesVars, Owners
  <2>. QED  BY <2>1, InboundFrame
<1>13. CASE OwnerOpensStream \/ OwnerStreamDone
  <2>1. /\ owner'.inbound = owner.inbound /\ owner'.inbound_tx = owner.inbound_tx
        /\ owner'.at = owner.at /\ UNCHANGED LanesVars
    BY <1>0, <1>13 DEF OwnerOpensStream, OwnerStreamDone, LanesVars, Owners, channels
  <2>. QED  BY <2>1, InboundFrame
<1>14. CASE SenderInput
  <2>1. /\ tx_seen' = tx_seen \o FlattenSeq(sender_in) /\ sender_in' = <<>>
        /\ UNCHANGED <<owner, quinn, arrived, overflowed, rx_seen, msg>>
    BY <1>14 DEF SenderInput
  <2>2. owner.at # "ended" =>
            Flows(overflowed.tx, Keys(quinn, "tx"), arrived.tx, tx_seen \o FlattenSeq(sender_in), <<>>,
                  owner.inbound_tx)
    BY <1>0, FlowsPassed DEF Inbound
  <2>. QED  BY <2>1, <2>2 DEF Inbound
<1>15. CASE \/ \E lane \in {"data", "ctrl"} : SenderStages(lane)
            \/ SenderFlushes \/ SenderSends \/ \E live \in BOOLEAN : SenderCommands(live)
  BY <1>15, InboundFrame, Zenon DEF SenderStages, SenderFlushes, SenderSends, SenderCommands, LanesVars,
                             channels
<1>16. ASSUME NEW nudge \in BOOLEAN, ReceiverTakes(nudge)
       PROVE  Inbound'
  <2>1. /\ msg # <<>> /\ rx_seen' = rx_seen \o Head(msg) /\ msg' = Tail(msg)
        /\ UNCHANGED <<owner, quinn, arrived, overflowed, tx_seen, sender_in>>
    BY <1>16 DEF ReceiverTakes
  <2>2. owner.at # "ended" =>
            Flows(overflowed.rx, Keys(quinn, "rx"), arrived.rx, rx_seen \o Head(msg), Tail(msg), owner.inbound)
    BY <1>0, <2>1, FlowsPassed DEF Inbound
  <2>. QED  BY <2>1, <2>2 DEF Inbound
<1>17. CASE FastPath
  <2>1. /\ sender_in' = sender_in \/ sender_in' = Try(sender_in, <<0>>)
        /\ msg' = msg \/ msg' = Try(msg, <<0>>)
        /\ UNCHANGED <<owner, quinn, arrived, overflowed, rx_seen, tx_seen>>
    BY <1>17 DEF FastPath
  <2>2. owner.at # "ended" =>
            /\ Flows(overflowed.rx, Keys(quinn, "rx"), arrived.rx, rx_seen, Try(msg, <<0>>), owner.inbound)
            /\ Flows(overflowed.tx, Keys(quinn, "tx"), arrived.tx, tx_seen, Try(sender_in, <<0>>),
                     owner.inbound_tx)
    BY <1>0, FlowsPassed DEF Inbound
  <2>. QED  BY <2>1, <2>2 DEF Inbound
<1>18. CASE ReceiverSends \/ ReportStep \/ PathCmdStep
  <2>1. owner' = owner /\ UNCHANGED LanesVars
    BY <1>18 DEF ReceiverSends, ReportStep, Tick, TickSends, ReportSends, ReportTimesOut,
                 PathCmdStep, AddConnects, AddAsks, AddStarts, RemovePath, RemoveTells,
                 CloseForwards, LanesVars, channels
  <2>. QED  BY <2>1, InboundFrame
<1>. QED  BY <1>1, <1>2, <1>3, <1>4, <1>5, <1>6, <1>7, <1>8, <1>9, <1>10, <1>11, <1>12, <1>13,
             <1>14, <1>15, <1>16, <1>17, <1>18
          DEF TaskNext, Environment, OwnerArm, SenderStep, ReceiverStep, Messages

-----------------------------------------------------------------------------
(* The invariant holds at the start.                                       *)
LEMMA TasksStart ==
    ASSUME TaskInit
    PROVE  TasksInv
<1>1. TasksTyped
  <2>1. <<>> \in Seq(Nat) /\ {} \in SUBSET Nat /\ {} \in SUBSET Messages
    OBVIOUS
  <2>2. owner \in Owners
    BY <2>1 DEF TaskInit, Unconnected, Owners
  <2>3. sender \in Senders
    <3>1. <<>> \in Seq(Items)
      OBVIOUS
    <3>. QED  BY <3>1 DEF TaskInit, Senders
  <2>4. /\ report \in Reports /\ arrived \in [rx : Nat, tx : Nat, uni : Nat]
        /\ overflowed \in [rx : SUBSET Nat, tx : SUBSET Nat]
    BY DEF TaskInit, Reports
  <2>5. \A T : <<>> \in Seq(T)
    OBVIOUS
  <2>6. /\ quinn = <<>> /\ wire = <<>> /\ io = <<>> /\ msg = <<>> /\ sender_in = <<>>
        /\ cmds = <<>> /\ ctrl = <<>> /\ tx_seen = <<>> /\ rx_seen = <<>>
        /\ known = FALSE /\ staged = 0
    BY DEF TaskInit
  <2>. QED  BY <2>2, <2>3, <2>4, <2>5, <2>6 DEF TasksTyped
<1>2. /\ io = <<>> /\ cmds = <<>> /\ wire = <<>> /\ msg = <<>> /\ sender_in = <<>>
      /\ ctrl = <<>> /\ quinn = <<>> /\ rx_seen = <<>> /\ tx_seen = <<>>
      /\ owner.at = "unconnected" /\ ~owner.readers /\ owner.inbound = <<>>
      /\ owner.inbound_tx = <<>> /\ owner.ctrl_pending = {}
      /\ sender.data = <<>> /\ sender.ctrl = <<>> /\ arrived.rx = 0 /\ arrived.tx = 0
      /\ overflowed.rx = {} /\ overflowed.tx = {}
      /\ path_cmd = "connect" /\ ~close_fwd
  BY DEF TaskInit, Unconnected
<1>3. Phases /\ Quiet
  BY <1>2 DEF Phases, Quiet
<1>4. Pipeline
  BY <1>2 DEF Pipeline, Ordered, Ahead, UpTo, SlotBehind
<1>5. Inbound
  <2>1. \A lane : Keys(quinn, lane) = <<>>
    BY <1>2 DEF Keys
  <2>2. Counts({}, <<>>, 0, 0) /\ Sorted(<<>>) /\ Chain({}, <<>>, 0, 0) /\ 0 \in Nat
    BY NothingCounts, ChainEmpty
  <2>3. FlowsBy({}, <<>>, 0, <<>>, <<>>, <<>>, 0, 0, 0)
    BY <2>2 DEF FlowsBy
  <2>4. Flows({}, <<>>, 0, <<>>, <<>>, <<>>)
    BY <2>2, <2>3 DEF Flows
  <2>. QED  BY <1>2, <2>1, <2>4 DEF Inbound
<1>. QED  BY <1>1, <1>3, <1>4, <1>5 DEF TasksInv

(* Every step keeps the invariant.                                         *)
LEMMA TasksKept ==
    ASSUME TasksInv, TaskNext
    PROVE  TasksInv'
<1>. USE DEF TasksInv
<1>1. TasksTyped'
  BY EnvironmentTyped, OwnerTyped, SenderTyped, OthersTyped DEF TaskNext
<1>2. Phases'
  BY OwnerPhases, SenderPhases, OthersPhases, PathCmdPhases DEF TaskNext
<1>3. Quiet'
  BY OwnerQuiet, OthersQuiet DEF TaskNext
<1>4. Pipeline'
  BY PipelineKept
<1>5. Inbound'
  BY InboundKept
<1>. QED  BY <1>1, <1>2, <1>3, <1>4, <1>5

(* So does a step that changes nothing.                                    *)
LEMMA TasksStuttering ==
    ASSUME TasksInv, UNCHANGED taskVars
    PROVE  TasksInv'
<1>. USE DEF taskVars, connVars, channels, cmdVars, senderVars, receiverVars, reportVars
<1>1. TasksTyped'
  BY DEF TasksInv, TasksTyped
<1>2. Phases'
  BY DEF TasksInv, Phases, Leaving
<1>3. Quiet'
  BY DEF TasksInv, Quiet, Unstarted
<1>4. Pipeline'
  BY DEF TasksInv, Pipeline, SlotBehind
<1>5. Inbound'
  BY DEF TasksInv, Inbound
<1>. QED  BY <1>1, <1>2, <1>3, <1>4, <1>5 DEF TasksInv

(***************************************************************************)
(* The tasks of a path keep it: the readers start only when the sender     *)
(* knows the path and nothing of it is on its way before, the datagrams    *)
(* between the slot and the wire are in order, and each lane counts from   *)
(* its consumer back to quinn's buffer without a gap but what that buffer  *)
(* dropped.                                                                *)
(***************************************************************************)
THEOREM TasksInvariance == TaskSpec => []TasksInv
<1>1. TaskInit => TasksInv
  BY TasksStart
<1>2. TasksInv /\ [TaskNext]_taskVars => TasksInv'
  BY TasksKept, TasksStuttering
<1>. QED  BY <1>1, <1>2, PTL DEF TaskSpec

(***************************************************************************)
(* KnownFirst: no ack and nothing of the fast path reaches the sender from *)
(* a path its scheduler does not know yet.                                 *)
(***************************************************************************)
THEOREM PathKnownFirst == TaskSpec => []KnownFirst
<1>1. TasksInv => KnownFirst
  BY DEF TasksInv, Quiet, Phases, Unstarted, KnownFirst
<1>. QED  BY <1>1, TasksInvariance, PTL

(***************************************************************************)
(* ControlAfterData: what TxBatch staged goes to the wire in the order it  *)
(* was staged, but that control may wait for data staged after it.         *)
(***************************************************************************)
THEOREM ControlFollowsData == TaskSpec => []ControlAfterData
<1>1. ASSUME TasksInv
      PROVE  ControlAfterData
  <2>1. wire \in Seq(Items) /\ \A i, k \in 1 .. Len(wire) : i < k => Goes(wire[i], wire[k])
    BY <1>1 DEF TasksInv, TasksTyped, Pipeline, Ordered
  <2>2. DOMAIN wire = 1 .. Len(wire) /\ \A i \in 1 .. Len(wire) : wire[i][2] \in Nat
    BY <2>1 DEF Items
  <2> SUFFICES ASSUME NEW i \in 1 .. Len(wire), NEW k \in 1 .. Len(wire), i < k,
                      wire[i][2] > wire[k][2]
               PROVE  wire[i][1] = "data" /\ wire[k][1] = "ctrl"
    BY <2>2 DEF ControlAfterData
  <2>3. Goes(wire[i], wire[k])
    BY <2>1
  <2>4. ~ (wire[i][2] <= wire[k][2])
    BY <2>2
  <2>. QED  BY <2>3, <2>4 DEF Goes
<1>. QED  BY <1>1, TasksInvariance, PTL

(* A lane that flows is handed on once and in order.                       *)
LEMMA FlowsOnce ==
    ASSUME TasksTyped, NEW lane \in {"rx", "tx"}, NEW seen \in Seq(Nat),
           NEW channel \in Seq(Seq(Nat)), NEW held \in Seq(Nat),
           Flows(overflowed[lane], Keys(quinn, lane), arrived[lane], seen, channel, held)
    PROVE  InOrderFrom(lane, seen, channel, held)
<1> DEFINE L == overflowed[lane]
           keys == Keys(quinn, lane)
           top == arrived[lane]
           flat == FlattenSeq(channel)
           both == seen \o flat
           old == Own(both)
           left == Own(keys)
           first == old \o held
           got == first \o left
<1>1. top \in Nat /\ keys \in Seq(Nat) /\ Lane(quinn, lane) = left /\ 0 \in Nat
  BY KeysOf DEF TasksTyped
<1>2. PICK a, b, c \in Nat : FlowsBy(L, keys, top, seen, channel, held, a, b, c)
  BY DEF Flows
<1>3. /\ Counts(L, seen, 0, a) /\ Chain(L, channel, a, b)
      /\ Counts(L, held, b, c) /\ Sorted(held) /\ Counts(L, keys, c, top)
  BY <1>2 DEF FlowsBy
<1>. HIDE DEF L, keys, top
<1>4. flat \in Seq(Nat) /\ Counts(L, flat, a, b)
  BY <1>3, ChainCounts
<1>. HIDE DEF flat
<1>5. both \in Seq(Nat) /\ Counts(L, both, 0, b)
  BY <1>1, <1>3, <1>4, CountsJoined
<1>. HIDE DEF both
<1>6. old \in Seq(Nat) /\ Counts(L, old, 0, b) /\ Sorted(old)
  BY <1>1, <1>5, CountsOwn
<1>7. left \in Seq(Nat) /\ Counts(L, left, c, top) /\ Sorted(left)
  BY <1>1, <1>3, CountsOwn
<1>. HIDE DEF old, left
<1>8. first \in Seq(Nat) /\ Counts(L, first, 0, c) /\ Sorted(first)
  BY <1>1, <1>3, <1>6, CountsJoined
<1>. HIDE DEF first
<1>9. got \in Seq(Nat) /\ Counts(L, got, 0, top) /\ Sorted(got)
  BY <1>1, <1>7, <1>8, CountsJoined
<1>. HIDE DEF got
<1>10. /\ \A i, k \in DOMAIN got : i < k => got[i] < got[k]
       /\ ToSet(got) = (1 .. top) \ L
  BY <1>1, <1>9, CountsAll
<1>11. InOrderFrom(lane, seen, channel, held)
         <=> /\ \A i, k \in DOMAIN got : i < k => got[i] < got[k]
             /\ ToSet(got) = (1 .. top) \ L
  BY <1>1 DEF InOrderFrom, got, first, old, both, flat, top, L
<1>. QED  BY <1>10, <1>11

(***************************************************************************)
(* InboundOnce: what arrives on either lane reaches its consumer's channel *)
(* once and in order, whichever channel is full and however the reads      *)
(* pause, and all that never gets there is what quinn's full buffer        *)
(* dropped: what was read is not lost while the owner lives.               *)
(***************************************************************************)
THEOREM InboundHandedOnce == TaskSpec => []InboundOnce
<1>1. ASSUME TasksInv
      PROVE  InboundOnce
  <2> SUFFICES ASSUME owner.at # "ended"
               PROVE  /\ InOrderFrom("rx", rx_seen, msg, owner.inbound)
                      /\ InOrderFrom("tx", tx_seen, sender_in, owner.inbound_tx)
    BY DEF InboundOnce
  <2>1. /\ Flows(overflowed.rx, Keys(quinn, "rx"), arrived.rx, rx_seen, msg, owner.inbound)
        /\ Flows(overflowed.tx, Keys(quinn, "tx"), arrived.tx, tx_seen, sender_in, owner.inbound_tx)
    BY <1>1 DEF TasksInv, Inbound
  <2>2. /\ TasksTyped /\ owner \in Owners /\ msg \in Seq(Seq(Nat)) /\ sender_in \in Seq(Seq(Nat))
        /\ rx_seen \in Seq(Nat) /\ tx_seen \in Seq(Nat)
    BY <1>1 DEF TasksInv, TasksTyped
  <2>3. owner.inbound \in Seq(Nat) /\ owner.inbound_tx \in Seq(Nat)
    BY <2>2, OwnerFields
  <2>. QED  BY <2>1, <2>2, <2>3, FlowsOnce
<1>. QED  BY <1>1, TasksInvariance, PTL
=============================================================================
