---------------------------- MODULE ErasureCode ----------------------------
(***************************************************************************)
(* What a window decoder promises.  It knows the space of equations it has *)
(* learned; before it learns the next it hands on, once, every source that *)
(* the equations determine; below the floor it forgets.                    *)
(***************************************************************************)
EXTENDS CodedRows

VARIABLES space, given, floor

vars == <<space, given, floor>>

Determined == {Unit(s) : s \in floor .. N - 1} \cap space

Complete == \A s \in Seqs : Unit(s) \in Determined => given[s] > 0

Init ==
    /\ space = {Zero}
    /\ given = [s \in Seqs |-> 0]
    /\ floor = 0

Extended(known, v) == {mul_acc(u, f, v) : u \in known, f \in Field}

(***************************************************************************)
(* The space grows by one equation, which is one of the new space.         *)
(***************************************************************************)
Learn ==
    /\ Complete
    /\ \E v \in space' \ space : v \in Vec /\ space' = Extended(space, v)
    /\ UNCHANGED <<given, floor>>

Give(s) ==
    /\ Unit(s) \in Determined
    /\ given[s] = 0
    /\ given' = [given EXCEPT ![s] = 1]
    /\ UNCHANGED <<space, floor>>

(***************************************************************************)
(* An equation stays if it says nothing of the sources below the floor.    *)
(***************************************************************************)
Forget(f) ==
    /\ Complete
    /\ floor <= f
    /\ floor' = f
    /\ space' = {v \in space : \A s \in Seqs : s < f => v[s] = Nought}
    /\ UNCHANGED given

Next ==
    \/ Learn
    \/ \E s \in Seqs : Give(s)
    \/ \E f \in 0 .. N : Forget(f)

Spec == Init /\ [][Next]_vars
=============================================================================
