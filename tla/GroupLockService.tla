-------------------------- MODULE GroupLockService --------------------------
(***************************************************************************)
(* What the scale view locks promise, without caches, versions or          *)
(* controllers: node groups have at most one owner; an owner takes all of  *)
(* its groups in one step, never a taken one, and loses them only after it *)
(* has been deleted (or with the RisingWave object itself).                *)
(*                                                                         *)
(* An owner is one incarnation of a scale view, <<name, uid>>.  It may     *)
(* acquire after its deletion, because the controller that acquires for it *)
(* learns of the deletion late.                                            *)
(***************************************************************************)
EXTENDS Integers

CONSTANTS Views, Groups

VARIABLES
    live,   \* uid of the existing incarnation of a view, 0 if there is none
    owner   \* the owner of every group

vars == <<live, owner>>

None == <<"none", 0>>

Alive(o) == o # None /\ live[o[1]] = o[2]

Init ==
    /\ live = [v \in Views |-> 0]
    /\ owner = [g \in Groups |-> None]

\* a new incarnation inherits no group
Create(v) ==
    /\ live[v] = 0
    /\ live'[v] \in Nat \ {0}
    /\ live' = [live EXCEPT ![v] = live'[v]]
    /\ \A g \in Groups : owner[g] # <<v, live'[v]>>
    /\ UNCHANGED owner

Delete(v) ==
    /\ live[v] # 0
    /\ live' = [live EXCEPT ![v] = 0]
    /\ UNCHANGED owner

\* a view that owns nothing, under any incarnation, takes free groups
Acquire(v, taken) ==
    /\ taken # {}
    /\ \A g \in taken : owner[g] = None
    /\ \A g \in Groups : owner[g] # None => owner[g][1] # v
    /\ \E uid \in {owner'[g][2] : g \in taken} :
          owner' = [g \in Groups |-> IF g \in taken THEN <<v, uid>> ELSE owner[g]]
    /\ UNCHANGED live

\* dead owners lose all their groups
Release(freed) ==
    /\ freed # {}
    /\ \A g \in freed : owner[g] # None /\ ~Alive(owner[g])
    /\ \A g \in freed, h \in Groups : owner[h] = owner[g] => h \in freed
    /\ owner' = [g \in Groups |-> IF g \in freed THEN None ELSE owner[g]]
    /\ UNCHANGED live

\* the RisingWave object is deleted
Forget ==
    /\ owner' = [g \in Groups |-> None]
    /\ UNCHANGED live

Next ==
    \/ \E v \in Views : Create(v) \/ Delete(v)
    \/ \E v \in Views, taken \in SUBSET Groups : Acquire(v, taken)
    \/ \E freed \in SUBSET Groups : Release(freed)
    \/ Forget

Spec == Init /\ [][Next]_vars
=============================================================================
