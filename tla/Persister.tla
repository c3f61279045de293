----------------------------- MODULE Persister -----------------------------
(***************************************************************************)
(* What a message persister promises its session (include/fix8/persist.hpp, *)
(* class Persister): a message put under a sequence number stays there and *)
(* is what a query hands back; a number that is taken refuses another      *)
(* message; the control record is the last one put.  Only a purge forgets. *)
(***************************************************************************)
EXTENDS Naturals

CONSTANTS
    SeqNums,  \* sequence numbers messages may be put under
    Texts,    \* message strings
    None      \* nothing stored, nothing retrieved

VARIABLES
    store,    \* store[q]: the message put under q
    ctrl,     \* control record: next send and next receive sequence number
    got       \* <<q, text>> handed to the last callback

vars == <<store, ctrl, got>>

Empty == [q \in SeqNums |-> None]

Init == store = Empty /\ ctrl = None /\ got = None

Put(q, t) ==
    /\ store[q] = None
    /\ store' = [store EXCEPT ![q] = t]
    /\ UNCHANGED <<ctrl, got>>

PutControl ==
    /\ ctrl' \in Nat \X Nat
    /\ UNCHANGED <<store, got>>

Get(q) ==
    /\ store[q] # None
    /\ got' = <<q, store[q]>>
    /\ UNCHANGED <<store, ctrl>>

Purge == store' = Empty /\ ctrl' = None /\ got' = None

Next ==
    \/ \E q \in SeqNums, t \in Texts : Put(q, t)
    \/ \E q \in SeqNums : Get(q)
    \/ PutControl
    \/ Purge

Spec == Init /\ [][Next]_vars

=============================================================================
