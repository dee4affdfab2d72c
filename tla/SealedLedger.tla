---------------------------- MODULE SealedLedger ----------------------------
(***************************************************************************)
(* What sealing promises, whichever processes seal and whenever they are   *)
(* killed, as long as each append to seals.jsonl is whole: the set of      *)
(* signed heads only grows; a new head extends one that is present (or the *)
(* genesis head) by a non-empty set of events that were recorded and that  *)
(* the extended chain has not sealed yet.  A head is the sequence of the   *)
(* sets of events its seals folded in.                                     *)
(***************************************************************************)
EXTENDS Naturals, Sequences

CONSTANT Event

VARIABLES
    recorded,   \* events whose line is whole in a session file
    heads       \* the heads of the seals in seals.jsonl

vars == <<recorded, heads>>

Folded(head) == UNION {head[i] : i \in DOMAIN head}

Init ==
    /\ recorded = {}
    /\ heads = {}

Record ==
    /\ \E e \in Event \ recorded : recorded' = recorded \cup {e}
    /\ UNCHANGED heads

Extend ==
    /\ \E head \in heads \cup {<<>>} :
       \E S \in (SUBSET (recorded \ Folded(head))) \ {{}} :
           heads' = heads \cup {Append(head, S)}
    /\ UNCHANGED recorded

Next == Record \/ Extend

Spec == Init /\ [][Next]_vars
=============================================================================
