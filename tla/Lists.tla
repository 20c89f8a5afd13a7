------------------------------- MODULE Lists -------------------------------
(***************************************************************************)
(* The unordered lists the code takes from by swap and pop: the ones the    *)
(* contracts keep beside a mapping so that a client can page through its   *)
(* keys (Inventory._seen, Marketplace._tokensFor), and the scheduler's     *)
(* list of sleeping threads.                                               *)
(***************************************************************************)
EXTENDS Naturals, SequencesExt

\* Mutant of SwapRemove: the last entry goes, whichever was asked for.
PopOnly(list, n) == [m \in 1..(Len(list) - 1) |-> list[m]]

(***************************************************************************)
(* One goes, and the last takes its place: arr[i] = arr[last]; pop().       *)
(***************************************************************************)
SwapRemove(list, n) ==
    [m \in 1..(Len(list) - 1) |-> IF m = n THEN list[Len(list)] ELSE list[m]]

(***************************************************************************)
(* The entries that are in `set', in their order: what is left of a list    *)
(* when the others are erased from it.  (SequencesExt's SelectSeq is this,  *)
(* but nothing can be proved about it: the prover does not know what it is.)*)
(***************************************************************************)
Within(list, set) ==
    LET left[n \in 0..Len(list)] ==
            IF n = 0 THEN <<>>
            ELSE IF list[n] \in set THEN Append(left[n - 1], list[n]) ELSE left[n - 1]
    IN  left[Len(list)]

Without(list, set) == Within(list, ToSet(list) \ set)

(***************************************************************************)
(* What such a list promises: each key of the mapping once.                *)
(***************************************************************************)
Enumerates(list, keys) == ToSet(list) = keys /\ IsInjective(list)
=============================================================================
