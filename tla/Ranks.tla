-------------------------------- MODULE Ranks --------------------------------
(***************************************************************************)
(* Ranks: what a thing that has to end has left to do, as a tuple of       *)
(* numbers of which an earlier one outweighs all later ones.  A step that  *)
(* lowers the rank may raise what comes after the number it lowers: a      *)
(* replan costs one of a bounded number and starts the pipeline again.     *)
(***************************************************************************)
EXTENDS Naturals

Ranks(n) == [1 .. n -> Nat]

(* The order of the ranks of n numbers.                                    *)
Below(n, a, b) ==
    /\ a \in Ranks(n) /\ b \in Ranks(n)
    /\ \E i \in 1 .. n :
          /\ \A j \in 1 .. i - 1 : a[j] = b[j]
          /\ a[i] < b[i]
=============================================================================
