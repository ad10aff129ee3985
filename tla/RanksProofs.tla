----------------------------- MODULE RanksProofs -----------------------------
(***************************************************************************)
(* How a tuple that is written out is seen to be below another.            *)
(***************************************************************************)
EXTENDS Ranks, TLAPS

(* The first of 4 numbers that differs is the one that counts.             *)
LEMMA Below4 ==
    ASSUME NEW a1 \in Nat, NEW a2 \in Nat, NEW a3 \in Nat, NEW a4 \in Nat,
           NEW b1 \in Nat, NEW b2 \in Nat, NEW b3 \in Nat, NEW b4 \in Nat,
           \/ a1 < b1
           \/ a1 = b1 /\ a2 < b2
           \/ a1 = b1 /\ a2 = b2 /\ a3 < b3
           \/ a1 = b1 /\ a2 = b2 /\ a3 = b3 /\ a4 < b4
    PROVE  Below(4, <<a1, a2, a3, a4>>,
                    <<b1, b2, b3, b4>>)
<1>1. <<a1, a2, a3, a4>> \in Ranks(4)
  BY DEF Ranks
<1>2. <<b1, b2, b3, b4>> \in Ranks(4)
  BY DEF Ranks
<1>3. QED
  BY <1>1, <1>2 DEF Below
=============================================================================
