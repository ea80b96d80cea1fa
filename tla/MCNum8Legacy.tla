---------------------------- MODULE MCNum8Legacy ----------------------------
(* Small instances of Num8Legacy. *)
EXTENDS Num8Legacy, TLC

CONSTANTS r1, r2

TwoReceivers == {r1, r2}
OneReceiver == {r1}

\* Two numbers: {0} becomes {1} and {1} becomes {0, 1}
MCFirstNumbers == {0}

FirstUpdate ==
  [update_id |-> 1, from |-> 1, to |-> 2, removes |-> <<0>>, adds |-> <<1>>]
SecondUpdate ==
  [update_id |-> 2, from |-> 2, to |-> 3, removes |-> <<>>, adds |-> <<0>>]

TwoUpdates == <<FirstUpdate, SecondUpdate>>
OneUpdate == <<FirstUpdate>>

\* What the theorems about the numbers and the duplicates suppose
ASSUME UpdatesFollowEachOther == Chained /\ Identified

Symmetric == Permutations(ReceiverIds)
=============================================================================
