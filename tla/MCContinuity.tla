---------------------------- MODULE MCContinuity ----------------------------
(***************************************************************************)
(* Instances of Continuity.                                                *)
(***************************************************************************)
EXTENDS Continuity, TLC

CONSTANTS g1, g2, r1

TwoHubs == {g1, g2}
OneHub == {g1}
OneReference == {r1}

HubSymmetry == Permutations(TwoHubs)
=============================================================================
