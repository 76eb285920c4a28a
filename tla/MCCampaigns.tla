---------------------------- MODULE MCCampaigns ----------------------------
(* Campaigns on small sets of model values.                                 *)
EXTENDS Campaigns, TLC

CONSTANTS m1, m2, w1, w2, u1, u2, d1

MCSymmetry == Permutations(Admins) \cup Permutations(Workers)
=============================================================================
