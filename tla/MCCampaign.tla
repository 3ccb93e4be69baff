----------------------------- MODULE MCCampaign -----------------------------
(* Campaign for TLC.                                                       *)
EXTENDS Campaign, TLC
=============================================================================
