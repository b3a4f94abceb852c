---------------------------- MODULE MCSmsCampaign --------------------------
EXTENDS SmsCampaign, TLC

CONSTANTS t1, t2, r1, r2

(* Campaign 1 has the rows, campaign 2 none. *)
MCCampaignOf == [r \in Rows |-> 1]
MCUpdates == [row : Rows, status : {"scheduled", "answered"}]
Symmetric == Permutations({r1, r2})
=============================================================================
