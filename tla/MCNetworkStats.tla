--------------------------- MODULE MCNetworkStats ---------------------------
(* The instance of NetworkStats that TLC explores: the commands of           *)
(* MCReputation, and a proposal of each of its two providers.                *)
EXTENDS NetworkStats, MCReputation
CONSTANTS x, y
TwoProposals == {x, y}
Issuers      == [z \in TwoProposals |-> IF z = x THEN target ELSE other]
=============================================================================
