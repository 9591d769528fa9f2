---------------------------- MODULE MCReputation ----------------------------
(* The instance of Reputation that TLC explores: two providers, one of which *)
(* is blocked and unblocked while the update runs.                           *)
EXTENDS Reputation
CONSTANTS target, other, block, unblock
TwoProviders == {target, other}
OneBlock     == {block}
OneUnblock   == {unblock}
Targets      == [c \in {block, unblock} |-> target]
Known        == [rate |-> None, uptime |-> 0, until |-> "never"]
OneKnown     == [r \in TwoProviders |-> IF r = other THEN Known ELSE None]
Rate         == [rate |-> 1, uptime |-> 0]
Uptime       == [rate |-> None, uptime |-> 1]
OneReport    == {<<[id |-> other, scores |-> Rate], [id |-> other, scores |-> Empty],
                   [id |-> target, scores |-> Uptime]>>}
=============================================================================
