----------------------------- MODULE MCPayment ------------------------------
EXTENDS Payment

CONSTANTS a, b, payhere, koko

Traits ==
  [g \in Gateways |-> IF g = payhere THEN {"notify", "verify", "shareId"}
                      ELSE {"notify", "replay", "verify", "askAll", "return"}]

Crashing == [overlap |-> FALSE, crash |-> TRUE]
Overlapping == [overlap |-> TRUE, crash |-> FALSE]

Mixed == {Crashing, Overlapping}

=============================================================================
