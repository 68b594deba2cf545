-------------------------- MODULE MCThreadTurns --------------------------
EXTENDS ThreadTurns

CONSTANTS m1, m2, m3, ann, bob

MCMessages == {m1, m2, m3}
MCOne == {m1}
MCTwo == {m1, m2}
MCTwoSender == (m1 :> ann) @@ (m2 :> bob)
MCUsers    == {ann, bob}
MCSender   == (m1 :> ann) @@ (m2 :> bob) @@ (m3 :> ann)
============================================================================
