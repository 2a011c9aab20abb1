---------------------------- MODULE MCScheduler ----------------------------
(* Model-checking values for Scheduler.                                    *)
EXTENDS Scheduler

CONSTANTS a1, a2, s1

Always == [every |-> 0, offset |-> 0]
Even   == [every |-> 2, offset |-> 2]
Odd    == [every |-> 2, offset |-> 1]

OneAsync == {a1, a2}

(* One call: two async groups around a synchronized one of two systems.    *)
OneGroups == {a1, s1, a2}
OneOrder  == <<a1, s1, a2>>
OneInterval == [g \in OneGroups |-> IF g = a2 THEN Even ELSE Always]
OneRunEvery == [g \in OneGroups |-> IF g = s1 THEN <<Always, Always>>
                                                ELSE <<Always>>]

(* Several calls: an async group, and a synchronized one that runs only    *)
(* every other tick.                                                       *)
TwoGroups == {a1, s1}
TwoAsync  == {a1}
TwoOrder  == <<a1, s1>>
TwoInterval == [g \in TwoGroups |-> IF g = s1 THEN Odd ELSE Always]
TwoRunEvery == [g \in TwoGroups |-> IF g = a1 THEN <<Always, Odd>> ELSE <<Always>>]

Workers012 == {0, 1, 2}
Workers01  == {0, 1}
=============================================================================
