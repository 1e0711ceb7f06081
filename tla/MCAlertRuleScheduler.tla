------------------------ MODULE MCAlertRuleScheduler ------------------------
(* AlertRuleScheduler on small instances.  Definition 1 and 2 are alerting   *)
(* rules with different intervals, 3 is what the run at hand is about: a     *)
(* paused rule, a recording rule or one with an invalid interval.            *)
EXTENDS AlertRuleScheduler

EveryOtherTick == [f \in Fingerprints |-> IF f = 2 THEN 2 ELSE 1]
JitteredSecond == [f \in Fingerprints |-> IF f = 2 THEN 1 ELSE 0]
=============================================================================
