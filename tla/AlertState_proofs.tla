-------------------------- MODULE AlertState_proofs --------------------------
(***************************************************************************)
(* For any rules, intervals and resend delays: the instance of an alert    *)
(* keeps its type, does not fire before For and is not resolved before     *)
(* KeepFiringFor.  Neither is inductive by itself: an instance that is     *)
(* Pending has been breached since before it became Pending, and one that  *)
(* is Recovering has been quiet since before it did, in the cache and in   *)
(* what a restart would bring back.                                        *)
(***************************************************************************)
EXTENDS AlertState, TLAPS

\* The history of an instance fits its state.
Grounded(s) ==
    /\ s.state = "Pending" => s.breachedSince # NoTime /\ s.breachedSince <= s.startsAt
    /\ s.state = "Recovering" => s.quietSince # NoTime /\ s.quietSince <= s.startsAt

\* Nothing in an instance is later than the present.
UpTo(t) ==
    [state : EvalStates, startsAt : 0..t, endsAt : 0..t + 4 * Cycle,
     resolvedAt : 0..t, lastSentAt : 0..t, evaluatedAt : 0..t,
     breachedSince : 0..t, quietSince : 0..t]

InstanceOK(s, t) == s = NoInstance \/ (s \in UpTo(t) /\ Grounded(s))

IInv ==
    /\ rule \in Rules
    /\ now \in 1..MaxTime
    /\ pc \in {"idle", "saving", "sending", "down"}
    /\ InstanceOK(cache, now)
    /\ InstanceOK(db, now)
    /\ message \in [name : Names, endsAt : 0..Latest] \cup {NoMessage}
    /\ am \in [Names -> 0..Latest]
    /\ started \in 0..now
    /\ finished \in 0..now
    /\ behind \in BOOLEAN
    /\ lost \in {"none", "message", "state"}
    /\ faults \in 0..MaxFaults

LEMMA CycleFact == Cycle \in Nat \ {0}
BY AlertAssumption DEF Cycle

LEMMA RuleFacts ==
    ASSUME rule \in Rules
    PROVE  /\ rule.for \in Nat /\ rule.keepFiringFor \in Nat /\ rule.missingEvals \in Nat \ {0}
           /\ rule.execErrState \in {"Alerting", "Error", "OK", "KeepLast"}
           /\ rule.noDataState \in {"Alerting", "NoData", "OK", "KeepLast"}
BY AlertAssumption

LEMMA UpToFields ==
    ASSUME NEW t \in Nat, NEW s \in UpTo(t)
    PROVE  /\ s.state \in EvalStates /\ s.startsAt \in 0..t /\ s.endsAt \in 0..t + 4 * Cycle
           /\ s.resolvedAt \in 0..t /\ s.lastSentAt \in 0..t /\ s.evaluatedAt \in 0..t
           /\ s.breachedSince \in 0..t /\ s.quietSince \in 0..t
BY DEF UpTo

\* Time passes: what was in the past stays there.
LEMMA UpToLater ==
    ASSUME NEW t \in Nat, NEW u \in Nat, t <= u, NEW s, InstanceOK(s, t)
    PROVE  InstanceOK(s, u)
<1>1. CASE s = NoInstance
  BY <1>1 DEF InstanceOK
<1>2. CASE s \in UpTo(t) /\ Grounded(s)
  <2>1. s \in UpTo(u)
    BY <1>2, CycleFact DEF UpTo
  <2>2. QED
    BY <2>1, <1>2 DEF InstanceOK
<1>3. QED
  BY <1>1, <1>2 DEF InstanceOK

-----------------------------------------------------------------------------
(* Transitions *)

\* Each field of a set record is within its type.
LEMMA EnterType ==
    ASSUME NEW t \in Nat, NEW s \in UpTo(t), NEW state \in EvalStates,
           NEW endsAt \in 0..t + 4 * Cycle
    PROVE  /\ Enter(s, state, t, endsAt) \in UpTo(t)
           /\ Enter(s, state, t, endsAt).state = state
           /\ Enter(s, state, t, endsAt).startsAt = t
           /\ Enter(s, state, t, endsAt).breachedSince = s.breachedSince
           /\ Enter(s, state, t, endsAt).quietSince = s.quietSince
           /\ Enter(s, state, t, endsAt).resolvedAt = s.resolvedAt
<1> DEFINE a == [s EXCEPT !.state = state]
           b == [a EXCEPT !.startsAt = t]
           c == [b EXCEPT !.endsAt = endsAt]
<1>1. Enter(s, state, t, endsAt) = c
  BY DEF Enter
<1>2. /\ a \in UpTo(t) /\ a.state = state
      /\ a.breachedSince = s.breachedSince /\ a.quietSince = s.quietSince
      /\ a.resolvedAt = s.resolvedAt
  BY DEF UpTo
<1> HIDE DEF a
<1>3. /\ b \in UpTo(t) /\ b.state = state /\ b.startsAt = t
      /\ b.breachedSince = s.breachedSince /\ b.quietSince = s.quietSince
      /\ b.resolvedAt = s.resolvedAt
  BY <1>2 DEF UpTo
<1> HIDE DEF b
<1>4. /\ c \in UpTo(t) /\ c.state = state /\ c.startsAt = t
      /\ c.breachedSince = s.breachedSince /\ c.quietSince = s.quietSince
      /\ c.resolvedAt = s.resolvedAt
  BY <1>3 DEF UpTo
<1>5. QED
  BY <1>1, <1>4

LEMMA MaintainType ==
    ASSUME NEW t \in Nat, NEW s \in UpTo(t)
    PROVE  /\ Maintain(s, t) \in UpTo(t)
           /\ Maintain(s, t).state = s.state
           /\ Maintain(s, t).startsAt = s.startsAt
           /\ Maintain(s, t).breachedSince = s.breachedSince
           /\ Maintain(s, t).quietSince = s.quietSince
           /\ Maintain(s, t).resolvedAt = s.resolvedAt
BY CycleFact DEF UpTo, Maintain, EndsTime

\* How a state may come to fire, or to be resolved, at t.
FiredInTime(old, new, t) ==
    new.state = "Alerting" /\ old.state \notin {"Alerting", "Recovering"} =>
        new.breachedSince # NoTime /\ t - new.breachedSince >= rule.for

ResolvedInTime(old, new, t) ==
    new.state = "Normal" /\ old.state \in {"Alerting", "Recovering"} =>
        new.quietSince # NoTime /\ t - new.quietSince >= rule.keepFiringFor

LEMMA ObservedOK ==
    ASSUME NEW t \in Nat \ {0}, NEW s \in UpTo(t), NEW m,
           NEW o, o = Observed(s, t, m)
    PROVE  /\ o \in UpTo(t)
           /\ o.state = s.state /\ o.startsAt = s.startsAt
           /\ m = "Alerting" => o.breachedSince = IF s.breachedSince = NoTime THEN t ELSE s.breachedSince
           /\ m = "OK" => o.quietSince = IF s.quietSince = NoTime THEN t ELSE s.quietSince
           /\ m = "KeepLast" => o = s
<1> DEFINE since(time) == IF time = NoTime THEN t ELSE time
           a == [s EXCEPT !.breachedSince = since(@)]
           b == [s EXCEPT !.quietSince = since(@)]
           c == [s EXCEPT !.breachedSince = NoTime]
<1>1. /\ a \in UpTo(t) /\ a.state = s.state /\ a.startsAt = s.startsAt
      /\ a.breachedSince = since(s.breachedSince)
  BY DEF UpTo, NoTime
<1>2. /\ b \in UpTo(t) /\ b.state = s.state /\ b.startsAt = s.startsAt
      /\ b.quietSince = since(s.quietSince)
  BY DEF UpTo, NoTime
<1>3. c \in UpTo(t) /\ c.state = s.state /\ c.startsAt = s.startsAt
  BY DEF UpTo, NoTime
<1>4. o = IF m = "Alerting" THEN [a EXCEPT !.quietSince = NoTime]
          ELSE IF m = "OK" THEN [b EXCEPT !.breachedSince = NoTime]
          ELSE IF m = "KeepLast" THEN s ELSE [c EXCEPT !.quietSince = NoTime]
  BY DEF Observed
<1> HIDE DEF a, b, c
<1>5. CASE m = "Alerting"
  BY <1>1, <1>4, <1>5 DEF UpTo, NoTime
<1>6. CASE m = "OK"
  BY <1>2, <1>4, <1>6 DEF UpTo, NoTime
<1>7. CASE m = "KeepLast"
  BY <1>4, <1>7
<1>8. CASE m \notin {"Alerting", "OK", "KeepLast"}
  <2>1. o = [c EXCEPT !.quietSince = NoTime]
    BY <1>4, <1>8
  <2>2. o \in UpTo(t) /\ o.state = s.state /\ o.startsAt = s.startsAt
    BY <2>1, <1>3 DEF UpTo, NoTime
  <2>3. QED
    BY <2>2, <1>8
<1>9. QED
  BY <1>5, <1>6, <1>7, <1>8

LEMMA ResultNormalOK ==
    ASSUME rule \in Rules, NEW t \in Nat \ {0}, NEW s \in UpTo(t),
           s.state = "Recovering" => s.quietSince # NoTime /\ s.quietSince <= s.startsAt,
           s.state = "Alerting" => s.quietSince # NoTime
    PROVE  /\ ResultNormal(s, t) \in UpTo(t) /\ Grounded(ResultNormal(s, t))
           /\ ResultNormal(s, t).state \in {"Normal", "Recovering"}
           /\ ResolvedInTime(s, ResultNormal(s, t), t)
<1> DEFINE r == ResultNormal(s, t)
<1>1. rule.keepFiringFor \in Nat /\ t + 4 * Cycle \in 0..t + 4 * Cycle /\ t \in 0..t + 4 * Cycle
  BY RuleFacts, CycleFact
<1>2. s.quietSince \in 0..t /\ s.startsAt \in 0..t
  BY UpToFields
<1>3. CASE s.state = "Normal"
  BY <1>3 DEF ResultNormal, Grounded, ResolvedInTime
<1>4. CASE s.state = "Recovering" /\ t - s.startsAt < rule.keepFiringFor
  <2>1. r = Maintain(s, t)
    BY <1>4 DEF ResultNormal
  <2>2. QED
    BY <2>1, <1>4, MaintainType DEF Grounded, ResolvedInTime
<1>5. CASE s.state = "Alerting" /\ rule.keepFiringFor > 0
  <2>1. r = Enter(s, "Recovering", t, t + 4 * Cycle)
    BY <1>5 DEF ResultNormal, EndsTime
  <2>2. "Recovering" \in EvalStates
    BY DEF EvalStates
  <2>3. /\ r \in UpTo(t) /\ r.state = "Recovering" /\ r.startsAt = t
        /\ r.quietSince = s.quietSince
    BY <2>1, <2>2, <1>1, EnterType
  <2>4. QED
    BY <2>3, <1>2, <1>5 DEF Grounded, ResolvedInTime
<1>6. CASE /\ s.state # "Normal"
           /\ ~(s.state = "Recovering" /\ t - s.startsAt < rule.keepFiringFor)
           /\ ~(s.state = "Alerting" /\ rule.keepFiringFor > 0)
  <2>1. r = Enter(s, "Normal", t, t)
    BY <1>6 DEF ResultNormal
  <2>2. "Normal" \in EvalStates
    BY DEF EvalStates
  <2>3. /\ r \in UpTo(t) /\ r.state = "Normal" /\ r.quietSince = s.quietSince
    BY <2>1, <2>2, <1>1, EnterType
  <2>4. s.state \in {"Alerting", "Recovering"} =>
           s.quietSince # NoTime /\ t - s.quietSince >= rule.keepFiringFor
    BY <1>1, <1>2, <1>6
  <2>5. QED
    BY <2>3, <2>4 DEF Grounded, ResolvedInTime
<1>7. QED
  BY <1>3, <1>4, <1>5, <1>6

LEMMA ResultAlertingOK ==
    ASSUME rule \in Rules, NEW t \in Nat \ {0}, NEW s \in UpTo(t),
           s.state = "Pending" => s.breachedSince # NoTime /\ s.breachedSince <= s.startsAt,
           s.state \notin {"Alerting", "Pending", "Recovering"} => s.breachedSince # NoTime
    PROVE  /\ ResultAlerting(s, t) \in UpTo(t) /\ Grounded(ResultAlerting(s, t))
           /\ ResultAlerting(s, t).state \in {"Alerting", "Pending"}
           /\ FiredInTime(s, ResultAlerting(s, t), t)
<1> DEFINE r == ResultAlerting(s, t)
<1>1. rule.for \in Nat /\ t + 4 * Cycle \in 0..t + 4 * Cycle
  BY RuleFacts, CycleFact
<1>2. s.breachedSince \in 0..t /\ s.startsAt \in 0..t
  BY UpToFields
<1>3. CASE s.state = "Alerting"
  <2>1. r = Maintain(s, t)
    BY <1>3 DEF ResultAlerting
  <2>2. QED
    BY <2>1, <1>3, MaintainType DEF Grounded, FiredInTime
<1>4. CASE s.state = "Pending" /\ t - s.startsAt < rule.for
  BY <1>4 DEF ResultAlerting, Grounded, FiredInTime
<1>5. CASE s.state \notin {"Alerting", "Pending", "Recovering"} /\ rule.for > 0
  <2>1. r = Enter(s, "Pending", t, t + 4 * Cycle)
    BY <1>5 DEF ResultAlerting, EndsTime
  <2>2. "Pending" \in EvalStates
    BY DEF EvalStates
  <2>3. /\ r \in UpTo(t) /\ r.state = "Pending" /\ r.startsAt = t
        /\ r.breachedSince = s.breachedSince
    BY <2>1, <2>2, <1>1, EnterType
  <2>4. QED
    BY <2>3, <1>2, <1>5 DEF Grounded, FiredInTime
<1>6. CASE /\ s.state # "Alerting"
           /\ ~(s.state = "Pending" /\ t - s.startsAt < rule.for)
           /\ ~(s.state \notin {"Pending", "Recovering"} /\ rule.for > 0)
  <2>1. r = Enter(s, "Alerting", t, t + 4 * Cycle)
    BY <1>6 DEF ResultAlerting, EndsTime
  <2>2. "Alerting" \in EvalStates
    BY DEF EvalStates
  <2>3. /\ r \in UpTo(t) /\ r.state = "Alerting" /\ r.breachedSince = s.breachedSince
    BY <2>1, <2>2, <1>1, EnterType
  <2>4. s.state # "Recovering" => s.breachedSince # NoTime /\ t - s.breachedSince >= rule.for
    BY <1>1, <1>2, <1>6
  <2>5. QED
    BY <2>3, <2>4 DEF Grounded, FiredInTime
<1>7. QED
  BY <1>3, <1>4, <1>5, <1>6

\* Whatever an evaluation says, transition keeps the history true to the state.
LEMMA TransitionOK ==
    ASSUME rule \in Rules, NEW t \in Nat \ {0}, NEW s \in UpTo(t), Grounded(s),
           NEW result \in Results, NEW new, new = Transition(s, t, result)
    PROVE  new \in UpTo(t) /\ Grounded(new) /\ FiredInTime(s, new, t) /\ ResolvedInTime(s, new, t)
<1> DEFINE m == Mapping(result)
           o == Observed(s, t, m)
           r == ResultMapped(o, t, m)
<1>1. m \in {"Alerting", "OK", "KeepLast", "Error", "NoData"}
  BY RuleFacts DEF Mapping
<1>2. s.breachedSince \in 0..t /\ s.quietSince \in 0..t /\ s.startsAt \in 0..t
      /\ s.state \in EvalStates
  BY UpToFields
<1> HIDE DEF m
<1>3. /\ o \in UpTo(t)
      /\ o.state = s.state /\ o.startsAt = s.startsAt
      /\ m = "Alerting" => o.breachedSince = IF s.breachedSince = NoTime THEN t ELSE s.breachedSince
      /\ m = "OK" => o.quietSince = IF s.quietSince = NoTime THEN t ELSE s.quietSince
      /\ m = "KeepLast" => o = s
  BY ObservedOK
<1> HIDE DEF o
<1>4. /\ r \in UpTo(t) /\ Grounded(r) /\ FiredInTime(o, r, t) /\ ResolvedInTime(o, r, t)
  <2>1. CASE m = "Alerting"
    <3>1. r = ResultAlerting(o, t)
      BY <2>1 DEF ResultMapped
    <3>2. /\ o.state = "Pending" => o.breachedSince # NoTime /\ o.breachedSince <= o.startsAt
          /\ o.breachedSince # NoTime
      BY <1>2, <1>3, <2>1 DEF Grounded, NoTime
    <3>3. QED
      BY <3>1, <3>2, <1>3, ResultAlertingOK DEF ResolvedInTime
  <2>2. CASE m = "OK"
    <3>1. r = ResultNormal(o, t)
      BY <2>2 DEF ResultMapped
    <3>2. /\ o.state = "Recovering" => o.quietSince # NoTime /\ o.quietSince <= o.startsAt
          /\ o.quietSince # NoTime
      BY <1>2, <1>3, <2>2 DEF Grounded, NoTime
    <3>3. QED
      BY <3>1, <3>2, <1>3, ResultNormalOK DEF FiredInTime
  <2>3. CASE m = "KeepLast"
    <3>1. r = ResultKeepLast(s, t) /\ o = s
      BY <2>3, <1>3 DEF ResultMapped
    <3>2. CASE s.state \in {"Alerting", "Pending"}
      <4>1. r = ResultAlerting(s, t)
        BY <3>1, <3>2 DEF ResultKeepLast
      <4>2. QED
        BY <3>1, <3>2, <4>1, ResultAlertingOK DEF Grounded, ResolvedInTime
    <3>3. CASE s.state \notin {"Alerting", "Pending"}
      <4>1. r = ResultNormal(s, t)
        BY <3>1, <3>3 DEF ResultKeepLast
      <4>2. QED
        BY <3>1, <3>3, <4>1, ResultNormalOK DEF Grounded, FiredInTime
    <3>4. QED
      BY <3>2, <3>3
  <2>4. CASE m \in {"Error", "NoData"}
    <3>1. r = IF o.state = m THEN Maintain(o, t) ELSE Enter(o, m, t, t + 4 * Cycle)
      BY <2>4 DEF ResultMapped, EndsTime
    <3>2. m \in EvalStates /\ t + 4 * Cycle \in 0..t + 4 * Cycle
      BY <2>4, CycleFact DEF EvalStates
    <3>3. r \in UpTo(t) /\ r.state = m
      BY <1>3, <3>1, <3>2, MaintainType, EnterType
    <3>4. QED
      BY <3>3, <2>4 DEF Grounded, FiredInTime, ResolvedInTime
  <2>5. QED
    BY <1>1, <2>1, <2>2, <2>3, <2>4
<1> HIDE DEF r
<1> DEFINE e == [r EXCEPT !.evaluatedAt = t]
           v == ResolvedAt(s, r, t)
<1>5. new = [e EXCEPT !.resolvedAt = v]
  BY DEF Transition, m, o, r
<1>6. v \in 0..t
  <2>1. s.resolvedAt \in 0..t
    BY UpToFields
  <2>2. QED
    BY <2>1 DEF ResolvedAt, NoTime
<1> HIDE DEF v
<1>7. /\ e \in UpTo(t) /\ e.state = r.state /\ e.startsAt = r.startsAt
      /\ e.breachedSince = r.breachedSince /\ e.quietSince = r.quietSince
  BY <1>4 DEF UpTo
<1> HIDE DEF e
<1>8. /\ new \in UpTo(t) /\ new.state = r.state /\ new.startsAt = r.startsAt
      /\ new.breachedSince = r.breachedSince /\ new.quietSince = r.quietSince
  BY <1>5, <1>6, <1>7 DEF UpTo
<1>9. QED
  BY <1>3, <1>4, <1>8 DEF Grounded, FiredInTime, ResolvedInTime

LEMMA NewStateOK == ASSUME NEW t \in Nat \ {0} PROVE NewState(t) \in UpTo(t) /\ Grounded(NewState(t))
BY CycleFact DEF NewState, UpTo, Grounded, EvalStates, NoTime

\* A series that is missing leaves its instance as it is, extended, or gone.
LEMMA MissingOK ==
    ASSUME rule \in Rules, NEW t \in Nat \ {0}, NEW s \in UpTo(t), Grounded(s),
           NEW new, new = MissingTransition(s, t)
    PROVE  /\ new \in UpTo(t)
           /\ ~IsStale(s, t) => new.state = s.state /\ Grounded(new)
<1>1. CASE ~IsStale(s, t)
  <2>1. new = IF s.state = "Alerting" THEN Maintain(s, t) ELSE s
    BY <1>1 DEF MissingTransition
  <2>2. QED
    BY <2>1, MaintainType DEF Grounded
<1>2. CASE IsStale(s, t)
  <2> DEFINE a == [s EXCEPT !.state = "Normal"]
             b == [a EXCEPT !.evaluatedAt = t]
             c == [b EXCEPT !.endsAt = t]
             v == IF ShouldBeResolved(s) THEN t ELSE s.resolvedAt
  <2>1. a \in UpTo(t) /\ a.resolvedAt = s.resolvedAt
    BY DEF UpTo, EvalStates
  <2> HIDE DEF a
  <2>2. b \in UpTo(t) /\ b.resolvedAt = s.resolvedAt
    BY <2>1 DEF UpTo
  <2> HIDE DEF b
  <2>3. c \in UpTo(t) /\ c.resolvedAt = s.resolvedAt
    BY <2>2, CycleFact DEF UpTo
  <2>4. new = [c EXCEPT !.resolvedAt = IF ShouldBeResolved(s) THEN t ELSE @]
    BY <1>2 DEF MissingTransition, a, b
  <2> HIDE DEF c
  <2>5. new \in UpTo(t)
    <3>1. s.resolvedAt \in 0..t
      BY UpToFields
    <3>2. CASE ShouldBeResolved(s)
      BY <3>2, <2>3, <2>4 DEF UpTo
    <3>3. CASE ~ShouldBeResolved(s)
      BY <3>1, <3>3, <2>3, <2>4 DEF UpTo
    <3>4. QED
      BY <3>2, <3>3
  <2>6. QED
    BY <1>2, <2>5
<1>3. QED
  BY <1>1, <1>2

-----------------------------------------------------------------------------
(* Every step keeps the invariant *)

LEMMA InitIInv == Init => IInv
<1> SUFFICES ASSUME Init PROVE IInv
  OBVIOUS
<1>1. now \in 1..MaxTime /\ faults \in 0..MaxFaults
  BY AlertAssumption DEF Init
<1>2. am \in [Names -> 0..Latest]
  <2>1. 0 \in 0..Latest
    BY AlertAssumption, CycleFact DEF Latest
  <2>2. am = [n \in Names |-> 0]
    BY DEF Init, NoTime
  <2>3. QED
    BY <2>1, <2>2
<1>3. started \in 0..now /\ finished \in 0..now
  BY DEF Init
<1>4. QED
  BY <1>1, <1>2, <1>3 DEF Init, IInv, InstanceOK

\* What an evaluation leaves in the cache, and how the state got there.
LEMMA EvaluationOK ==
    ASSUME IInv, NEW result \in Results, ProcessEvalResults(result)
    PROVE  /\ InstanceOK(cache', now)
           /\ message' \in [name : Names, endsAt : 0..Latest] \cup {NoMessage}
           /\ cache'.state = "Alerting" /\ cache.state \notin {"Alerting", "Recovering"} =>
                 cache'.breachedSince # NoTime /\ now - cache'.breachedSince >= rule.for
           /\ cache'.state = "Normal" /\ cache.state \in {"Alerting", "Recovering"} =>
                 cache'.quietSince # NoTime /\ now - cache'.quietSince >= rule.keepFiringFor
<1> DEFINE seen == result # "missing"
           old == IF cache = NoInstance THEN NewState(now) ELSE cache
           next == IF seen THEN Transition(old, now, result) ELSE MissingTransition(old, now)
           send == NeedsSending(next, now)
           removed == ~seen /\ IsStale(old, now)
           kept == IF send THEN [next EXCEPT !.lastSentAt = now] ELSE next
<1>1. /\ rule \in Rules /\ now \in Nat \ {0} /\ now <= MaxTime
      /\ InstanceOK(cache, now)
  BY AlertAssumption DEF IInv
<1>2. /\ cache' = IF removed THEN NoInstance ELSE kept
      /\ message' = IF send THEN PostableAlert(next, old) ELSE NoMessage
  BY DEF ProcessEvalResults
<1>3. old \in UpTo(now) /\ Grounded(old)
      /\ (old = cache \/ (old.state = "Normal" /\ cache = NoInstance))
  BY <1>1, NewStateOK DEF InstanceOK, NewState
<1>o. cache = NoInstance => cache.state = "none"
  BY DEF NoInstance
<1> HIDE DEF old
<1>4. /\ next \in UpTo(now)
      /\ ~removed => /\ Grounded(next)
                     /\ FiredInTime(old, next, now) /\ ResolvedInTime(old, next, now)
  <2>1. CASE seen
    BY <2>1, <1>1, <1>3, TransitionOK
  <2>2. CASE ~seen
    <3>1. next \in UpTo(now) /\ (~removed => next.state = old.state /\ Grounded(next))
      BY <2>2, <1>1, <1>3, MissingOK
    <3>2. QED
      BY <3>1 DEF FiredInTime, ResolvedInTime
  <2>3. QED
    BY <2>1, <2>2
<1> HIDE DEF next, send, removed
<1>5. /\ kept \in UpTo(now) /\ kept.state = next.state /\ kept.startsAt = next.startsAt
      /\ kept.breachedSince = next.breachedSince /\ kept.quietSince = next.quietSince
  BY <1>1, <1>4 DEF UpTo
<1> HIDE DEF kept
<1>6. InstanceOK(cache', now)
  BY <1>2, <1>4, <1>5 DEF InstanceOK, Grounded
<1>7. message' \in [name : Names, endsAt : 0..Latest] \cup {NoMessage}
  <2>1. next.endsAt \in 0..now + 4 * Cycle
    BY <1>1, <1>4, UpToFields
  <2>2. next.endsAt \in 0..Latest
    BY <2>1, <1>1, CycleFact, AlertAssumption DEF Latest
  <2>3. \A state : NameOf(state) \in Names
    BY DEF NameOf, Names
  <2> HIDE DEF Names, Latest
  <2>4. PostableAlert(next, old) \in [name : Names, endsAt : 0..Latest]
    BY <2>2, <2>3 DEF PostableAlert
  <2>5. QED
    BY <2>4, <1>2
<1>8. CASE removed
  <2>1. cache'.state = "none"
    BY <1>2, <1>8 DEF NoInstance
  <2>2. QED
    BY <2>1, <1>6, <1>7
<1>9. CASE ~removed
  <2>1. cache' = kept /\ FiredInTime(old, next, now) /\ ResolvedInTime(old, next, now)
    BY <1>2, <1>4, <1>9
  <2>2. /\ cache.state \notin {"Alerting", "Recovering"} => old.state \notin {"Alerting", "Recovering"}
        /\ cache.state \in {"Alerting", "Recovering"} => old.state \in {"Alerting", "Recovering"}
    BY <1>3, <1>o
  <2>3. QED
    BY <2>1, <2>2, <1>5, <1>6, <1>7 DEF FiredInTime, ResolvedInTime
<1>10. QED
  BY <1>8, <1>9

LEMMA NextIInv == IInv /\ [Next]_vars => IInv'
<1> SUFFICES ASSUME IInv, [Next]_vars PROVE IInv'
  OBVIOUS
<1>0. now \in Nat \ {0} /\ started \in Nat /\ InstanceOK(NoInstance, now)
  BY AlertAssumption DEF IInv, InstanceOK
<1>1. ASSUME NEW result \in Results, ProcessEvalResults(result) PROVE IInv'
  <2>1. /\ UNCHANGED <<rule, now, db, am, finished, behind, lost, faults>>
        /\ started' = now /\ pc' = "saving"
    BY <1>1 DEF ProcessEvalResults
  <2>2. QED
    BY <2>1, <1>0, <1>1, EvaluationOK DEF IInv, InstanceOK
<1>2. CASE EvaluateNothing
  BY <1>0, <1>2 DEF EvaluateNothing, IInv, InstanceOK
<1>3. CASE Sync
  BY <1>3 DEF Sync, IInv, InstanceOK
<1>4. CASE SyncError
  BY <1>4, AlertAssumption DEF SyncError, IInv, InstanceOK
<1>5. CASE Send
  <2>1. am' \in [Names -> 0..Latest]
    <3>1. CASE message = NoMessage
      BY <3>1, <1>5 DEF Send, IInv
    <3>2. CASE message # NoMessage
      <4>1. message \in [name : Names, endsAt : 0..Latest] /\ am \in [Names -> 0..Latest]
        BY <3>2 DEF IInv
      <4>2. message.name \in Names /\ message.endsAt \in 0..Latest
        BY <4>1
      <4> HIDE DEF Names, Latest
      <4>3. am' = [am EXCEPT ![message.name] = message.endsAt]
        BY <3>2, <1>5 DEF Send
      <4>4. QED
        BY <4>1, <4>2, <4>3
    <3>3. QED
      BY <3>1, <3>2
  <2>2. QED
    BY <1>5, <2>1 DEF Send, IInv, InstanceOK
<1>6. CASE SendLost
  BY <1>6, AlertAssumption DEF SendLost, IInv, InstanceOK
<1>7. CASE DeleteStateByRuleUID
  <2>1. /\ UNCHANGED <<rule, now, am, started, finished, lost>>
        /\ cache' = NoInstance /\ pc' = "sending"
    BY <1>7 DEF DeleteStateByRuleUID
  <2>2. message' \in [name : Names, endsAt : 0..Latest] \cup {NoMessage}
    <3>1. now \in 0..Latest
      BY <1>0, CycleFact, AlertAssumption DEF IInv, Latest
    <3>2. NameOf(cache.state) \in Names
      BY DEF NameOf, Names
    <3> HIDE DEF Names, Latest
    <3>3. QED
      BY <3>1, <3>2, <1>7 DEF DeleteStateByRuleUID
  <2>3. \/ db' = NoInstance /\ behind' = FALSE /\ faults' = faults
        \/ db' = db /\ behind' = TRUE /\ faults < MaxFaults /\ faults' = faults + 1
    BY <1>7 DEF DeleteStateByRuleUID
  <2>4. InstanceOK(db', now') /\ behind' \in BOOLEAN /\ faults' \in 0..MaxFaults
    <3>1. InstanceOK(db, now) /\ InstanceOK(NoInstance, now) /\ now' = now
      BY <2>1 DEF IInv, InstanceOK
    <3>2. MaxFaults \in Nat /\ faults \in 0..MaxFaults
      BY AlertAssumption DEF IInv
    <3>3. db' \in {db, NoInstance}
      BY <2>3
    <3>4. InstanceOK(db', now')
      BY <3>1, <3>3 DEF InstanceOK
    <3>5. behind' \in BOOLEAN
      BY <2>3
    <3>6. faults' \in 0..MaxFaults
      BY <3>2, <2>3
    <3>7. QED
      BY <3>4, <3>5, <3>6
  <2>5. QED
    BY <2>1, <2>2, <2>4, <1>0 DEF IInv, InstanceOK
<1>8. CASE Crash
  <2>1. /\ UNCHANGED <<rule, now, db, am, started, finished>>
        /\ cache' = NoInstance /\ message' = NoMessage /\ pc' = "down"
        /\ behind' = FALSE /\ faults' \in 0..MaxFaults
        /\ lost' \in {"none", "message", "state"}
    BY <1>8, AlertAssumption DEF Crash, IInv
  <2>2. QED
    BY <2>1, <1>0 DEF IInv, InstanceOK
<1>9. CASE Restart
  BY <1>9 DEF Restart, IInv, InstanceOK
<1>10. CASE Tick
  <2>1. /\ now' = now + 1 /\ now' \in 1..MaxTime /\ now' \in Nat
        /\ UNCHANGED <<rule, pc, cache, db, message, am, started, finished, behind, lost, faults>>
    BY <1>0, <1>10, AlertAssumption DEF Tick, IInv
  <2>2. InstanceOK(cache, now') /\ InstanceOK(db, now')
    BY <2>1, <1>0, UpToLater DEF IInv
  <2>3. started' \in 0..now' /\ finished' \in 0..now'
    BY <2>1, <1>0 DEF IInv
  <2>4. QED
    BY <2>1, <2>2, <2>3 DEF IInv, InstanceOK
<1>11. CASE UNCHANGED vars
  BY <1>11 DEF vars, IInv, InstanceOK
<1>12. QED
  BY <1>1, <1>2, <1>3, <1>4, <1>5, <1>6, <1>7, <1>8, <1>9, <1>10, <1>11 DEF Next

LEMMA Invariance == Spec => []IInv
BY InitIInv, NextIInv, PTL DEF Spec

-----------------------------------------------------------------------------
(* The theorems *)

\* Cache, database, message and what the Alertmanager was told keep their types
\* for any rules and intervals (state.go, manager.go).
THEOREM TypeCorrect == Spec => []TypeOK
<1>1. IInv => TypeOK
  <2>1. SUFFICES ASSUME IInv PROVE TypeOK
    OBVIOUS
  <2>2. now \in Nat /\ now <= MaxTime /\ now \in 1..MaxTime
    BY <2>1, AlertAssumption DEF IInv
  <2>3. UpTo(now) \subseteq Instances
    BY <2>2, CycleFact, AlertAssumption DEF UpTo, Instances, Latest
  <2>4. cache \in Instances \cup {NoInstance} /\ db \in Instances \cup {NoInstance}
    BY <2>1, <2>3 DEF IInv, InstanceOK
  <2>5. started \in 0..MaxTime /\ finished \in 0..MaxTime
    BY <2>1, <2>2, AlertAssumption DEF IInv
  <2>6. QED
    BY <2>1, <2>2, <2>4, <2>5 DEF IInv, TypeOK
<1>2. QED
  BY <1>1, Invariance, PTL

\* No alert fires before its condition was true for the rule's For, whatever
\* errors, gaps, failed saves and restarts come in between (resultAlerting).
THEOREM NothingFiresEarly == Spec => NotFiredEarly
<1>1. IInv /\ [Next]_vars =>
        [(/\ pc = "idle" /\ cache'.state = "Alerting" /\ pc' = "saving"
          /\ cache.state \notin {"Alerting", "Recovering"})
           => /\ cache'.breachedSince # NoTime \/ rule.for = 0
              /\ now - cache'.breachedSince >= rule.for]_vars
  <2> SUFFICES ASSUME IInv, Next, pc = "idle", pc' = "saving"
               PROVE  \E result \in Results : ProcessEvalResults(result)
    BY EvaluationOK
  <2>1. QED
    BY DEF Next, EvaluateNothing, Sync, SyncError, Send, SendLost, DeleteStateByRuleUID, Crash,
           Restart, Tick
<1>2. QED
  BY <1>1, Invariance, PTL DEF Spec, NotFiredEarly

\* No alert is resolved by its evaluations before its condition was false for
\* KeepFiringFor (resultNormal).
THEOREM NothingIsResolvedEarly == Spec => NotResolvedEarly
<1>1. IInv /\ [Next]_vars =>
        [(/\ pc = "idle" /\ pc' = "saving" /\ cache'.state = "Normal"
          /\ cache.state \in {"Alerting", "Recovering"})
           => /\ cache'.quietSince # NoTime \/ rule.keepFiringFor = 0
              /\ now - cache'.quietSince >= rule.keepFiringFor]_vars
  <2> SUFFICES ASSUME IInv, Next, pc = "idle", pc' = "saving"
               PROVE  \E result \in Results : ProcessEvalResults(result)
    BY EvaluationOK
  <2>1. QED
    BY DEF Next, EvaluateNothing, Sync, SyncError, Send, SendLost, DeleteStateByRuleUID, Crash,
           Restart, Tick
<1>2. QED
  BY <1>1, Invariance, PTL DEF Spec, NotResolvedEarly

-----------------------------------------------------------------------------
(***************************************************************************)
(* For any rules and intervals: what the Alertmanager knows of an alert    *)
(* agrees with its instance, and what was lost on the way is made up for.  *)
(*                                                                         *)
(* The invariant follows an instance through the routine.  Between two     *)
(* evaluations what was last sent of it fits it, and it was sent less      *)
(* than ResendDelay before the last evaluation; while a message is under   *)
(* way the message fits it; and what a restart would bring back is either  *)
(* the same, or what the Alertmanager knew before the evaluation.          *)
(***************************************************************************)


Firing(s) == s.state \in FiringStates

\* Errors and missing data have no state of their own.
Mapped == rule.execErrState # "Error" /\ rule.noDataState # "NoData"

\* An instance at time u whose last evaluation began at t.
Regular(s, t, u) ==
    s # NoInstance =>
       /\ s.evaluatedAt <= t /\ s.lastSentAt <= t
       /\ Firing(s) => s.resolvedAt = NoTime
       /\ s.state = "Recovering" => s.endsAt = s.evaluatedAt + 4 * Cycle
       /\ s.state = "Normal" => s.endsAt <= u
       /\ Mapped => s.state \notin {"Error", "NoData"}

\* An alert that was sent lasts for more than this: a series may be missing
\* for missingEvals - 1 intervals when its instance is sent again.
SentUntil(s) == s.lastSentAt + 4 * Cycle - rule.missingEvals

\* What the Alertmanager knows (a) at time u fits the instance.
Agrees(s, a, u) ==
    /\ Firing(s) /\ s.startsAt <= s.lastSentAt => a[NameOf(s.state)] > SentUntil(s)
    /\ ~Firing(s) /\ Mapped => \A name \in Names : a[name] <= u

\* The instance is to be sent at u, again and again.
Wanted(s, u) ==
    \/ Firing(s)
    \/ s.state = "Normal" /\ s.resolvedAt # NoTime /\ u - s.resolvedAt <= ResolvedRetention

\* At the evaluation of time t there was no need to send it yet.
NotDue(s, t, u) == Wanted(s, u) => t < s.lastSentAt + ResendDelay

\* A message that is under way at time u fits the instance it was made from by
\* the evaluation of time t.
Fits(msg, s, t, u) ==
    msg # NoMessage =>
       /\ s # NoInstance => s.lastSentAt = t
       /\ Firing(s) => msg.name = NameOf(s.state) /\ msg.endsAt > SentUntil(s)
       /\ ~Firing(s) => msg.endsAt <= u
       /\ Mapped => msg.name = "rule"

\* Between evaluations and, when nothing is to be sent, during one.
Quiescent == pc \in {"idle", "saving", "sending"} /\ message = NoMessage

\* The database still holds the instance of the last finished evaluation.
Behindhand == pc = "down" \/ (pc = "saving" /\ ~behind)

LastEvaluation == IF pc = "idle" THEN finished ELSE started

InstancesAreRegular == Regular(cache, started, now) /\ Regular(db, started, now)
ClocksAgree == finished <= started /\ now <= finished + MaxGap
ShapeOK ==
    /\ pc \in {"idle", "down"} => message = NoMessage
    /\ pc = "down" => ~behind
    /\ pc \in {"idle", "sending"} /\ ~behind => cache = db
OneName == Mapped => \A name \in Names \ {"rule"} : am[name] = NoTime
SentInTime ==
    lost # "state" =>
       /\ Quiescent => NotDue(cache, LastEvaluation, now)
       /\ Behindhand => NotDue(db, finished, now)
KnownOutside ==
    lost = "none" =>
       /\ Quiescent => Agrees(cache, am, now)
       /\ Behindhand => Agrees(db, am, now)

DInv ==
    /\ InstancesAreRegular /\ ClocksAgree /\ ShapeOK /\ OneName
    /\ Fits(message, cache, started, now) /\ SentInTime /\ KnownOutside

-----------------------------------------------------------------------------
(* What an evaluation makes of an instance *)

LEMMA FiringStatesAre ==
    /\ \A s : Firing(s) <=> s.state \in {"Alerting", "Recovering", "Error", "NoData"}
    /\ FiringStates \subseteq EvalStates
BY DEF Firing, FiringStates, EvalStates

LEMMA EnterFields ==
    ASSUME NEW t \in Nat, NEW s \in UpTo(t), NEW state \in EvalStates,
           NEW endsAt \in 0..t + 4 * Cycle
    PROVE  /\ Enter(s, state, t, endsAt).endsAt = endsAt
           /\ Enter(s, state, t, endsAt).lastSentAt = s.lastSentAt
<1> DEFINE a == [s EXCEPT !.state = state]
           b == [a EXCEPT !.startsAt = t]
           c == [b EXCEPT !.endsAt = endsAt]
<1>1. Enter(s, state, t, endsAt) = c
  BY DEF Enter
<1>2. a \in UpTo(t) /\ a.lastSentAt = s.lastSentAt
  BY DEF UpTo
<1> HIDE DEF a
<1>3. b \in UpTo(t) /\ b.lastSentAt = s.lastSentAt
  BY <1>2 DEF UpTo
<1> HIDE DEF b
<1>4. c.endsAt = endsAt /\ c.lastSentAt = s.lastSentAt
  BY <1>3 DEF UpTo
<1>5. QED
  BY <1>1, <1>4

LEMMA MaintainFields ==
    ASSUME NEW t \in Nat, NEW s \in UpTo(t)
    PROVE  /\ Maintain(s, t).endsAt = t + 4 * Cycle
           /\ Maintain(s, t).lastSentAt = s.lastSentAt
           /\ Maintain(s, t).evaluatedAt = s.evaluatedAt
BY CycleFact DEF UpTo, Maintain, EndsTime

LEMMA ObservedKeeps ==
    ASSUME NEW t \in Nat \ {0}, NEW s \in UpTo(t), NEW m, NEW o, o = Observed(s, t, m)
    PROVE  o.endsAt = s.endsAt /\ o.resolvedAt = s.resolvedAt /\ o.lastSentAt = s.lastSentAt
<1> DEFINE since(time) == IF time = NoTime THEN t ELSE time
           a == [s EXCEPT !.breachedSince = since(@)]
           b == [s EXCEPT !.quietSince = since(@)]
           c == [s EXCEPT !.breachedSince = NoTime]
           Same(x) == /\ x \in UpTo(t) /\ x.endsAt = s.endsAt /\ x.resolvedAt = s.resolvedAt
                      /\ x.lastSentAt = s.lastSentAt
<1>1. Same(a)
  BY DEF UpTo, NoTime
<1>2. Same(b)
  BY DEF UpTo, NoTime
<1>3. Same(c)
  BY DEF UpTo, NoTime
<1>4. o = IF m = "Alerting" THEN [a EXCEPT !.quietSince = NoTime]
          ELSE IF m = "OK" THEN [b EXCEPT !.breachedSince = NoTime]
          ELSE IF m = "KeepLast" THEN s ELSE [c EXCEPT !.quietSince = NoTime]
  BY DEF Observed
<1> HIDE DEF a, b, c
<1>5. CASE m = "Alerting"
  BY <1>1, <1>4, <1>5 DEF UpTo, NoTime
<1>6. CASE m = "OK"
  BY <1>2, <1>4, <1>6 DEF UpTo, NoTime
<1>7. CASE m = "KeepLast"
  BY <1>4, <1>7
<1>8. CASE m \notin {"Alerting", "OK", "KeepLast"}
  <2>1. o = [c EXCEPT !.quietSince = NoTime]
    BY <1>4, <1>8
  <2>2. QED
    BY <2>1, <1>3 DEF UpTo, NoTime
<1>9. QED
  BY <1>5, <1>6, <1>7, <1>8

\* A state is left as it is, extended, or entered.
Entered(o, r, t, state) == r = Enter(o, state, t, IF state = "Normal" THEN t ELSE t + 4 * Cycle)
Moves(o, r, t, m) ==
    \/ r = o /\ o.state \in {"Normal", "Pending"}
    \/ r = Maintain(o, t) /\ Firing(o) /\ (o.state \in {"Error", "NoData"} => o.state = m)
    \/ \E state \in EvalStates :
          /\ Entered(o, r, t, state)
          /\ state = "Pending" => o.state \notin {"Alerting", "Recovering"}
          /\ state \in {"Error", "NoData"} => state = m

LEMMA ResultNormalMoves ==
    ASSUME NEW t \in Nat \ {0}, NEW o, NEW m PROVE Moves(o, ResultNormal(o, t), t, m)
<1> DEFINE r == ResultNormal(o, t)
<1>1. CASE o.state = "Normal"
  BY <1>1 DEF ResultNormal, Moves
<1>2. CASE o.state = "Recovering" /\ r = Maintain(o, t)
  BY <1>2, FiringStatesAre DEF Moves
<1>3. CASE r = Enter(o, "Recovering", t, EndsTime(t))
  BY <1>3 DEF Moves, Entered, EvalStates, EndsTime
<1>4. CASE r = Enter(o, "Normal", t, t)
  BY <1>4 DEF Moves, Entered, EvalStates
<1>5. QED
  BY <1>1, <1>2, <1>3, <1>4 DEF ResultNormal

LEMMA ResultAlertingMoves ==
    ASSUME NEW t \in Nat \ {0}, NEW o, NEW m PROVE Moves(o, ResultAlerting(o, t), t, m)
<1> DEFINE r == ResultAlerting(o, t)
<1>1. CASE o.state = "Alerting"
  BY <1>1, FiringStatesAre DEF ResultAlerting, Moves
<1>2. CASE o.state = "Pending" /\ r = o
  BY <1>2 DEF Moves
<1>3. CASE r = Enter(o, "Pending", t, EndsTime(t)) /\ o.state \notin {"Alerting", "Recovering"}
  BY <1>3 DEF Moves, Entered, EvalStates, EndsTime
<1>4. CASE r = Enter(o, "Alerting", t, EndsTime(t))
  BY <1>4 DEF Moves, Entered, EvalStates, EndsTime
<1>5. QED
  BY <1>1, <1>2, <1>3, <1>4 DEF ResultAlerting

LEMMA ResultMappedMoves ==
    ASSUME NEW t \in Nat \ {0}, NEW o, NEW m \in {"Alerting", "OK", "KeepLast", "Error", "NoData"}
    PROVE  Moves(o, ResultMapped(o, t, m), t, m)
<1>1. CASE m = "Alerting"
  BY <1>1, ResultAlertingMoves DEF ResultMapped
<1>2. CASE m = "OK"
  BY <1>2, ResultNormalMoves DEF ResultMapped
<1>3. CASE m = "KeepLast"
  BY <1>3, ResultNormalMoves, ResultAlertingMoves DEF ResultMapped, ResultKeepLast
<1>4. CASE m \in {"Error", "NoData"}
  <2>1. CASE o.state = m
    BY <2>1, <1>4, FiringStatesAre DEF ResultMapped, Moves
  <2>2. CASE o.state # m
    <3>1. Entered(o, ResultMapped(o, t, m), t, m) /\ m \in EvalStates
      BY <2>2, <1>4 DEF ResultMapped, Entered, EndsTime, EvalStates
    <3>2. QED
      BY <3>1, <1>4 DEF Moves
  <2>3. QED
    BY <2>1, <2>2
<1>5. QED
  BY <1>1, <1>2, <1>3, <1>4

\* What is told of an instance after an evaluation at t that turned s into new.
Told(s, new, t) ==
    /\ new.lastSentAt = s.lastSentAt
    /\ Firing(new) => /\ new.resolvedAt = NoTime
                      /\ new.endsAt > t + 4 * Cycle - rule.missingEvals
                      /\ (new.state = s.state /\ new.startsAt = s.startsAt) \/ new.startsAt = t
    /\ new.state \in {"Normal", "Pending"} \cup FiringStates
    /\ new.state = "Normal" => new.endsAt <= t
    /\ new.state = "Recovering" => new.endsAt = new.evaluatedAt + 4 * Cycle
    /\ new.evaluatedAt <= t
    /\ Mapped => /\ new.state \notin {"Error", "NoData"}
                 /\ Firing(s) /\ ~Firing(new) => new.state = "Normal" /\ new.resolvedAt = t

LEMMA TransitionTold ==
    ASSUME rule \in Rules, NEW t \in Nat \ {0}, NEW s \in UpTo(t), NEW u, Regular(s, u, t),
           NEW result \in Results, NEW new, new = Transition(s, t, result)
    PROVE  Told(s, new, t) /\ new.evaluatedAt = t
<1> DEFINE m == Mapping(result)
           o == Observed(s, t, m)
           r == ResultMapped(o, t, m)
           v == ResolvedAt(s, r, t)
           e == [r EXCEPT !.evaluatedAt = t]
<1>1. /\ m \in {"Alerting", "OK", "KeepLast", "Error", "NoData"}
      /\ Mapped => m \notin {"Error", "NoData"}
  BY RuleFacts DEF Mapping, Mapped
<1>2. new = [e EXCEPT !.resolvedAt = v]
  BY DEF Transition
<1>3. s # NoInstance
  <2>1. s.state \in EvalStates
    BY UpToFields
  <2>2. QED
    BY <2>1 DEF NoInstance, EvalStates
<1> HIDE DEF m
<1>4. /\ o \in UpTo(t) /\ o.state = s.state /\ o.startsAt = s.startsAt
      /\ o.endsAt = s.endsAt /\ o.lastSentAt = s.lastSentAt
  BY ObservedOK, ObservedKeeps
<1>5. Moves(o, r, t, m)
  BY <1>1, ResultMappedMoves
<1> HIDE DEF o, r, e
<1> DEFINE Goal ==
       /\ r \in UpTo(t) /\ r.lastSentAt = s.lastSentAt
       /\ Firing(r) => /\ r.endsAt = t + 4 * Cycle
                       /\ (r.state = s.state /\ r.startsAt = s.startsAt) \/ r.startsAt = t
       /\ r.state \in {"Normal", "Pending"} \cup FiringStates
       /\ r.state = "Normal" => r.endsAt <= t
       /\ r.state \in {"Error", "NoData"} => r.state = m
       /\ r.state = "Pending" => s.state \notin {"Alerting", "Recovering"}
<1>6. Goal
  <2>1. CASE r = o /\ o.state \in {"Normal", "Pending"}
    BY <1>3, <1>4, <2>1, FiringStatesAre DEF Regular
  <2>2. CASE r = Maintain(o, t) /\ Firing(o) /\ (o.state \in {"Error", "NoData"} => o.state = m)
    <3>1. /\ r \in UpTo(t) /\ r.state = o.state /\ r.startsAt = o.startsAt
          /\ r.endsAt = t + 4 * Cycle /\ r.lastSentAt = o.lastSentAt
      BY <1>4, <2>2, MaintainType, MaintainFields
    <3>2. QED
      BY <3>1, <1>4, <2>2, FiringStatesAre DEF FiringStates
  <2>3. ASSUME NEW state \in EvalStates, Entered(o, r, t, state),
               state = "Pending" => o.state \notin {"Alerting", "Recovering"},
               state \in {"Error", "NoData"} => state = m
        PROVE  Goal
    <3> DEFINE end == IF state = "Normal" THEN t ELSE t + 4 * Cycle
    <3>1. end \in 0..t + 4 * Cycle
      BY CycleFact
    <3>2. r = Enter(o, state, t, end)
      BY <2>3 DEF Entered
    <3> HIDE DEF end
    <3>3. /\ r \in UpTo(t) /\ r.state = state /\ r.startsAt = t
          /\ r.endsAt = end /\ r.lastSentAt = o.lastSentAt
      BY <1>4, <3>1, <3>2, EnterType, EnterFields
    <3>4. state = "Normal" => end = t
      BY DEF end
    <3>5. state # "Normal" => end = t + 4 * Cycle
      BY DEF end
    <3>6. state \in {"Normal", "Pending"} \cup FiringStates
      BY DEF EvalStates, FiringStates
    <3>7. Firing(r) => state # "Normal"
      BY <3>3, FiringStatesAre
    <3>8. Firing(r) => r.endsAt = t + 4 * Cycle /\ r.startsAt = t
      BY <3>3, <3>5, <3>7
    <3>9. r.state = "Normal" => r.endsAt <= t
      BY <3>3, <3>4
    <3>10. QED
      BY <1>4, <2>3, <3>3, <3>6, <3>8, <3>9
  <2>4. QED
    BY <1>5, <2>1, <2>2, <2>3 DEF Moves
<1> HIDE DEF v
<1>7. /\ e \in UpTo(t) /\ e.state = r.state /\ e.startsAt = r.startsAt /\ e.endsAt = r.endsAt
      /\ e.lastSentAt = r.lastSentAt /\ e.evaluatedAt = t
  BY <1>6 DEF UpTo, e
<1>8. /\ new.state = r.state /\ new.startsAt = r.startsAt /\ new.endsAt = r.endsAt
      /\ new.lastSentAt = r.lastSentAt /\ new.evaluatedAt = t /\ new.resolvedAt = v
  BY <1>2, <1>7 DEF UpTo
<1>9. /\ Firing(r) => v = NoTime
      /\ s.state \in {"Alerting", "Recovering"} /\ r.state = "Normal" => v = t
  BY FiringStatesAre DEF v, ResolvedAt
<1>10. rule.missingEvals \in Nat \ {0}
  BY RuleFacts
<1>11. Firing(new) = Firing(r)
  BY <1>8 DEF Firing
<1>12. Mapped => /\ new.state \notin {"Error", "NoData"}
                 /\ Firing(s) /\ ~Firing(new) => new.state = "Normal" /\ new.resolvedAt = t
  <2>1. Mapped => s.state \notin {"Error", "NoData"} /\ r.state \notin {"Error", "NoData"}
    BY <1>1, <1>3, <1>6 DEF Regular
  <2>2. ~Firing(r) => r.state \in {"Normal", "Pending"}
    BY <1>6 DEF Firing
  <2>3. QED
    BY <2>1, <2>2, <1>6, <1>8, <1>9, <1>11, FiringStatesAre
<1>13. Firing(new) => new.endsAt > t + 4 * Cycle - rule.missingEvals
  BY <1>6, <1>8, <1>10, <1>11, CycleFact
<1>14. new.state = "Recovering" => new.endsAt = new.evaluatedAt + 4 * Cycle
  BY <1>6, <1>8, <1>11, FiringStatesAre
<1>15. QED
  BY <1>6, <1>8, <1>9, <1>11, <1>12, <1>13, <1>14 DEF Told

LEMMA MissingTold ==
    ASSUME rule \in Rules, NEW t \in Nat \ {0}, NEW s \in UpTo(t), NEW u \in Nat, u < t,
           Regular(s, u, t), NEW new, new = MissingTransition(s, t)
    PROVE  /\ Told(s, new, t)
           /\ IsStale(s, t) => new.state = "Normal" /\ (Firing(s) => new.resolvedAt = t)
<1>1. s # NoInstance /\ s.state \in EvalStates
  <2>1. s.state \in EvalStates
    BY UpToFields
  <2>2. QED
    BY <2>1 DEF NoInstance, EvalStates
<1>2. rule.missingEvals \in Nat \ {0} /\ s.evaluatedAt \in 0..t /\ s.endsAt \in Nat
  BY RuleFacts, UpToFields, CycleFact
<1>3. CASE IsStale(s, t)
  <2> DEFINE a == [s EXCEPT !.state = "Normal"]
             b == [a EXCEPT !.evaluatedAt = t]
             c == [b EXCEPT !.endsAt = t]
             v == IF ShouldBeResolved(s) THEN t ELSE s.resolvedAt
  <2>1. a \in UpTo(t) /\ a.state = "Normal" /\ a.resolvedAt = s.resolvedAt /\ a.lastSentAt = s.lastSentAt
    BY DEF UpTo, EvalStates
  <2> HIDE DEF a
  <2>2. /\ b \in UpTo(t) /\ b.state = "Normal" /\ b.resolvedAt = s.resolvedAt
        /\ b.lastSentAt = s.lastSentAt /\ b.evaluatedAt = t
    BY <2>1 DEF UpTo
  <2> HIDE DEF b
  <2>3. /\ c \in UpTo(t) /\ c.state = "Normal" /\ c.resolvedAt = s.resolvedAt
        /\ c.lastSentAt = s.lastSentAt /\ c.evaluatedAt = t /\ c.endsAt = t
    BY <2>2, CycleFact DEF UpTo
  <2>4. new = [c EXCEPT !.resolvedAt = IF ShouldBeResolved(s) THEN t ELSE @]
    BY <1>3 DEF MissingTransition, a, b
  <2> HIDE DEF c
  <2>5. new = [c EXCEPT !.resolvedAt = v]
    BY <2>3, <2>4
  <2>6. /\ new.state = "Normal" /\ new.lastSentAt = s.lastSentAt
        /\ new.evaluatedAt = t /\ new.endsAt = t /\ new.resolvedAt = v
    <3> HIDE DEF v
    <3>1. QED
      BY <2>3, <2>5 DEF UpTo
  <2>7. Firing(s) => v = t
    BY DEF Firing, ShouldBeResolved
  <2>8. QED
    BY <2>6, <2>7, FiringStatesAre DEF Told
<1>4. CASE ~IsStale(s, t)
  <2>1. new = IF s.state = "Alerting" THEN Maintain(s, t) ELSE s
    BY <1>4 DEF MissingTransition
  <2>2. /\ new.state = s.state /\ new.startsAt = s.startsAt /\ new.resolvedAt = s.resolvedAt
        /\ new.lastSentAt = s.lastSentAt /\ new.evaluatedAt = s.evaluatedAt
        /\ new.endsAt = IF s.state = "Alerting" THEN t + 4 * Cycle ELSE s.endsAt
    BY <2>1, MaintainType, MaintainFields
  <2>3. s.evaluatedAt <= u
    BY <1>1 DEF Regular
  <2>4. s.state \notin {"Error", "NoData"} /\ t - s.evaluatedAt < rule.missingEvals
    BY <1>2, <1>4, <2>3 DEF IsStale
  <2>5. Firing(s) <=> s.state \in {"Alerting", "Recovering"}
    BY <2>4, FiringStatesAre
  <2>6. Firing(new) => new.endsAt > t + 4 * Cycle - rule.missingEvals
    <3>1. CASE s.state = "Alerting"
      BY <3>1, <1>2, <2>2, CycleFact
    <3>2. CASE s.state = "Recovering"
      <4>1. new.endsAt = s.evaluatedAt + 4 * Cycle
        BY <3>2, <1>1, <2>2 DEF Regular
      <4>2. QED
        BY <4>1, <1>2, <2>4, CycleFact
    <3>3. Firing(new) = Firing(s)
      BY <2>2 DEF Firing
    <3>4. QED
      BY <3>1, <3>2, <3>3, <2>5
  <2>7. Firing(new) = Firing(s)
    BY <2>2 DEF Firing
  <2>8. new.state \in {"Normal", "Pending"} \cup FiringStates
    BY <1>1, <2>2 DEF EvalStates, FiringStates
  <2>9. new.state = "Normal" => new.endsAt <= t
    BY <1>1, <2>2 DEF Regular
  <2>10. new.state = "Recovering" => new.endsAt = new.evaluatedAt + 4 * Cycle
    BY <1>1, <2>2 DEF Regular
  <2>11. Firing(new) => new.resolvedAt = NoTime
    BY <1>1, <2>2, <2>7 DEF Regular
  <2>12. QED
    BY <1>2, <1>4, <2>2, <2>4, <2>6, <2>7, <2>8, <2>9, <2>10, <2>11 DEF Told
<1>5. QED
  BY <1>3, <1>4

\* The end of the evaluation of time now: what is in the cache is as it should
\* be, and so is the message, or there was no need for one.
LEMMA EvaluationDelivers ==
    ASSUME IInv, DInv, NEW result \in Results, ProcessEvalResults(result)
    PROVE  /\ Regular(cache', now, now)
           /\ Fits(message', cache', now, now)
           /\ message' = NoMessage => NotDue(cache', now, now)
           /\ message' = NoMessage /\ lost = "none" => Agrees(cache', am, now)
<1> DEFINE seen == result # "missing"
           old == IF cache = NoInstance THEN NewState(now) ELSE cache
           next == IF seen THEN Transition(old, now, result) ELSE MissingTransition(old, now)
           send == NeedsSending(next, now)
           removed == ~seen /\ IsStale(old, now)
           kept == IF send THEN [next EXCEPT !.lastSentAt = now] ELSE next
<1>1. /\ rule \in Rules /\ now \in Nat \ {0} /\ started \in Nat /\ started < now
      /\ InstanceOK(cache, now) /\ Regular(cache, started, now)
      /\ pc = "idle" /\ message = NoMessage
  BY AlertAssumption DEF IInv, DInv, InstancesAreRegular, ShapeOK, ProcessEvalResults
<1>2. /\ cache' = IF removed THEN NoInstance ELSE kept
      /\ message' = IF send THEN PostableAlert(next, old) ELSE NoMessage
      /\ seen \/ cache # NoInstance
  BY DEF ProcessEvalResults
<1>3. /\ old \in UpTo(now) /\ old.lastSentAt \in Nat /\ old.lastSentAt < now
      /\ Regular(old, now, now)
      /\ Firing(old) => old = cache
      /\ ~Firing(old) => ~Firing(cache)
  <2>1. CASE cache = NoInstance
    <3>1. /\ old \in UpTo(now) /\ old.state = "Normal" /\ old.lastSentAt = 0
          /\ old.evaluatedAt = now /\ old.endsAt = now
      BY <2>1, <1>1, NewStateOK DEF NewState, NoTime
    <3>2. ~Firing(cache)
      BY <2>1, FiringStatesAre DEF NoInstance
    <3> HIDE DEF old
    <3>3. QED
      BY <3>1, <3>2, <1>1, FiringStatesAre DEF Regular
  <2>2. CASE cache # NoInstance
    <3>1. old = cache /\ old \in UpTo(now)
      BY <2>2, <1>1 DEF InstanceOK
    <3> HIDE DEF old
    <3>2. old.lastSentAt \in Nat /\ old.evaluatedAt \in Nat
      BY <3>1, <1>1, UpToFields
    <3>3. QED
      BY <3>1, <3>2, <2>2, <1>1 DEF Regular
  <2>3. QED
    BY <2>1, <2>2
<1>4. ~seen => cache # NoInstance /\ old = cache
  BY <1>2
<1>o. old # NoInstance
  <2>1. old.state \in EvalStates
    BY <1>1, <1>3, UpToFields
  <2>2. QED
    BY <2>1 DEF NoInstance, EvalStates
<1> HIDE DEF old
<1>5. /\ next \in UpTo(now) /\ Told(old, next, now)
      /\ removed => next.state = "Normal" /\ (Firing(old) => next.resolvedAt = now)
  <2>1. CASE seen
    <3>1. Grounded(old)
      <4>1. CASE cache = NoInstance
        BY <4>1, <1>1, NewStateOK DEF old
      <4>2. CASE cache # NoInstance
        BY <4>2, <1>1 DEF old, InstanceOK
      <4>3. QED
        BY <4>1, <4>2
    <3>2. QED
      BY <2>1, <3>1, <1>1, <1>3, TransitionTold, TransitionOK
  <2>2. CASE ~seen
    <3>1. Regular(old, started, now) /\ Grounded(old)
      BY <2>2, <1>1, <1>4 DEF InstanceOK
    <3>2. QED
      BY <2>2, <3>1, <1>1, <1>3, MissingTold, MissingOK
  <2>3. QED
    BY <2>1, <2>2
<1> HIDE DEF next, removed
<1>6. /\ kept.state = next.state /\ kept.startsAt = next.startsAt /\ kept.endsAt = next.endsAt
      /\ kept.resolvedAt = next.resolvedAt /\ kept.evaluatedAt = next.evaluatedAt
      /\ kept.lastSentAt = IF send THEN now ELSE next.lastSentAt
      /\ ~send => kept = next
  <2> HIDE DEF send
  <2>1. QED
    BY <1>5 DEF UpTo
<1>7. Firing(kept) = Firing(next) /\ ~Firing(NoInstance)
  <2>1. Firing(kept) = Firing(next)
    <3> HIDE DEF kept
    <3>1. QED
      BY <1>6 DEF Firing
  <2>2. ~Firing(NoInstance)
    BY FiringStatesAre DEF NoInstance
  <2>3. QED
    BY <2>1, <2>2
<1>8. next.endsAt \in Nat /\ rule.missingEvals \in Nat \ {0} /\ Cycle \in Nat
  BY <1>1, <1>5, UpToFields, CycleFact, RuleFacts
<1>9. Regular(cache', now, now)
  <2>1. Regular(kept, now, now)
    <3> HIDE DEF kept, send
    <3>1. kept.lastSentAt <= now
      BY <1>1, <1>3, <1>5, <1>6 DEF Told
    <3>2. QED
      BY <3>1, <1>5, <1>6, <1>7 DEF Regular, Told
  <2>2. QED
    BY <2>1, <1>2 DEF Regular
<1>10. send => Fits(message', cache', now, now)
  <2> SUFFICES ASSUME send PROVE Fits(message', cache', now, now)
    OBVIOUS
  <2>1. next.state # "Pending"
    BY DEF NeedsSending
  <2>2. kept.lastSentAt = now /\ message' = PostableAlert(next, old)
    BY <1>2, <1>6
  <2> HIDE DEF send, kept
  <2>3. /\ message'.endsAt = next.endsAt
        /\ message'.name = NameOf(IF next.resolvedAt # NoTime THEN old.state ELSE next.state)
    BY <2>2 DEF PostableAlert
  <2>4. Mapped => message'.name = "rule"
    <3>1. Mapped => old.state \notin {"Error", "NoData"} /\ next.state \notin {"Error", "NoData"}
      BY <1>3, <1>5, <1>o DEF Regular, Told
    <3>2. QED
      BY <3>1, <2>3 DEF NameOf
  <2>5. ~Firing(next) => next.endsAt <= now
    BY <1>5, <2>1 DEF Told, Firing
  <2>6. Firing(next) => message'.name = NameOf(next.state) /\ next.endsAt > SentUntil(kept)
    BY <1>5, <1>6, <2>2, <2>3 DEF Told, SentUntil
  <2>7. CASE removed
    <3>1. ~Firing(next)
      BY <2>7, <1>5, FiringStatesAre
    <3>2. cache' = NoInstance
      BY <2>7, <1>2
    <3>3. QED
      BY <3>1, <3>2, <1>7, <2>3, <2>4, <2>5 DEF Fits
  <2>8. CASE ~removed
    <3>1. cache' = kept
      BY <2>8, <1>2
    <3>2. QED
      BY <3>1, <1>6, <1>7, <2>2, <2>3, <2>4, <2>5, <2>6 DEF Fits
  <2>9. QED
    BY <2>7, <2>8
<1>11. message' = NoMessage => ~send
  <2>1. PostableAlert(next, old).name \in Names
    BY DEF PostableAlert, NameOf, Names
  <2>2. NoMessage.name = "none" /\ "none" \notin Names
    BY DEF NoMessage, Names
  <2>3. QED
    BY <2>1, <2>2, <1>2
<1>12. ~send => NotDue(cache', now, now)
  <2> SUFFICES ASSUME ~send PROVE NotDue(cache', now, now)
    OBVIOUS
  <2>1. cache' = IF removed THEN NoInstance ELSE next
    BY <1>2, <1>6
  <2>2. ~Wanted(NoInstance, now)
    BY <1>7 DEF Wanted, NoInstance
  <2>3. next.lastSentAt \in Nat /\ ResendDelay \in Nat
    BY <1>3, <1>5, AlertAssumption DEF Told
  <2>4. Wanted(next, now) => now < next.lastSentAt + ResendDelay
    BY <1>1, <2>3, FiringStatesAre DEF Wanted, NeedsSending
  <2>5. QED
    BY <2>1, <2>2, <2>4 DEF NotDue
<1>13. ~send /\ lost = "none" => Agrees(cache', am, now)
  <2> SUFFICES ASSUME ~send, lost = "none" PROVE Agrees(cache', am, now)
    OBVIOUS
  <2>1. cache' = IF removed THEN NoInstance ELSE next
    BY <1>2, <1>6
  <2>2. Agrees(cache, am, now)
    BY <1>1 DEF DInv, KnownOutside, Quiescent
  <2>3. next.state = "Normal" => next.resolvedAt # now
    BY <1>1, <1>3, <1>5 DEF NeedsSending, Told, NoTime
  <2> HIDE DEF send
  <2>4. Mapped /\ ~Firing(next) => \A name \in Names : am[name] <= now
    <3>1. Mapped /\ ~Firing(next) => ~Firing(old)
      BY <2>3, <1>5 DEF Told
    <3>2. QED
      BY <3>1, <2>2, <1>3 DEF Agrees
  <2>5. CASE removed
    <3>1. ~Firing(next)
      BY <2>5, <1>5, FiringStatesAre
    <3>2. QED
      BY <3>1, <2>1, <2>4, <2>5, <1>7 DEF Agrees
  <2>6. CASE ~removed
    <3>1. ASSUME Firing(next), next.startsAt <= next.lastSentAt
          PROVE  am[NameOf(next.state)] > SentUntil(next)
      <4>1. next.state = old.state /\ next.startsAt = old.startsAt /\ next.lastSentAt = old.lastSentAt
        BY <3>1, <1>1, <1>3, <1>5 DEF Told
      <4>2. Firing(old) /\ old = cache
        BY <4>1, <3>1, <1>3 DEF Firing
      <4>3. QED
        BY <4>1, <4>2, <3>1, <2>2 DEF Agrees, SentUntil
    <3>2. cache' = next
      BY <2>1, <2>6
    <3>3. QED
      BY <3>1, <3>2, <2>4 DEF Agrees
  <2>7. QED
    BY <2>5, <2>6
<1>14. ~send => Fits(message', cache', now, now)
  BY <1>2 DEF Fits
<1>15. QED
  BY <1>9, <1>10, <1>11, <1>12, <1>13, <1>14

-----------------------------------------------------------------------------
(* Every step keeps the invariant *)

LEMMA NothingToKnow ==
    /\ ~Firing(NoInstance)
    /\ \A t, u : Regular(NoInstance, t, u) /\ NotDue(NoInstance, t, u)
<1>1. NoInstance.state = "none"
  BY DEF NoInstance
<1>2. ~Firing(NoInstance)
  BY <1>1, FiringStatesAre
<1>3. \A u : ~Wanted(NoInstance, u)
  BY <1>1, <1>2 DEF Wanted
<1>4. QED
  BY <1>2, <1>3 DEF Regular, NotDue

\* What is true of an instance stays true as time passes.
LEMMA LaterStill ==
    ASSUME NEW s, NEW t \in Nat, NEW u \in Nat, NEW t2 \in Nat, NEW u2 \in Nat,
           InstanceOK(s, u), t <= t2, u <= u2
    PROVE  /\ Regular(s, t, u) => Regular(s, t2, u2)
           /\ NotDue(s, t2, u) => NotDue(s, t, u2)
<1>1. CASE s = NoInstance
  BY <1>1, NothingToKnow
<1>2. CASE s \in UpTo(u)
  <2>1. /\ s.evaluatedAt \in Nat /\ s.lastSentAt \in Nat /\ s.endsAt \in Nat /\ s.resolvedAt \in Nat
        /\ ResendDelay \in Nat /\ ResolvedRetention \in Nat
    BY <1>2, UpToFields, CycleFact, AlertAssumption
  <2>2. Regular(s, t, u) => Regular(s, t2, u2)
    BY <2>1 DEF Regular
  <2>3. Wanted(s, u2) => Wanted(s, u)
    BY <2>1 DEF Wanted
  <2>4. QED
    BY <2>1, <2>2, <2>3 DEF NotDue
<1>3. QED
  BY <1>1, <1>2 DEF InstanceOK

LEMMA AgreesLater ==
    ASSUME NEW s, NEW a \in [Names -> 0..Latest], NEW u \in Nat, NEW u2 \in Nat, u <= u2, Agrees(s, a, u)
    PROVE  Agrees(s, a, u2)
<1>1. Latest \in Nat
  BY AlertAssumption, CycleFact DEF Latest
<1>2. \A name \in Names : a[name] \in Nat
  BY <1>1
<1>3. QED
  BY <1>2 DEF Agrees

LEMMA InitDInv == Init => DInv
<1> SUFFICES ASSUME Init PROVE DInv
  OBVIOUS
<1>1. /\ cache = NoInstance /\ db = NoInstance /\ pc = "idle" /\ message = NoMessage
      /\ started = 0 /\ finished = 0 /\ now = 1 /\ behind = FALSE /\ lost = "none"
  BY DEF Init
<1>2. \A name \in Names : am[name] = 0
  BY DEF Init, NoTime
<1>3. Agrees(NoInstance, am, now)
  BY <1>1, <1>2, NothingToKnow DEF Agrees
<1>4. InstancesAreRegular /\ Fits(message, cache, started, now)
  BY <1>1, NothingToKnow DEF InstancesAreRegular, Fits
<1>5. ClocksAgree /\ ShapeOK /\ OneName
  BY <1>1, <1>2, AlertAssumption DEF ClocksAgree, ShapeOK, OneName, NoTime
<1>6. SentInTime /\ KnownOutside
  BY <1>1, <1>3, NothingToKnow DEF SentInTime, KnownOutside, Quiescent, Behindhand
<1>7. QED
  BY <1>4, <1>5, <1>6 DEF DInv

\* The invariant after a step, said of the values after it; the rule stays.
QuiescentAfter == pc' \in {"idle", "saving", "sending"} /\ message' = NoMessage
BehindhandAfter == pc' = "down" \/ (pc' = "saving" /\ ~behind')

LEMMA After ==
    ASSUME UNCHANGED rule,
           Regular(cache', started', now'), Regular(db', started', now'),
           finished' <= started' /\ now' <= finished' + MaxGap,
           pc' \in {"idle", "down"} => message' = NoMessage,
           pc' = "down" => ~behind',
           pc' \in {"idle", "sending"} /\ ~behind' => cache' = db',
           Mapped => \A name \in Names \ {"rule"} : am'[name] = NoTime,
           Fits(message', cache', started', now'),
           lost' # "state" =>
              /\ QuiescentAfter => NotDue(cache', IF pc' = "idle" THEN finished' ELSE started', now')
              /\ BehindhandAfter => NotDue(db', finished', now'),
           lost' = "none" =>
              /\ QuiescentAfter => Agrees(cache', am', now')
              /\ BehindhandAfter => Agrees(db', am', now')
    PROVE  DInv'
<1>1. InstancesAreRegular'
  BY DEF InstancesAreRegular, Regular, Mapped, Firing
<1>2. ClocksAgree'
  BY DEF ClocksAgree
<1>3. ShapeOK'
  BY DEF ShapeOK
<1>4. OneName'
  BY DEF OneName, Mapped
<1>5. Fits(message, cache, started, now)'
  BY DEF Fits, Mapped, Firing, SentUntil
<1>6. SentInTime'
  BY DEF SentInTime, NotDue, Wanted, Firing, Quiescent, Behindhand, QuiescentAfter,
         BehindhandAfter, LastEvaluation
<1>7. KnownOutside'
  BY DEF KnownOutside, Agrees, Mapped, Firing, SentUntil, Quiescent, Behindhand, QuiescentAfter,
         BehindhandAfter
<1>8. QED
  BY <1>1, <1>2, <1>3, <1>4, <1>5, <1>6, <1>7 DEF DInv

\* What the cases below have in common.
LEMMA Before ==
    ASSUME IInv, DInv
    PROVE  /\ now \in Nat /\ started \in Nat /\ finished \in Nat /\ MaxGap \in Nat
           /\ finished <= started /\ started <= now /\ now <= finished + MaxGap
           /\ InstanceOK(cache, now) /\ InstanceOK(db, now) /\ am \in [Names -> 0..Latest]
           /\ Regular(cache, started, now) /\ Regular(db, started, now)
           /\ Fits(message, cache, started, now)
           /\ Mapped => \A name \in Names \ {"rule"} : am[name] = NoTime
           /\ lost # "state" => /\ Quiescent => NotDue(cache, LastEvaluation, now)
                                /\ Behindhand => NotDue(db, finished, now)
           /\ lost = "none" => /\ Quiescent => Agrees(cache, am, now)
                               /\ Behindhand => Agrees(db, am, now)
BY AlertAssumption DEF IInv, DInv, InstancesAreRegular, ClocksAgree, OneName, SentInTime, KnownOutside

LEMMA ProcessEvalResultsKeeps ==
    ASSUME IInv, DInv, NEW result \in Results, ProcessEvalResults(result) PROVE DInv'
<1>1. /\ UNCHANGED <<rule, now, db, am, finished, behind, lost>>
      /\ started' = now /\ pc = "idle" /\ pc' = "saving" /\ message = NoMessage
      /\ ~behind => cache = db
  BY DEF ProcessEvalResults, DInv, ShapeOK
<1>2. Regular(db, now, now)
  BY Before, LaterStill
<1>3. /\ lost # "state" => NotDue(cache, finished, now)
      /\ lost = "none" => Agrees(cache, am, now)
  BY <1>1, Before DEF Quiescent, LastEvaluation
<1>4. QED
  <2>1. /\ Regular(cache', started', now') /\ Regular(db', started', now')
        /\ Fits(message', cache', started', now')
    BY <1>1, <1>2, EvaluationDelivers
  <2>2. lost' # "state" =>
              /\ QuiescentAfter => NotDue(cache', IF pc' = "idle" THEN finished' ELSE started', now')
              /\ BehindhandAfter => NotDue(db', finished', now')
    BY <1>1, <1>3, EvaluationDelivers DEF QuiescentAfter, BehindhandAfter
  <2>3. lost' = "none" =>
              /\ QuiescentAfter => Agrees(cache', am', now')
              /\ BehindhandAfter => Agrees(db', am', now')
    BY <1>1, <1>3, EvaluationDelivers DEF QuiescentAfter, BehindhandAfter
  <2>4. /\ finished' <= started' /\ now' <= finished' + MaxGap
        /\ Mapped => \A name \in Names \ {"rule"} : am'[name] = NoTime
    BY <1>1, Before
  <2>5. QED
    BY <1>1, <2>1, <2>2, <2>3, <2>4, After

\* Steps that save the cache or fail to.
LEMMA SavingKeeps ==
    ASSUME IInv, DInv, Sync \/ SyncError PROVE DInv'
<1>1. /\ UNCHANGED <<rule, now, cache, message, am, started, finished, lost>>
      /\ pc = "saving" /\ pc' = "sending"
      /\ (db' = cache /\ ~behind') \/ (db' = db /\ behind')
  BY DEF Sync, SyncError
<1>2. Regular(cache', started', now') /\ Regular(db', started', now')
  BY <1>1, Before
<1>3. Fits(message', cache', started', now')
  BY <1>1, Before
<1>4. /\ lost' # "state" =>
              /\ QuiescentAfter => NotDue(cache', IF pc' = "idle" THEN finished' ELSE started', now')
              /\ BehindhandAfter => NotDue(db', finished', now')
      /\ lost' = "none" =>
              /\ QuiescentAfter => Agrees(cache', am', now')
              /\ BehindhandAfter => Agrees(db', am', now')
  BY <1>1, Before DEF QuiescentAfter, BehindhandAfter, Quiescent, LastEvaluation
<1>5. /\ finished' <= started' /\ now' <= finished' + MaxGap
      /\ Mapped => \A name \in Names \ {"rule"} : am'[name] = NoTime
  BY <1>1, Before
<1>6. QED
  BY <1>1, <1>2, <1>3, <1>4, <1>5, After

\* A message arrives: the Alertmanager knows what fits the instance.
LEMMA SendKeeps ==
    ASSUME IInv, DInv, Send PROVE DInv'
<1>1. /\ UNCHANGED <<rule, now, cache, db, started, behind>>
      /\ pc = "sending" /\ pc' = "idle" /\ message' = NoMessage /\ finished' = started
      /\ ~behind => cache = db
  BY DEF Send, DInv, ShapeOK
<1>2. /\ Regular(cache', started', now') /\ Regular(db', started', now')
      /\ Fits(message', cache', started', now')
      /\ finished' <= started' /\ now' <= finished' + MaxGap
  BY <1>1, Before DEF Fits
<1>3. CASE message = NoMessage
  <2>1. UNCHANGED <<am, lost>>
    BY <1>3 DEF Send
  <2>2. /\ lost' # "state" => NotDue(cache', finished', now')
        /\ lost' = "none" => Agrees(cache', am', now')
    BY <1>1, <1>3, <2>1, Before DEF Quiescent, LastEvaluation
  <2>3. QED
    BY <1>1, <1>2, <2>1, <2>2, Before, After DEF QuiescentAfter, BehindhandAfter
<1>4. CASE message # NoMessage
  <2>1. am' = [am EXCEPT ![message.name] = message.endsAt]
    BY <1>4 DEF Send
  <2>2. message.name \in Names /\ am \in [Names -> 0..Latest]
    BY <1>4 DEF IInv
  <2>3. \A name \in Names : am'[name] = IF name = message.name THEN message.endsAt ELSE am[name]
    <3> HIDE DEF Names, Latest
    <3>1. QED
      BY <2>1, <2>2
  <2>4. /\ cache # NoInstance => cache.lastSentAt = started
        /\ Firing(cache) => message.name = NameOf(cache.state) /\ message.endsAt > SentUntil(cache)
        /\ ~Firing(cache) => message.endsAt <= now
        /\ Mapped => message.name = "rule"
    BY <1>4, Before DEF Fits
  <2>5. Mapped => \A name \in Names \ {"rule"} : am'[name] = NoTime
    BY <2>3, <2>4, Before
  <2>6. Agrees(cache, am', now)
    <3>1. Firing(cache) => am'[NameOf(cache.state)] > SentUntil(cache)
      BY <2>2, <2>3, <2>4
    <3>2. ~Firing(cache) /\ Mapped => \A name \in Names : am'[name] <= now
      <4>1. now \in Nat
        BY Before
      <4>2. QED
        BY <4>1, <2>2, <2>3, <2>4, <2>5 DEF NoTime
    <3>3. QED
      BY <3>1, <3>2 DEF Agrees
  <2>7. NotDue(cache, started, now)
    <3>1. CASE cache = NoInstance
      BY <3>1, NothingToKnow
    <3>2. CASE cache # NoInstance
      BY <3>2, <2>4, Before, AlertAssumption DEF NotDue
    <3>3. QED
      BY <3>1, <3>2
  <2>8. QED
    BY <1>1, <1>2, <2>5, <2>6, <2>7, After DEF QuiescentAfter, BehindhandAfter
<1>5. QED
  BY <1>3, <1>4

LEMMA SendLostKeeps ==
    ASSUME IInv, DInv, SendLost PROVE DInv'
<1>1. /\ UNCHANGED <<rule, now, cache, db, am, started, behind>>
      /\ pc = "sending" /\ pc' = "idle" /\ message # NoMessage /\ message' = NoMessage
      /\ finished' = started /\ lost' = "message"
      /\ ~behind => cache = db
  BY DEF SendLost, DInv, ShapeOK
<1>2. NotDue(cache, started, now)
  <2>1. CASE cache = NoInstance
    BY <2>1, NothingToKnow
  <2>2. CASE cache # NoInstance
    BY <1>1, <2>2, Before, AlertAssumption DEF NotDue, Fits
  <2>3. QED
    BY <2>1, <2>2
<1>3. QED
  BY <1>1, <1>2, Before, After DEF QuiescentAfter, BehindhandAfter, Fits

\* The instance is gone, and its resolved message under way.
LEMMA DeleteKeeps ==
    ASSUME IInv, DInv, DeleteStateByRuleUID PROVE DInv'
<1>1. /\ UNCHANGED <<rule, now, am, started, finished, lost>>
      /\ pc = "idle" /\ pc' = "sending" /\ cache # NoInstance /\ cache' = NoInstance
      /\ (db' = NoInstance /\ ~behind') \/ (db' = db /\ behind')
      /\ message' = IF ShouldBeResolved(cache)
                    THEN [name |-> NameOf(cache.state), endsAt |-> now] ELSE NoMessage
      /\ message = NoMessage
  BY DEF DeleteStateByRuleUID, DInv, ShapeOK
<1>2. Regular(cache', started', now') /\ Regular(db', started', now')
  BY <1>1, Before, NothingToKnow
<1>3. Fits(message', cache', started', now')
  <2>1. CASE ShouldBeResolved(cache)
    <3>1. message'.name = NameOf(cache.state) /\ message'.endsAt = now
      BY <1>1, <2>1
    <3>2. Mapped => message'.name = "rule"
      BY <3>1, <1>1, Before DEF Regular, NameOf
    <3>3. QED
      BY <3>1, <3>2, <1>1, Before, NothingToKnow DEF Fits
  <2>2. CASE ~ShouldBeResolved(cache)
    BY <1>1, <2>2 DEF Fits
  <2>3. QED
    BY <2>1, <2>2
<1>4. message' = NoMessage /\ lost = "none" => Agrees(NoInstance, am, now)
  <2> SUFFICES ASSUME message' = NoMessage, lost = "none" PROVE Agrees(NoInstance, am, now)
    OBVIOUS
  <2>1. ~Firing(cache)
    <3> DEFINE sent == [name |-> NameOf(cache.state), endsAt |-> now]
    <3>1. sent.name \in Names
      BY DEF NameOf, Names
    <3>2. NoMessage.name \notin Names
      BY DEF NoMessage, Names
    <3>3. sent # NoMessage
      BY <3>1, <3>2
    <3>4. QED
      BY <3>3, <1>1 DEF Firing, ShouldBeResolved
  <2>2. Agrees(cache, am, now)
    BY <1>1, Before DEF Quiescent
  <2>3. QED
    BY <2>1, <2>2, NothingToKnow DEF Agrees
<1>5. QED
  BY <1>1, <1>2, <1>3, <1>4, Before, After, NothingToKnow DEF QuiescentAfter, BehindhandAfter

\* The process dies: the database holds the instance of the last evaluation
\* that finished, or that of the present one, if nothing was to be sent of it.
LEMMA CrashKeeps ==
    ASSUME IInv, DInv, Crash PROVE DInv'
<1>1. /\ UNCHANGED <<rule, now, db, am, started, finished>>
      /\ pc # "down" /\ pc' = "down" /\ cache' = NoInstance /\ message' = NoMessage /\ ~behind'
      /\ lost' = IF behind THEN "state"
                 ELSE IF pc = "sending" /\ message # NoMessage THEN "message" ELSE lost
      /\ pc \in {"idle", "saving", "sending"}
      /\ pc \in {"idle", "sending"} /\ ~behind => cache = db
      /\ pc \in {"idle", "down"} => message = NoMessage
  BY DEF Crash, DInv, ShapeOK, IInv
<1>2. lost' # "state" => NotDue(db, finished, now)
  <2> SUFFICES ASSUME lost' # "state" PROVE NotDue(db, finished, now)
    OBVIOUS
  <2>1. ~behind
    BY <1>1
  <2>2. CASE pc = "saving"
    BY <1>1, <2>1, <2>2, Before DEF Behindhand
  <2>3. CASE pc = "idle"
    BY <1>1, <2>1, <2>3, Before DEF Quiescent, LastEvaluation
  <2>4. CASE pc = "sending" /\ message = NoMessage
    <3>1. NotDue(db, started, now)
      BY <1>1, <2>1, <2>4, Before DEF Quiescent, LastEvaluation
    <3>2. now <= now /\ finished <= started /\ now \in Nat /\ InstanceOK(db, now)
      BY Before
    <3>3. QED
      BY <3>1, <3>2, Before, LaterStill
  <2>5. CASE pc = "sending" /\ message # NoMessage
    <3>1. CASE db = NoInstance
      BY <3>1, NothingToKnow
    <3>2. CASE db # NoInstance
      <4>1. db.lastSentAt = started
        BY <1>1, <2>1, <2>5, <3>2, Before DEF Fits
      <4>2. finished < started + ResendDelay
        BY Before, AlertAssumption
      <4>3. QED
        BY <4>1, <4>2 DEF NotDue
    <3>3. QED
      BY <3>1, <3>2
  <2>6. QED
    BY <1>1, <2>2, <2>3, <2>4, <2>5
<1>3. lost' = "none" => Agrees(db, am, now)
  <2> SUFFICES ASSUME lost' = "none" PROVE Agrees(db, am, now)
    OBVIOUS
  <2>1. ~behind /\ lost = "none" /\ ~(pc = "sending" /\ message # NoMessage)
    BY <1>1
  <2>2. CASE pc = "saving"
    BY <1>1, <2>1, <2>2, Before DEF Behindhand
  <2>3. CASE pc # "saving"
    BY <1>1, <2>1, <2>3, Before DEF Quiescent
  <2>4. QED
    BY <2>2, <2>3
<1>4. QED
  BY <1>1, <1>2, <1>3, Before, After, NothingToKnow DEF QuiescentAfter, BehindhandAfter, Fits

LEMMA RestartKeeps ==
    ASSUME IInv, DInv, Restart PROVE DInv'
<1>1. /\ UNCHANGED <<rule, now, db, message, am, started, finished, behind, lost>>
      /\ pc = "down" /\ pc' = "idle" /\ cache' = db /\ message = NoMessage
  BY DEF Restart, DInv, ShapeOK
<1>2. /\ lost # "state" => NotDue(db, finished, now)
      /\ lost = "none" => Agrees(db, am, now)
  BY <1>1, Before DEF Behindhand
<1>3. QED
  BY <1>1, <1>2, Before, After DEF QuiescentAfter, BehindhandAfter, Fits

LEMMA EvaluateNothingKeeps ==
    ASSUME IInv, DInv, EvaluateNothing PROVE DInv'
<1>1. /\ UNCHANGED <<rule, now, pc, cache, db, message, am, behind, lost>>
      /\ pc = "idle" /\ cache = NoInstance /\ started' = now /\ finished' = now
      /\ message = NoMessage /\ (~behind => cache = db)
  BY DEF EvaluateNothing, DInv, ShapeOK
<1>2. Regular(db, now, now)
  BY Before, LaterStill
<1>3. lost = "none" => Agrees(NoInstance, am, now)
  BY <1>1, Before DEF Quiescent
<1>4. MaxGap \in Nat /\ now \in Nat
  BY Before
<1>5. QED
  BY <1>1, <1>2, <1>3, <1>4, Before, After, NothingToKnow DEF QuiescentAfter, BehindhandAfter, Fits

LEMMA TickKeeps ==
    ASSUME IInv, DInv, Tick PROVE DInv'
<1>1. /\ UNCHANGED <<rule, pc, cache, db, message, am, started, finished, behind, lost>>
      /\ now' = now + 1 /\ now - finished < MaxGap
  BY DEF Tick
<1>2. now' \in Nat /\ now <= now' /\ now' <= finished' + MaxGap
  BY <1>1, Before
<1>3. Regular(cache', started', now') /\ Regular(db', started', now')
  BY <1>1, <1>2, Before, LaterStill
<1>4. /\ pc' \in {"idle", "down"} => message' = NoMessage
      /\ pc' = "down" => ~behind'
      /\ pc' \in {"idle", "sending"} /\ ~behind' => cache' = db'
  BY <1>1 DEF DInv, ShapeOK
<1>5. Fits(message', cache', started', now')
  <2>1. message # NoMessage => message.endsAt \in Nat
    BY AlertAssumption, CycleFact DEF IInv, Latest
  <2>2. QED
    BY <1>1, <1>2, <2>1, Before DEF Fits
<1>6. lost' # "state" =>
         /\ QuiescentAfter => NotDue(cache', IF pc' = "idle" THEN finished' ELSE started', now')
         /\ BehindhandAfter => NotDue(db', finished', now')
  <2>1. ASSUME NEW t \in Nat
        PROVE  /\ NotDue(cache, t, now) => NotDue(cache, t, now')
               /\ NotDue(db, t, now) => NotDue(db, t, now')
    <3>1. t <= t /\ now \in Nat
      BY Before
    <3>2. NotDue(cache, t, now) => NotDue(cache, t, now')
      BY <3>1, <1>2, Before, LaterStill
    <3>3. NotDue(db, t, now) => NotDue(db, t, now')
      BY <3>1, <1>2, Before, LaterStill
    <3>4. QED
      BY <3>2, <3>3
  <2>2. QED
    BY <1>1, <2>1, Before DEF QuiescentAfter, BehindhandAfter, Quiescent, Behindhand,
       LastEvaluation
<1>7. lost' = "none" =>
         /\ QuiescentAfter => Agrees(cache', am', now')
         /\ BehindhandAfter => Agrees(db', am', now')
  BY <1>1, <1>2, Before, AgreesLater DEF QuiescentAfter, BehindhandAfter, Quiescent, Behindhand
<1>8. QED
  BY <1>1, <1>2, <1>3, <1>4, <1>5, <1>6, <1>7, Before, After

LEMMA NextDInv == IInv /\ DInv /\ [Next]_vars => DInv'
<1> SUFFICES ASSUME IInv, DInv, [Next]_vars PROVE DInv'
  OBVIOUS
<1>1. CASE UNCHANGED vars
  <2>1. /\ UNCHANGED <<rule, now, pc, cache, db, message, am, started, finished, behind, lost>>
        /\ ShapeOK
    BY <1>1 DEF vars, DInv
  <2>2. QED
    BY <2>1, Before, After DEF ShapeOK, QuiescentAfter, BehindhandAfter, Quiescent, Behindhand,
       LastEvaluation
<1>2. CASE Next
  BY <1>2, ProcessEvalResultsKeeps, EvaluateNothingKeeps, SavingKeeps, SendKeeps, SendLostKeeps,
     DeleteKeeps, CrashKeeps, RestartKeeps, TickKeeps DEF Next
<1>3. QED
  BY <1>1, <1>2

LEMMA Delivery == Spec => [](IInv /\ DInv)
<1>1. Spec => []IInv
  BY Invariance
<1>2. QED
  BY <1>1, InitDInv, NextDInv, PTL DEF Spec

-----------------------------------------------------------------------------
(* The theorems *)

\* A series may be missing, an evaluation late, and a message held back for
\* ResendDelay; together they do not take longer than an alert lasts.
Timely == \A r \in Rules : r.missingEvals + ResendDelay + MaxGap <= 4 * Cycle + 1

LEMMA TimelyIsKnown ==
    ASSUME Timely, IInv, DInv, pc = "idle", lost = "none", Firing(cache)
    PROVE  Known(cache)
<1>1. Agrees(cache, am, now) /\ NotDue(cache, finished, now)
  BY Before DEF Quiescent, LastEvaluation, DInv, ShapeOK
<1>2. cache # NoInstance
  BY NothingToKnow
<1>3. cache.lastSentAt \in Nat /\ cache.startsAt \in Nat /\ cache.state \in EvalStates
  BY <1>2, Before, UpToFields DEF InstanceOK
<1>4. finished < cache.lastSentAt + ResendDelay
  BY <1>1 DEF NotDue, Wanted
<1>5. CASE cache.lastSentAt < cache.startsAt
  BY <1>4, <1>5 DEF Known
<1>6. CASE cache.startsAt <= cache.lastSentAt
  <2>1. am[NameOf(cache.state)] > SentUntil(cache)
    BY <1>1, <1>6 DEF Agrees
  <2>2. am[NameOf(cache.state)] \in Nat
    <3>1. NameOf(cache.state) \in Names
      BY DEF NameOf, Names
    <3>2. Latest \in Nat
      BY AlertAssumption, CycleFact DEF Latest
    <3>3. QED
      BY <3>1, <3>2, Before
  <2>3. rule.missingEvals \in Nat /\ rule.missingEvals + ResendDelay + MaxGap <= 4 * Cycle + 1
    BY RuleFacts DEF Timely, IInv
  <2>4. /\ now \in Nat /\ finished \in Nat /\ MaxGap \in Nat /\ ResendDelay \in Nat /\ Cycle \in Nat
        /\ now <= finished + MaxGap
    BY Before, CycleFact, AlertAssumption
  <2>5. SentUntil(cache) >= now
    BY <1>3, <1>4, <2>3, <2>4 DEF SentUntil
  <2>6. SentUntil(cache) \in Int
    BY <1>3, <2>3, <2>4 DEF SentUntil
  <2>7. QED
    BY <2>1, <2>2, <2>4, <2>5, <2>6 DEF Known, Fires
<1>7. QED
  BY <1>3, <1>5, <1>6

\* An alert that fires is known to the Alertmanager and does not expire there,
\* provided that the intervals a series may be missing for, the ResendDelay and
\* the longest gap between evaluations fit into the four cycles an alert lasts
\* (nextEndsTime).  The condition is tight: the Recovering instance of a series
\* that may be missing for one interval more does expire.
THEOREM FiringStaysKnown == Timely => (Spec => []FiringIsKnown)
<1> SUFFICES ASSUME Timely PROVE Spec => []FiringIsKnown
  OBVIOUS
<1>1. IInv /\ DInv => FiringIsKnown
  BY TimelyIsKnown DEF FiringIsKnown, Firing
<1>2. QED
  BY <1>1, Delivery, PTL

\* What does not fire any more does not fire in the Alertmanager, for any rule
\* that maps errors and missing data, whatever was saved, lost and restarted.
THEOREM ResolvedStaysKnown == Spec => []ResolvedIsKnown
<1>1. IInv /\ DInv => ResolvedIsKnown
  <2> SUFFICES ASSUME IInv, DInv, pc = "idle", lost = "none", ~Firing(cache), Mapped,
                      NEW name \in Names
               PROVE  ~Fires(name)
    BY DEF ResolvedIsKnown, Firing, Mapped
  <2>1. am[name] <= now
    BY Before DEF Quiescent, DInv, ShapeOK, Agrees
  <2>2. am[name] \in Nat /\ now \in Nat
    BY Before, AlertAssumption, CycleFact DEF Latest
  <2>3. QED
    BY <2>1, <2>2 DEF Fires
<1>2. QED
  BY <1>1, Delivery, PTL

\* A message that was lost is sent again as soon as ResendDelay allows, for any
\* number of lost messages and crashes (NeedsSending).
THEOREM LostMessagesAreMadeUp == Spec => []LostMessageIsMadeUp
<1>1. IInv /\ DInv => LostMessageIsMadeUp
  <2> SUFFICES ASSUME IInv, DInv, pc = "idle", lost = "message", Wanted(cache, now)
               PROVE  now < cache.lastSentAt + ResendDelay + MaxGap
    BY DEF LostMessageIsMadeUp, Wanted, Firing
  <2>1. finished < cache.lastSentAt + ResendDelay
    BY Before DEF Quiescent, DInv, ShapeOK, NotDue, LastEvaluation
  <2>2. cache.lastSentAt \in Nat
    <3>1. cache # NoInstance
      BY NothingToKnow DEF Wanted, NoInstance
    <3>2. QED
      BY <3>1, Before, UpToFields DEF InstanceOK
  <2>3. now <= finished + MaxGap /\ now \in Nat /\ finished \in Nat /\ MaxGap \in Nat /\ ResendDelay \in Nat
    BY Before, AlertAssumption
  <2>4. QED
    BY <2>1, <2>2, <2>3
<1>2. QED
  BY <1>1, Delivery, PTL
=============================================================================
