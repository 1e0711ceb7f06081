----------------------------- MODULE AlertState -----------------------------
(***************************************************************************)
(* The state of one alert instance (pkg/services/ngalert/state): what each *)
(* evaluation makes of it, what is saved to the database, what is sent to  *)
(* the Alertmanager, and what a restart brings back.  The rule routine     *)
(* processes one evaluation at a time: it computes the transition in the   *)
(* cache, saves it, then sends; the process may die between any two of     *)
(* these steps, a save may fail and a message may get lost.                *)
(*                                                                         *)
(* Time is counted in intervals of the rule, from 1; 0 stands for nil.  An *)
(* evaluation may take longer than an interval, or be dropped.             *)
(***************************************************************************)
EXTENDS Integers, FiniteSets

CONSTANTS
    Rules,             \* the settings of the rule, one of which is chosen
    ResendDelay,       \* state manager's ResendDelay
    ResolvedRetention, \* resolved_alert_retention
    MaxGap,            \* intervals from one finished evaluation to the next
    MaxTime,           \* bound: the last interval
    MaxFaults          \* bound: crashes, failed saves and lost messages

\* What an evaluation returns for the instance; "missing": nothing.
Results == {"Normal", "Alerting", "Error", "NoData", "missing"}

ASSUME AlertAssumption ==
    /\ Rules \subseteq [for : Nat, keepFiringFor : Nat, missingEvals : Nat \ {0},
                        execErrState : {"Alerting", "Error", "OK", "KeepLast"},
                        noDataState : {"Alerting", "NoData", "OK", "KeepLast"}]
    /\ {ResendDelay, MaxGap, MaxTime} \subseteq Nat \ {0}
    /\ {ResolvedRetention, MaxFaults} \subseteq Nat

VARIABLES
    rule,     \* the settings of the rule
    now,      \* the present interval
    pc,       \* of the rule routine: "idle", "saving", "sending", "down"
    cache,    \* the instance in the state manager's cache
    db,       \* the instance in the alert_instance table
    message,  \* the alert about to be sent, or NoMessage
    am,       \* alert name -> EndsAt of the last alert the Alertmanager got
    started,  \* the time of the last evaluation
    finished, \* the time of the last evaluation that was sent
    behind,   \* did the last save fail (history)
    lost,     \* what was lost on the way and not made up for yet (history)
    faults    \* crashes, failed saves and lost messages so far (at most MaxFaults)

vars == <<rule, now, pc, cache, db, message, am, started, finished, behind, lost, faults>>

NoTime == 0
NoInstance == [state |-> "none"]
NoMessage == [name |-> "none"]

EvalStates == {"Normal", "Pending", "Alerting", "Recovering", "Error", "NoData"}
Names == {"rule", "DatasourceError", "DatasourceNoData"}

\* The states the Alertmanager is told about as firing.
FiringStates == {"Alerting", "Recovering", "Error", "NoData"}

\* max(interval, ResendDelay)
Cycle == IF ResendDelay > 1 THEN ResendDelay ELSE 1

\* Mutants: an alert expires after two cycles, or after five.
MutEndsTimeTwoCycles(t) == t + 2 * Cycle
MutEndsTimeFiveCycles(t) == t + 5 * Cycle

\* nextEndsTime
EndsTime(t) == t + 4 * Cycle
Latest == MaxTime + 4 * Cycle

\* breachedSince, quietSince: since when every saved evaluation found the
\* condition true, or false (history).
Instances ==
    [state : EvalStates, startsAt : 0..MaxTime, endsAt : 0..Latest,
     resolvedAt : 0..MaxTime, lastSentAt : 0..MaxTime, evaluatedAt : 0..MaxTime,
     breachedSince : 0..MaxTime, quietSince : 0..MaxTime]

TypeOK ==
    /\ rule \in Rules
    /\ now \in 1..MaxTime
    /\ pc \in {"idle", "saving", "sending", "down"}
    /\ cache \in Instances \cup {NoInstance}
    /\ db \in Instances \cup {NoInstance}
    /\ message \in [name : Names, endsAt : 0..Latest] \cup {NoMessage}
    /\ am \in [Names -> 0..Latest]
    /\ started \in 0..MaxTime
    /\ finished \in 0..MaxTime
    /\ behind \in BOOLEAN
    /\ lost \in {"none", "message", "state"}
    /\ faults \in 0..MaxFaults

Init ==
    /\ rule \in Rules
    /\ now = 1
    /\ pc = "idle"
    /\ cache = NoInstance
    /\ db = NoInstance
    /\ message = NoMessage
    /\ am = [n \in Names |-> NoTime]
    /\ started = 0
    /\ finished = 0
    /\ behind = FALSE
    /\ lost = "none"
    /\ faults = 0

-----------------------------------------------------------------------------
(* State transitions (state.go).                                            *)

\* SetNormal, SetPending, SetAlerting, ...
Enter(s, state, t, endsAt) == [s EXCEPT !.state = state, !.startsAt = t, !.endsAt = endsAt]
Maintain(s, t) == [s EXCEPT !.endsAt = EndsTime(t)]

\* Mutant: the time in Recovering is not looked at.
MutResultNormalAtOnce(s, t) ==
    CASE s.state = "Normal" -> s
      [] s.state = "Alerting" /\ rule.keepFiringFor > 0 -> Enter(s, "Recovering", t, EndsTime(t))
      [] OTHER -> Enter(s, "Normal", t, t)

ResultNormal(s, t) ==
    IF s.state = "Normal" THEN s
    ELSE IF s.state = "Recovering" /\ t - s.startsAt < rule.keepFiringFor THEN Maintain(s, t)
    ELSE IF s.state = "Alerting" /\ rule.keepFiringFor > 0
         THEN Enter(s, "Recovering", t, EndsTime(t))
    ELSE Enter(s, "Normal", t, t)

\* Mutant: a new Pending state keeps the start of the state before it.
MutResultAlertingOldStart(s, t) ==
    CASE s.state = "Alerting" -> Maintain(s, t)
      [] s.state = "Pending" /\ t - s.startsAt < rule.for -> s
      [] s.state \notin {"Alerting", "Pending", "Recovering"} /\ rule.for > 0 ->
           Enter(s, "Pending", s.startsAt, EndsTime(t))
      [] OTHER -> Enter(s, "Alerting", t, EndsTime(t))

ResultAlerting(s, t) ==
    IF s.state = "Alerting" THEN Maintain(s, t)
    ELSE IF s.state = "Pending" /\ t - s.startsAt < rule.for THEN s
    ELSE IF s.state \notin {"Pending", "Recovering"} /\ rule.for > 0
         THEN Enter(s, "Pending", t, EndsTime(t))
    ELSE Enter(s, "Alerting", t, EndsTime(t))

ResultKeepLast(s, t) ==
    IF s.state \in {"Alerting", "Pending"} THEN ResultAlerting(s, t) ELSE ResultNormal(s, t)

\* resultError and resultNoData: a state of their own, unless the rule maps it.
ResultMapped(s, t, mapping) ==
    IF mapping = "Alerting" THEN ResultAlerting(s, t)
    ELSE IF mapping = "OK" THEN ResultNormal(s, t)
    ELSE IF mapping = "KeepLast" THEN ResultKeepLast(s, t)
    ELSE IF s.state = mapping THEN Maintain(s, t)
    ELSE Enter(s, mapping, t, EndsTime(t))

Mapping(result) ==
    IF result = "Error" THEN rule.execErrState
    ELSE IF result = "NoData" THEN rule.noDataState
    ELSE IF result = "Normal" THEN "OK" ELSE "Alerting"

\* What the evaluation says of the condition.
Observed(s, t, mapping) ==
    LET since(time) == IF time = NoTime THEN t ELSE time
    IN IF mapping = "Alerting"
       THEN [s EXCEPT !.breachedSince = since(@), !.quietSince = NoTime]
       ELSE IF mapping = "OK"
       THEN [s EXCEPT !.quietSince = since(@), !.breachedSince = NoTime]
       ELSE IF mapping = "KeepLast" THEN s
       ELSE [s EXCEPT !.breachedSince = NoTime, !.quietSince = NoTime]

\* Mutant: only Alerting states are resolved.
MutResolvedAt(old, new, t) ==
    CASE old.state = "Alerting" /\ new.state = "Normal" -> t
      [] new.state \notin {"Normal", "Pending"} -> NoTime
      [] OTHER -> old.resolvedAt

ResolvedAt(old, new, t) ==
    IF old.state \in {"Alerting", "Recovering"} /\ new.state = "Normal" THEN t
    ELSE IF new.state \notin {"Normal", "Pending"} THEN NoTime
    ELSE old.resolvedAt

\* transition
Transition(s, t, result) ==
    LET new == ResultMapped(Observed(s, t, Mapping(result)), t, Mapping(result))
    IN [new EXCEPT !.evaluatedAt = t, !.resolvedAt = ResolvedAt(s, new, t)]

NewState(t) ==
    [state |-> "Normal", startsAt |-> t, endsAt |-> t, resolvedAt |-> NoTime,
     lastSentAt |-> NoTime, evaluatedAt |-> t, breachedSince |-> NoTime, quietSince |-> NoTime]

\* stateIsStale, with what processMissingSeriesStates asks of it.
IsStale(s, t) ==
    t - s.evaluatedAt >= IF s.state \in {"Error", "NoData"} THEN 1 ELSE rule.missingEvals

ShouldBeResolved(old) == old.state \in FiringStates

\* processMissingSeriesStates
MissingTransition(s, t) ==
    IF IsStale(s, t)
    THEN [s EXCEPT !.state = "Normal", !.evaluatedAt = t, !.endsAt = t,
                   !.resolvedAt = IF ShouldBeResolved(s) THEN t ELSE @]
    ELSE IF s.state = "Alerting" THEN Maintain(s, t) ELSE s

\* Mutant: what was sent once is not sent again.
MutNeedsSendingOnce(s, t) ==
    /\ s.state # "Pending"
    /\ \/ s.resolvedAt # NoTime /\ (s.lastSentAt = NoTime \/ s.resolvedAt > s.lastSentAt)
       \/ s.state # "Normal" /\ s.lastSentAt < s.startsAt

NeedsSending(s, t) ==
    /\ s.state # "Pending"
    /\ \/ s.resolvedAt # NoTime /\ (s.lastSentAt = NoTime \/ s.resolvedAt > s.lastSentAt)
       \/ /\ s.state = "Normal" => s.resolvedAt # NoTime /\ t - s.resolvedAt <= ResolvedRetention
          /\ s.lastSentAt = NoTime \/ s.lastSentAt + ResendDelay <= t

\* StateToPostableAlert: errors and missing data fire under names of their own.
NameOf(state) ==
    IF state = "Error" THEN "DatasourceError"
    ELSE IF state = "NoData" THEN "DatasourceNoData" ELSE "rule"

PostableAlert(s, previous) ==
    [name |-> NameOf(IF s.resolvedAt # NoTime THEN previous.state ELSE s.state),
     endsAt |-> s.endsAt]

-----------------------------------------------------------------------------
(* The rule routine.                                                        *)

\* ProcessEvalResults, up to Sync: the transition, in the cache, with
\* LastSentAt set for what is going to be sent.
ProcessEvalResults(result) ==
    LET seen == result # "missing"
        old == IF cache = NoInstance THEN NewState(now) ELSE cache
        next == IF seen THEN Transition(old, now, result) ELSE MissingTransition(old, now)
        send == NeedsSending(next, now)
        removed == ~seen /\ IsStale(old, now)
    IN
    /\ pc = "idle"
    /\ started < now
    /\ seen \/ cache # NoInstance
    /\ started' = now
    /\ cache' = IF removed THEN NoInstance
                ELSE IF send THEN [next EXCEPT !.lastSentAt = now] ELSE next
    /\ message' = IF send THEN PostableAlert(next, old) ELSE NoMessage
    /\ pc' = "saving"
    /\ UNCHANGED <<rule, now, db, am, finished, behind, lost, faults>>

\* The evaluation returns nothing for an instance that is not in the cache.
EvaluateNothing ==
    /\ pc = "idle"
    /\ started < now
    /\ cache = NoInstance
    /\ started' = now
    /\ finished' = now
    /\ UNCHANGED <<rule, now, pc, cache, db, message, am, behind, lost, faults>>

\* Sync: stale instances are deleted, the others saved.
Sync ==
    /\ pc = "saving"
    /\ db' = cache
    /\ behind' = FALSE
    /\ pc' = "sending"
    /\ UNCHANGED <<rule, now, cache, message, am, started, finished, lost, faults>>

\* An error of the database is only logged.
SyncError ==
    /\ pc = "saving"
    /\ faults < MaxFaults
    /\ faults' = faults + 1
    /\ behind' = TRUE
    /\ pc' = "sending"
    /\ UNCHANGED <<rule, now, cache, db, message, am, started, finished, lost>>

\* send, or expireAndSend
Send ==
    /\ pc = "sending"
    /\ am' = IF message = NoMessage THEN am ELSE [am EXCEPT ![message.name] = message.endsAt]
    /\ lost' = IF message = NoMessage THEN lost ELSE "none"
    /\ message' = NoMessage
    /\ finished' = started
    /\ pc' = "idle"
    /\ UNCHANGED <<rule, now, cache, db, started, behind, faults>>

\* Send returns no error: what the sender drops is not noticed here.
SendLost ==
    /\ pc = "sending"
    /\ message # NoMessage
    /\ faults < MaxFaults
    /\ faults' = faults + 1
    /\ lost' = "message"
    /\ message' = NoMessage
    /\ finished' = started
    /\ pc' = "idle"
    /\ UNCHANGED <<rule, now, cache, db, am, started, behind>>

\* ResetStateByRuleUID, DeleteStateByRuleUID: the instance is forgotten and
\* deleted, and FromAlertsStateToStoppedAlert resolves what was firing.  A
\* failed DELETE is only logged.
DeleteStateByRuleUID ==
    /\ pc = "idle"
    /\ cache # NoInstance
    /\ cache' = NoInstance
    /\ \/ db' = NoInstance /\ behind' = FALSE /\ UNCHANGED faults
       \/ /\ faults < MaxFaults
          /\ faults' = faults + 1
          /\ behind' = TRUE
          /\ UNCHANGED db
    /\ message' = IF ShouldBeResolved(cache)
                  THEN [name |-> NameOf(cache.state), endsAt |-> now] ELSE NoMessage
    /\ pc' = "sending"
    /\ UNCHANGED <<rule, now, am, started, finished, lost>>

-----------------------------------------------------------------------------
(* The environment.                                                         *)

Crash ==
    /\ pc # "down"
    /\ faults < MaxFaults
    /\ faults' = faults + 1
    /\ cache' = NoInstance
    /\ message' = NoMessage
    /\ lost' = IF behind THEN "state"
               ELSE IF pc = "sending" /\ message # NoMessage THEN "message" ELSE lost
    /\ behind' = FALSE
    /\ pc' = "down"
    /\ UNCHANGED <<rule, now, db, am, started, finished>>

\* Warm
Restart ==
    /\ pc = "down"
    /\ cache' = db
    /\ pc' = "idle"
    /\ UNCHANGED <<rule, now, db, message, am, started, finished, behind, lost, faults>>

Tick ==
    /\ now < MaxTime
    /\ now - finished < MaxGap
    /\ now' = now + 1
    /\ UNCHANGED <<rule, pc, cache, db, message, am, started, finished, behind, lost, faults>>

Next ==
    \/ \E result \in Results : ProcessEvalResults(result)
    \/ EvaluateNothing \/ Sync \/ SyncError \/ Send \/ SendLost \/ DeleteStateByRuleUID
    \/ Crash \/ Restart \/ Tick

Spec == Init /\ [][Next]_vars

-----------------------------------------------------------------------------
(* Properties.                                                              *)

Fires(name) == am[name] > now

\* What the Alertmanager knows of a firing instance between two evaluations: it
\* fires there, under its name; only a state entered right after another message
\* may have to wait for ResendDelay.
Known(s) ==
    \/ Fires(NameOf(s.state))
    \/ s.lastSentAt < s.startsAt /\ finished < s.lastSentAt + ResendDelay

\* An instance that is firing is firing in the Alertmanager too, and does not
\* expire there as long as no more than MaxGap - 1 evaluations are missed in a
\* row (nextEndsTime: "allow for at least two evaluation cycles to pass before
\* expiring"), unless its last message was lost.  A Recovering instance whose
\* series is missing is sent with its old end: the intervals a series may be
\* missing for have to fit into what an alert lasts as well.
FiringIsKnown ==
    (pc = "idle" /\ lost = "none" /\ cache.state \in FiringStates) => Known(cache)

\* What is not firing any more, stopped existing or was reset with its rule
\* does not fire in the Alertmanager either, under any name.  For a rule with
\* states of their own for errors and missing data the code does not promise it.
ResolvedIsKnown ==
    (/\ pc = "idle" /\ lost = "none" /\ cache.state \notin FiringStates
     /\ rule.execErrState # "Error" /\ rule.noDataState # "NoData")
      => \A name \in Names : ~Fires(name)

\* A message lost on the way, or in a crash after LastSentAt was saved, is made
\* up for: the instance is sent again as soon as ResendDelay allows, a resolved
\* one if it is within ResolvedRetention.
LostMessageIsMadeUp ==
    (/\ pc = "idle" /\ lost = "message"
     /\ \/ cache.state \in FiringStates
        \/ /\ cache.state = "Normal" /\ cache.resolvedAt # NoTime
           /\ now - cache.resolvedAt <= ResolvedRetention)
      => now < cache.lastSentAt + ResendDelay + MaxGap

\* No alert fires before the condition was true in every evaluation for the
\* rule's For, whatever is missing, failing or restarted in between.
NotFiredEarly ==
    [][(/\ pc = "idle" /\ cache'.state = "Alerting" /\ pc' = "saving"
        /\ cache.state \notin {"Alerting", "Recovering"})
         => /\ cache'.breachedSince # NoTime \/ rule.for = 0
            /\ now - cache'.breachedSince >= rule.for]_vars

\* No alert of a series that is still there is resolved by its evaluations
\* before the condition was false in all of them for KeepFiringFor.
NotResolvedEarly ==
    [][(/\ pc = "idle" /\ pc' = "saving" /\ cache'.state = "Normal"
        /\ cache.state \in {"Alerting", "Recovering"})
         => /\ cache'.quietSince # NoTime \/ rule.keepFiringFor = 0
            /\ now - cache'.quietSince >= rule.keepFiringFor]_vars

\* ResolvedAt "is set ... when the state first transitions from Alerting,
\* NoData, Recovering, or Error to Normal".
ResolvedAtIsSet ==
    [][(pc = "idle" /\ cache.state \in FiringStates /\ cache'.state = "Normal")
         => cache'.resolvedAt = now]_vars
=============================================================================
