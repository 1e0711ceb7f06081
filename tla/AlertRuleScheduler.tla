------------------------- MODULE AlertRuleScheduler -------------------------
(***************************************************************************)
(* The scheduler of Grafana-managed alerting and its rule routines         *)
(* (pkg/services/ngalert/schedule).  On every tick the scheduler compares  *)
(* its copy of the rules with the database, creates, restarts and stops    *)
(* one routine per rule, and starts goroutines that call Eval or Update on *)
(* the routines; these goroutines meet the routines on unbuffered channels *)
(* and may be overtaken, dropped or cancelled.                             *)
(*                                                                         *)
(* A rule definition is a version and a fingerprint: everything else the   *)
(* code reads from it (type, pause flag, interval) is a function of the    *)
(* fingerprint.  The state of a rule is abstracted to "is some alert of it *)
(* firing" and the fingerprint of the definition that produced it.         *)
(***************************************************************************)
EXTENDS Naturals

CONSTANTS
    Rules,            \* the keys of the alert rules
    Fingerprints,     \* the definitions a rule can have, without version
    Recording,        \* the fingerprints of recording rules
    Paused,           \* the fingerprints of paused rules
    InvalidInterval,  \* those whose interval is no multiple of baseInterval
    Frequency,        \* fingerprint -> IntervalSeconds / baseInterval
    Offset,           \* fingerprint -> jitterOffsetInTicks
    Period,           \* a multiple of all frequencies: ticks count modulo it
    RecordingEnabled, \* is the recording rules subsystem enabled
    StopReasons,      \* what getRuleStopReason may answer for a missing rule
    MaxAttempts,      \* evaluation attempts per tick
    MaxVersion,       \* bound: versions of a rule
    MaxCreates,       \* bound: how often rules are created
    MaxRoutines,      \* bound: routines ever created
    MaxPending        \* bound: concurrent Eval (or Update) calls per routine

ASSUME SchedulerAssumption ==
    /\ Rules # {}
    /\ Fingerprints \subseteq Nat \ {0}
    /\ Recording \subseteq Fingerprints
    /\ Paused \subseteq Fingerprints
    /\ InvalidInterval \subseteq Fingerprints
    /\ Frequency \in [Fingerprints -> Nat \ {0}]
    /\ Offset \in [Fingerprints -> Nat]
    /\ \A f \in Fingerprints : Offset[f] < Frequency[f]
    /\ Period \in Nat \ {0}
    /\ RecordingEnabled \in BOOLEAN
    /\ StopReasons \subseteq {"deleted", "moved"} /\ StopReasons # {}
    /\ {MaxAttempts, MaxVersion, MaxRoutines, MaxPending} \subseteq Nat \ {0}
    /\ MaxCreates \in Nat

VARIABLES
    db,          \* rule -> its definition in the database
    creates,     \* rules created so far (at most MaxCreates)
    schedulable, \* rule -> the scheduler's copy (schedulableAlertRules)
    registry,    \* rule -> its routine, or NoRoutine
    routine,     \* routine -> its fields and program counter
    evals,       \* the goroutines inside Eval
    updates,     \* the goroutines inside Update
    cache,       \* rule -> its state in the state manager
    notified,    \* rule -> what the Alertmanager was last told
    tick,        \* tickNum modulo Period
    shutdown     \* is the scheduler's root context cancelled

vars == <<db, creates, schedulable, registry, routine, evals, updates, cache,
          notified, tick, shutdown>>

RoutineIds == 1..MaxRoutines
NoRoutine == 0
NoRule == [ver |-> 0, fp |-> 0]
Definitions == [ver : 1..MaxVersion, fp : Fingerprints]
NoState == [st |-> "none", fp |-> 0]
RuleStates == {NoState} \cup [st : {"normal", "firing"}, fp : Fingerprints \cup {0}]

Kind(def) == IF def.fp \in Recording THEN "recording" ELSE "alerting"

\* pc: "unused", "created" (registered but not Run), "select" (in the select of
\* Run), "attempt", "evaluating", "updating", "backoff", "sending", "exited".
\* fp: currentFingerprint, 0 if the routine has not seen a definition.
\* then: where the routine goes on after sending out.
\* born: history, did another one evaluate the rule's alerts when this one was made.
Routines == [rule : Rules, kind : {"alerting", "recording"},
             pc : {"unused", "created", "select", "attempt", "evaluating",
                   "updating", "backoff", "sending", "exited"},
             cause : {"none", "restarted", "shutdown"} \cup StopReasons,
             fp : Fingerprints \cup {0},
             def : Definitions \cup {NoRule},
             attempt : 0..MaxAttempts, out : {"none", "firing", "resolved"},
             then : {"select", "attempt", "exited"},
             born : {"alone", "overlapping"}]

Messages == [to : RoutineIds, slot : 1..MaxPending, def : Definitions,
             phase : {"starting", "drained", "sending"}]

TypeOK ==
    /\ db \in [Rules -> Definitions \cup {NoRule}]
    /\ creates \in 0..MaxCreates
    /\ schedulable \in [Rules -> Definitions \cup {NoRule}]
    /\ registry \in [Rules -> RoutineIds \cup {NoRoutine}]
    /\ routine \in [RoutineIds -> Routines]
    /\ evals \subseteq Messages
    /\ updates \subseteq Messages
    /\ cache \in [Rules -> RuleStates]
    /\ notified \in [Rules -> {"none", "firing", "resolved"}]
    /\ tick \in 0..(Period - 1)
    /\ shutdown \in BOOLEAN

Firing(state) == state.st = "firing"
Cancelled(i) == routine[i].cause # "none"
Live(i) == routine[i].pc \notin {"unused", "exited"}

\* i is a routine of r as an alerting rule: those of recording rules have no state.
Evaluates(i, r) ==
    routine[i].pc # "unused" /\ routine[i].rule = r /\ routine[i].kind = "alerting"

\* newAlertRule and newRecordingRule, before Run.
NewRoutine(r, def, pc) ==
    [rule |-> r, kind |-> Kind(def), pc |-> pc, cause |-> "none", fp |-> 0,
     def |-> NoRule, attempt |-> 0, out |-> "none", then |-> "select",
     born |-> "alone"]

\* Grafana starts: some rules are in the database, and Warm has loaded the
\* states they had when the previous process ended.
Init ==
    /\ db \in [Rules -> {NoRule} \cup [ver : {1}, fp : Fingerprints]]
    /\ cache \in [Rules -> {NoState} \cup [st : {"normal", "firing"}, fp : {0}]]
    /\ \A r \in Rules : cache[r] # NoState => db[r] # NoRule /\ Kind(db[r]) = "alerting"
    /\ notified = [r \in Rules |-> IF Firing(cache[r]) THEN "firing" ELSE "none"]
    /\ creates = 0
    /\ schedulable = [r \in Rules |-> NoRule]
    /\ registry = [r \in Rules |-> NoRoutine]
    /\ routine = [i \in RoutineIds |->
                    NewRoutine(CHOOSE r \in Rules : TRUE, NoRule, "unused")]
    /\ evals = {}
    /\ updates = {}
    /\ tick = 0
    /\ shutdown = FALSE

-----------------------------------------------------------------------------
(* The API (any Grafana server) changes the rules in the database.          *)

Unscheduled == <<schedulable, registry, routine, evals, updates, cache,
                 notified, tick, shutdown>>

InsertAlertRule(r) ==
    /\ db[r] = NoRule
    /\ creates < MaxCreates
    /\ creates' = creates + 1
    /\ \E f \in Fingerprints : db' = [db EXCEPT ![r] = [ver |-> 1, fp |-> f]]
    /\ UNCHANGED Unscheduled

UpdateAlertRule(r) ==
    /\ db[r] # NoRule
    /\ db[r].ver < MaxVersion
    /\ \E f \in Fingerprints : db' = [db EXCEPT ![r] = [ver |-> @.ver + 1, fp |-> f]]
    /\ UNCHANGED <<creates, Unscheduled>>

DeleteAlertRule(r) ==
    /\ db[r] # NoRule
    /\ db' = [db EXCEPT ![r] = NoRule]
    /\ UNCHANGED <<creates, Unscheduled>>

-----------------------------------------------------------------------------
(* The scheduler.                                                           *)

\* Mutant: versions are not compared.
MutNeedsUpdateByKey == \E r \in Rules : (schedulable[r] = NoRule) # (db[r] = NoRule)

\* isEmpty, or needsUpdate: the keys and versions of the two sides differ.
NeedsUpdate ==
    \/ \A r \in Rules : schedulable[r] = NoRule
    \/ \E r \in Rules : schedulable[r].ver # db[r].ver

\* The rules after updateSchedulableAlertRules; a failed read keeps the copy.
Fetched(ok) == IF ok /\ NeedsUpdate THEN db ELSE schedulable

\* getDiff: the rules that were known with another version.
UpdatedRules(rules) ==
    {r \in Rules : NoRule \notin {rules[r], schedulable[r]}
                     /\ rules[r].ver # schedulable[r].ver}

\* The rules that exist, and those that can be scheduled.
Present(rules) == {r \in Rules : rules[r] # NoRule}
Valid(rules) == {r \in Present(rules) : rules[r].fp \notin InvalidInterval}

\* The rules whose routine is of the other type, and all that get a new one.
Restarted(rules) ==
    {r \in Present(rules) : registry[r] # NoRoutine
                              /\ routine[registry[r]].kind # Kind(rules[r])}
New(rules) == Restarted(rules) \cup {r \in Present(rules) : registry[r] = NoRoutine}

Unused == {i \in RoutineIds : routine[i].pc = "unused"}
Assignments(rules) ==
    {f \in [New(rules) -> Unused] : \A r, s \in New(rules) : f[r] = f[s] => r = s}
Fresh(rules) == CHOOSE f \in Assignments(rules) : TRUE

\* registeredDefinitions, less the rules that were gone through.
ToDelete(rules) == {r \in Rules : registry[r] # NoRoutine} \ Valid(rules)

\* What becomes of routine i: it is new, it is stopped because its rule's type
\* changed or because the rule is gone (for the given reason), or it goes on.
Ticked(i, rules, fresh, reason) ==
    IF \E r \in DOMAIN fresh : fresh[r] = i
    THEN LET r == CHOOSE r \in DOMAIN fresh : fresh[r] = i
         IN [NewRoutine(r, rules[r], IF r \in Valid(rules) THEN "select" ELSE "created")
               EXCEPT !.cause = IF r \in DOMAIN reason THEN reason[r] ELSE "none",
                      !.born = IF \E j \in RoutineIds : Evaluates(j, r) /\ Live(j)
                               THEN "overlapping" ELSE "alone"]
    ELSE IF \E r \in Restarted(rules) : registry[r] = i
    THEN [routine[i] EXCEPT !.cause = "restarted"]
    ELSE IF \E r \in DOMAIN reason : registry[r] = i
    THEN [routine[i] EXCEPT !.cause = reason[CHOOSE r \in DOMAIN reason : registry[r] = i]]
    ELSE routine[i]

\* The goroutine a tick starts for Eval or Update of routine i.
FreeSlots(i, msgs) == {k \in 1..MaxPending : \A m \in msgs : m.to = i => m.slot # k}
NewMessage(i, def, msgs) ==
    [to |-> i, def |-> def, phase |-> "starting",
     slot |-> CHOOSE k \in FreeSlots(i, msgs) : TRUE]

\* One tick.  The loop over the rules reads and writes only what the scheduler
\* owns, and the goroutines it starts take their first step later, so the tick
\* is one action.
ProcessTick(ok) ==
    LET rules == Fetched(ok)
        fresh == Fresh(rules)
        routineOf == [r \in Present(rules) |->
                        IF r \in New(rules) THEN fresh[r] ELSE registry[r]]
        ready == {r \in Valid(rules) : tick % Frequency[rules[r].fp] = Offset[rules[r].fp]}
        notify == {r \in (UpdatedRules(rules) \cap Valid(rules)) \ ready :
                     Kind(rules[r]) = "alerting"}
        toDelete == ToDelete(rules)
    IN
    /\ ~shutdown
    /\ Assignments(rules) # {}
    /\ \A r \in ready : FreeSlots(routineOf[r], evals) # {}
    /\ \A r \in notify : FreeSlots(routineOf[r], updates) # {}
    /\ \E reason \in [toDelete -> StopReasons] :
         routine' = [i \in RoutineIds |-> Ticked(i, rules, fresh, reason)]
    /\ registry' = [r \in Rules |->
           IF r \in toDelete THEN NoRoutine
           ELSE IF r \in Present(rules) THEN routineOf[r] ELSE registry[r]]
    /\ schedulable' = [r \in Rules |-> IF r \in toDelete THEN NoRule ELSE rules[r]]
    /\ evals' = evals \cup {NewMessage(routineOf[r], rules[r], evals) : r \in ready}
    /\ updates' = updates \cup {NewMessage(routineOf[r], rules[r], updates) : r \in notify}
    /\ tick' = (tick + 1) % Period
    /\ UNCHANGED <<db, creates, cache, notified, shutdown>>

TickWithFetch == ProcessTick(TRUE)
TickWithFetchError == ProcessTick(FALSE)

\* The root context is cancelled, and every routine's context with it.
Shutdown ==
    /\ ~shutdown
    /\ shutdown' = TRUE
    /\ routine' = [i \in RoutineIds |->
         IF Live(i) /\ ~Cancelled(i)
         THEN [routine[i] EXCEPT !.cause = "shutdown"] ELSE routine[i]]
    /\ UNCHANGED <<db, creates, schedulable, registry, evals, updates, cache,
                   notified, tick>>

-----------------------------------------------------------------------------
(* The goroutines that call Eval and Update.  Both first receive from the    *)
(* channel without blocking, which removes the message of a sender that is   *)
(* blocked there, and then block until the routine receives or is stopped;   *)
(* between the two selects another sender may do the same.                   *)

BlockedOn(msgs, i) == {m \in msgs : m.to = i /\ m.phase = "sending"}

\* The channel's messages after m's first select: one blocked sender, if there
\* is any, hands over its message and returns.
Drained(msgs, m) ==
    IF BlockedOn(msgs, m.to) = {} THEN {msgs}
    ELSE {msgs \ {d} : d \in BlockedOn(msgs, m.to)}

At(msgs, m, phase) == (msgs \ {m}) \cup {[m EXCEPT !.phase = phase]}

EvalDrain(m) ==
    /\ m.phase = "starting"
    /\ \E rest \in Drained(evals, m) : evals' = At(rest, m, "drained")
    /\ UNCHANGED <<db, creates, schedulable, registry, routine, updates, cache,
                   notified, tick, shutdown>>

EvalBlock(m) ==
    /\ m.phase = "drained"
    /\ evals' = At(evals, m, "sending")
    /\ UNCHANGED <<db, creates, schedulable, registry, routine, updates, cache,
                   notified, tick, shutdown>>

\* Mutant: Eval does not select on the routine's context.
MutEvalCancelledNever(m) == FALSE /\ UNCHANGED vars

EvalCancelled(m) ==
    /\ m.phase = "sending"
    /\ Cancelled(m.to)
    /\ evals' = evals \ {m}
    /\ UNCHANGED <<db, creates, schedulable, registry, routine, updates, cache,
                   notified, tick, shutdown>>

UpdateDrain(m) ==
    /\ m.phase = "starting"
    /\ \E rest \in Drained(updates, m) : updates' = At(rest, m, "drained")
    /\ UNCHANGED <<db, creates, schedulable, registry, routine, evals, cache,
                   notified, tick, shutdown>>

UpdateBlock(m) ==
    /\ m.phase = "drained"
    /\ updates' = At(updates, m, "sending")
    /\ UNCHANGED <<db, creates, schedulable, registry, routine, evals, cache,
                   notified, tick, shutdown>>

\* Update looks at the context in its first select too.
UpdateCancelled(m) ==
    /\ Cancelled(m.to)
    /\ updates' = updates \ {m}
    /\ UNCHANGED <<db, creates, schedulable, registry, routine, evals, cache,
                   notified, tick, shutdown>>

-----------------------------------------------------------------------------
(* Run: the routine of a rule.                                               *)

\* Mutant: the reset state is not announced.
MutExpiredSilently(i) == "none"

\* ResetStateByRuleUID, DeleteStateByRuleUID: the state goes, and what
\* expireAndSend has to tell the Alertmanager is what was firing.
DropState(i) == cache' = [cache EXCEPT ![routine[i].rule] = NoState]
Expired(i) == IF Firing(cache[routine[i].rule]) THEN "resolved" ELSE "none"

SchedulerOnly == <<db, creates, schedulable, registry, tick, shutdown>>

Goto(i, label) == routine' = [routine EXCEPT ![i].pc = label]

\* Back in the select, with nothing of the evaluation left.
Idle(ro) == [ro EXCEPT !.pc = "select", !.def = NoRule, !.attempt = 0]
Return(i) == routine' = [routine EXCEPT ![i] = Idle(@)]

\* Run has returned; only why is kept.
Exit(ro) == [Idle(ro) EXCEPT !.pc = "exited", !.fp = 0, !.then = "select"]

\* case ctx := <-a.updateCh
RunUpdate(i, m) ==
    /\ routine[i].pc = "select"
    /\ routine[i].kind = "alerting"
    /\ m \in BlockedOn(updates, i)
    /\ updates' = updates \ {m}
    /\ IF routine[i].fp = m.def.fp
       THEN UNCHANGED <<routine, cache>>
       ELSE /\ DropState(i)
            /\ routine' = [routine EXCEPT ![i].fp = m.def.fp,
                             ![i].pc = "sending", ![i].out = Expired(i), ![i].then = "select"]
    /\ UNCHANGED <<evals, notified, SchedulerOnly>>

\* Mutant: a new version that arrives with an Eval resets nothing.
MutNeedResetPausedOnly(i, def) == routine[i].fp = 0 /\ def.fp \in Paused

\* The reset before the first attempt: the definition changed, or the first one
\* is paused.
NeedReset(i, def) ==
    \/ routine[i].fp # 0 /\ routine[i].fp # def.fp
    \/ routine[i].fp = 0 /\ def.fp \in Paused

\* case ctx, ok := <-a.evalCh, up to the reset that may come before the first attempt.
RunEval(i, m) ==
    /\ routine[i].pc = "select"
    /\ routine[i].kind = "alerting"
    /\ m \in BlockedOn(evals, i)
    /\ evals' = evals \ {m}
    /\ LET begun == [routine[i] EXCEPT !.def = m.def, !.fp = m.def.fp, !.attempt = 1]
       IN IF NeedReset(i, m.def)
          THEN /\ DropState(i)
               /\ routine' = [routine EXCEPT ![i] =
                    [begun EXCEPT !.pc = "sending", !.out = Expired(i), !.then = "attempt"]]
          ELSE /\ routine' = [routine EXCEPT ![i] = [begun EXCEPT !.pc = "attempt"]]
               /\ UNCHANGED cache
    /\ UNCHANGED <<updates, notified, SchedulerOnly>>

\* Recording rules: no fingerprint, no state; Run returns when the subsystem is
\* disabled.
RunRecordingEval(i, m) ==
    /\ routine[i].pc = "select"
    /\ routine[i].kind = "recording"
    /\ m \in BlockedOn(evals, i)
    /\ evals' = evals \ {m}
    /\ routine' = [routine EXCEPT ![i] =
         IF RecordingEnabled
         THEN [@ EXCEPT !.pc = "attempt", !.def = m.def, !.attempt = 1]
         ELSE Exit(@)]
    /\ UNCHANGED <<updates, cache, notified, SchedulerOnly>>

\* Paused rules and stopped routines are not evaluated.
StartAttempt(i) ==
    /\ routine[i].pc = "attempt"
    /\ IF routine[i].def.fp \in Paused \/ Cancelled(i)
       THEN Return(i) ELSE Goto(i, "evaluating")
    /\ UNCHANGED <<evals, updates, cache, notified, SchedulerOnly>>

\* The query ends.  evaluate looks at the context once, here: if the routine
\* was stopped in the meantime the results are thrown away.
EvaluationEnds(i) ==
    /\ routine[i].pc = "evaluating"
    /\ IF routine[i].kind = "alerting" /\ ~Cancelled(i)
       THEN Goto(i, "updating") ELSE Return(i)
    /\ UNCHANGED <<evals, updates, cache, notified, SchedulerOnly>>

\* Mutant: the last attempt is retried as well.
MutEvaluationFailsAlways(i) ==
    /\ routine[i].pc = "evaluating"
    /\ ~Cancelled(i)
    /\ Goto(i, "backoff")
    /\ UNCHANGED <<evals, updates, cache, notified, SchedulerOnly>>

\* Only an attempt that is not the last one ends with a retryable error.
EvaluationFails(i) ==
    /\ routine[i].pc = "evaluating"
    /\ ~Cancelled(i)
    /\ routine[i].attempt < MaxAttempts
    /\ Goto(i, "backoff")
    /\ UNCHANGED <<evals, updates, cache, notified, SchedulerOnly>>

\* time.After(retryDelay), or the context is cancelled while backing off.
BackoffEnds(i) ==
    /\ routine[i].pc = "backoff"
    /\ routine' = [routine EXCEPT ![i].pc = "attempt", ![i].attempt = @ + 1]
    /\ UNCHANGED <<evals, updates, cache, notified, SchedulerOnly>>

BackoffCancelled(i) ==
    /\ routine[i].pc = "backoff"
    /\ Cancelled(i)
    /\ Return(i)
    /\ UNCHANGED <<evals, updates, cache, notified, SchedulerOnly>>

\* ProcessEvalResults: the results become the rule's state.  A rule that starts
\* or stops firing is sent; one that keeps firing is sent again now and then.
ProcessEvalResults(i) ==
    LET r == routine[i].rule
        wasFiring == Firing(cache[r])
    IN
    /\ routine[i].pc = "updating"
    /\ \E st \in {"normal", "firing"}, out \in {"none", "firing", "resolved"} :
         /\ CASE st = "firing" /\ ~wasFiring -> out = "firing"
              [] st = "firing" /\ wasFiring -> out \in {"none", "firing"}
              [] st = "normal" /\ wasFiring -> out = "resolved"
              [] OTHER -> out = "none"
         /\ cache' = [cache EXCEPT ![r] = [st |-> st, fp |-> routine[i].def.fp]]
         /\ routine' = [routine EXCEPT ![i] =
              [Idle(@) EXCEPT !.pc = "sending", !.out = out, !.then = "select"]]
    /\ UNCHANGED <<evals, updates, notified, SchedulerOnly>>

\* send and expireAndSend: an empty list is not sent.
Send(i) ==
    /\ routine[i].pc = "sending"
    /\ notified' = IF routine[i].out = "none" THEN notified
                   ELSE [notified EXCEPT ![routine[i].rule] = routine[i].out]
    /\ LET sent == [routine[i] EXCEPT !.out = "none", !.then = "select"]
       IN routine' = [routine EXCEPT ![i] =
            IF @.then = "exited" THEN Exit(sent) ELSE [sent EXCEPT !.pc = routine[i].then]]
    /\ UNCHANGED <<evals, updates, cache, SchedulerOnly>>

\* Mutant: a deleted rule is only forgotten.
MutRunDoneForgets(i) ==
    /\ routine[i].pc = "select"
    /\ Cancelled(i)
    /\ IF routine[i].kind = "alerting" THEN DropState(i) ELSE UNCHANGED cache
    /\ routine' = [routine EXCEPT ![i] = Exit(@)]
    /\ UNCHANGED <<evals, updates, notified, SchedulerOnly>>

\* case <-grafanaCtx.Done(): only a deleted rule's alerts are resolved.
RunDone(i) ==
    /\ routine[i].pc = "select"
    /\ Cancelled(i)
    /\ IF routine[i].kind = "alerting"
       THEN /\ DropState(i)
            /\ routine' = [routine EXCEPT ![i].pc = "sending", ![i].then = "exited",
                 ![i].out = IF routine[i].cause = "deleted" THEN Expired(i) ELSE "none"]
       ELSE /\ routine' = [routine EXCEPT ![i] = Exit(@)]
            /\ UNCHANGED cache
    /\ UNCHANGED <<evals, updates, notified, SchedulerOnly>>

-----------------------------------------------------------------------------
EvalStep(m) == EvalDrain(m) \/ EvalBlock(m) \/ EvalCancelled(m)
UpdateStep(m) == UpdateDrain(m) \/ UpdateBlock(m) \/ UpdateCancelled(m)

Receive(i) ==
    \/ \E m \in updates : RunUpdate(i, m)
    \/ \E m \in evals : RunEval(i, m) \/ RunRecordingEval(i, m)

RoutineStep(i) ==
    \/ Receive(i)
    \/ StartAttempt(i) \/ EvaluationEnds(i) \/ EvaluationFails(i)
    \/ BackoffEnds(i) \/ BackoffCancelled(i)
    \/ ProcessEvalResults(i) \/ Send(i) \/ RunDone(i)

API == \E r \in Rules : InsertAlertRule(r) \/ UpdateAlertRule(r) \/ DeleteAlertRule(r)

Next ==
    \/ API
    \/ TickWithFetch \/ TickWithFetchError \/ Shutdown
    \/ \E m \in evals : EvalStep(m)
    \/ \E m \in updates : UpdateStep(m)
    \/ \E i \in RoutineIds : RoutineStep(i)

Spec == Init /\ [][Next]_vars

\* The ticker ticks, goroutines are scheduled, evaluations end (they have a
\* timeout) and calls to the Alertmanager return.  Nothing is assumed of the
\* API or of a shutdown, nor of which ready case a select takes.  The database
\* may fail, but not on every tick that MaxPending allows.  Receiving is
\* strongly fair: a channel hands a message over the moment its sender and a
\* receiver wait for each other, so a tick cannot drop each one in between.
Fairness ==
    /\ SF_vars(TickWithFetch)
    /\ \A i \in RoutineIds : WF_vars(RoutineStep(i)) /\ SF_vars(Receive(i))
    /\ \A i \in RoutineIds, k \in 1..MaxPending :
         /\ WF_vars(\E m \in evals : m.to = i /\ m.slot = k /\ EvalStep(m))
         /\ WF_vars(\E m \in updates : m.to = i /\ m.slot = k /\ UpdateStep(m))

FairSpec == Spec /\ Fairness

-----------------------------------------------------------------------------
(* Properties.                                                               *)

\* The state a rule has while its routine waits for work was computed from the
\* definition the routine works on: every way a new definition reaches Run (an
\* Update, an Eval that overtakes it, a paused first evaluation, a restart)
\* resets what the old one left behind.  Only the states Warm loaded have no
\* definition.
StateIsOfCurrentDefinition ==
    \A i \in RoutineIds :
       (/\ routine[i].pc = "select" /\ routine[i].kind = "alerting" /\ routine[i].fp # 0
        /\ ~Cancelled(i)
        /\ \A j \in RoutineIds \ {i} : Live(j) => routine[j].rule # routine[i].rule)
       => \/ cache[routine[i].rule] = NoState
          \/ cache[routine[i].rule].fp = routine[i].fp

Deleted(r) ==
    LET of == {i \in RoutineIds : Evaluates(i, r)}
    IN  /\ of # {}
        /\ \A i \in of : routine[i].pc = "exited" /\ routine[i].cause = "deleted"

\* When every routine that evaluated a rule's alerts has exited because the rule
\* was deleted, the Alertmanager was told that nothing of it fires any more,
\* however often the rule came and went, as a recording rule in between or not,
\* and whatever its routines were doing when it did, if none of them was made
\* while another was live (Run: "clean up the state and send resolved
\* notifications for firing alerts only if ... the rule was deleted").
DeletedRuleIsResolved ==
    \A r \in Rules :
        Deleted(r) /\ (\A i \in RoutineIds : Evaluates(i, r) => routine[i].born = "alone")
        => notified[r] # "firing"

\* The same of every deleted rule.  It is false: a routine that is still
\* evaluating when its rule comes back cleans up its successor's state.
EveryDeletionIsResolved == \A r \in Rules : Deleted(r) => notified[r] # "firing"

\* What the Alertmanager was told and what the state manager holds agree
\* whenever the only routine of a rule is between two messages.
AlertmanagerAgrees ==
    \A i \in RoutineIds :
       (/\ routine[i].pc = "select" /\ routine[i].kind = "alerting"
        /\ \A j \in RoutineIds \ {i} : routine[j].pc = "unused" \/ routine[j].rule # routine[i].rule)
       => (notified[routine[i].rule] = "firing" <=> Firing(cache[routine[i].rule]))

\* A stopped routine comes to its end, and nobody waits for it any more: no
\* Eval or Update goroutine is leaked, and dispatcherGroup.Wait returns.
StoppedRoutineExits ==
    \A i \in RoutineIds :
       (Live(i) /\ Cancelled(i) /\ routine[i].pc # "created")
         ~> (routine[i].pc = "exited" /\ \A m \in evals \cup updates : m.to # i)

\* Whatever the order of changes, ticks and dropped messages, every rule ends up
\* with one running routine of its type that works on the definition that is
\* in the database, and every rule that is gone without any.
DefinitionIsApplied ==
    <>[](\/ shutdown
         \/ \A r \in Rules :
              IF db[r] = NoRule THEN registry[r] = NoRoutine
              ELSE /\ registry[r] # NoRoutine
                   /\ LET ro == routine[registry[r]]
                      IN /\ ro.kind = Kind(db[r])
                         /\ ro.kind = "alerting" => ro.fp = db[r].fp)

\* A tick whose fetch succeeds leaves the scheduler with the rules of the
\* database (processTick: "this is the new current state").
FetchIsComplete ==
    [][TickWithFetch =>
         \A r \in Rules : db[r].fp \notin InvalidInterval => schedulable'[r] = db[r]]_vars
=============================================================================
