---------------------- MODULE AlertRuleScheduler_proofs ----------------------
(***************************************************************************)
(* For any rules, definitions, schedules and bounds: the state a rule has  *)
(* while its routine waits for work was computed from the definition the   *)
(* routine works on.  By itself that is not inductive.  What is kept: a    *)
(* state that an evaluation produced belongs to a live routine of the rule *)
(* that is at the definition which produced it (StateHasOwner), and the    *)
(* states Warm loaded do not outlive a routine's first definition          *)
(* (WarmIsReset).                                                          *)
(*   The Alertmanager and the state manager agree on a rule whose only     *)
(* routine waits for work: each of a routine's steps (Step) keeps Settled, *)
(* which also says what is in flight.  A deleted rule is resolved if its   *)
(* routines did not overlap: then one at most is alive (OneAtATime), and if*)
(* the Alertmanager believes the rule to fire, that one will tell it       *)
(* otherwise (NoneForgotten).                                              *)
(***************************************************************************)
EXTENDS AlertRuleScheduler, TLAPS

\* i has taken an evaluation from its channel and is not done with it.
Busy(i) ==
    \/ routine[i].pc \in {"attempt", "evaluating", "backoff", "updating"}
    \/ routine[i].pc = "sending" /\ routine[i].then = "attempt"

\* i waits for work, or will once its message is sent.
AtRest(i) ==
    \/ routine[i].pc = "select"
    \/ routine[i].pc = "sending" /\ routine[i].then = "select"

\* i may still produce states: it has not dropped its rule's state for good.
Owns(i) ==
    /\ Live(i)
    /\ routine[i].kind = "alerting"
    /\ ~(routine[i].pc = "sending" /\ routine[i].then = "exited")

\* A busy routine is at the definition it evaluates, has a try left to back off
\* for, and processes results only if its rule has a state.
BusyAtDefinition ==
    \A i \in RoutineIds :
        /\ Busy(i) => routine[i].def \in Definitions
        /\ Busy(i) /\ routine[i].kind = "alerting" => routine[i].fp = routine[i].def.fp
        /\ routine[i].pc = "backoff" => routine[i].attempt < MaxAttempts
        /\ routine[i].pc = "updating" => routine[i].kind = "alerting"

StateHasOwner ==
    \A r \in Rules : cache[r].fp # 0 =>
        \E i \in RoutineIds :
            Owns(i) /\ routine[i].rule = r /\ routine[i].fp = cache[r].fp

\* The state Warm loaded for the rule is still there.
Warm(r) == cache[r] # NoState /\ cache[r].fp = 0

WarmIsReset ==
    \A i \in RoutineIds :
        Live(i) /\ routine[i].kind = "alerting" /\ ~Cancelled(i) /\ Warm(routine[i].rule) =>
            /\ routine[i].fp \notin Paused
            /\ AtRest(i) => routine[i].fp = 0

IInv ==
    /\ TypeOK
    /\ BusyAtDefinition
    /\ StateHasOwner
    /\ WarmIsReset

Outs == {"none", "firing", "resolved"}
Thens == {"select", "attempt", "exited"}
Causes == {"none", "restarted", "shutdown"} \cup StopReasons

\* The types of the bounds, one by one.
LEMMA Bounds ==
    /\ MaxAttempts \in Nat /\ MaxAttempts > 0
    /\ MaxVersion \in Nat /\ MaxVersion > 0
    /\ MaxCreates \in Nat
    /\ Period \in Nat /\ Period > 0
    /\ \A f \in Fingerprints : f \in Nat /\ f # 0
BY SchedulerAssumption

LEMMA InitIInv == Init => IInv
<1> SUFFICES ASSUME Init PROVE IInv
  OBVIOUS
<1> DEFINE r0 == CHOOSE r \in Rules : TRUE
<1>1. r0 \in Rules
  BY SchedulerAssumption
<1>2. \A i \in RoutineIds :
         routine[i] = [rule |-> r0, kind |-> Kind(NoRule), pc |-> "unused", cause |-> "none",
                       fp |-> 0, def |-> NoRule, attempt |-> 0, out |-> "none", then |-> "select",
                 born |-> "alone"]
  BY DEF Init, NewRoutine
<1> HIDE DEF r0
<1>b. /\ 0 \in 0..MaxAttempts /\ 0 \in 0..MaxCreates
      /\ 0 \in 0..(Period - 1) /\ 1 \in 1..MaxVersion
  BY Bounds
<1>3. Kind(NoRule) \in {"recording", "alerting"}
  BY DEF Kind
<1>4. routine \in [RoutineIds -> Routines]
  <2>1. \A i \in RoutineIds : routine[i] \in Routines
    BY <1>1, <1>2, <1>3, <1>b DEF Routines
  <2>2. QED
    BY <2>1 DEF Init
<1>5. db \in [Rules -> Definitions \cup {NoRule}]
  <2>1. \A r \in Rules : db[r] \in Definitions \cup {NoRule}
    <3> SUFFICES ASSUME NEW r \in Rules, db[r] # NoRule PROVE db[r] \in Definitions
      OBVIOUS
    <3>1. db[r] \in [ver : {1}, fp : Fingerprints]
      BY DEF Init
    <3>2. QED
      BY <3>1, <1>b DEF Definitions
  <2>2. QED
    BY <2>1 DEF Init
<1>6. cache \in [Rules -> RuleStates]
  <2>1. \A r \in Rules : cache[r] \in RuleStates
    BY DEF Init, RuleStates
  <2>2. QED
    BY <2>1 DEF Init
<1>7. /\ schedulable \in [Rules -> Definitions \cup {NoRule}]
      /\ registry \in [Rules -> RoutineIds \cup {NoRoutine}]
      /\ notified \in [Rules -> {"none", "firing", "resolved"}]
  BY DEF Init
<1>a. /\ creates \in 0..MaxCreates /\ tick \in 0..(Period - 1)
  BY <1>b DEF Init
<1>8. TypeOK
  BY <1>4, <1>5, <1>6, <1>7, <1>a DEF Init, TypeOK
<1>9. \A r \in Rules : cache[r].fp = 0
  <2> SUFFICES ASSUME NEW r \in Rules PROVE cache[r].fp = 0
    OBVIOUS
  <2>1. cache[r] \in {NoState} \cup [st : {"normal", "firing"}, fp : {0}]
    BY DEF Init
  <2>2. QED
    BY <2>1 DEF NoState
<1>c. \A i \in RoutineIds : routine[i].pc = "unused"
  BY <1>2
<1>10. QED
  BY <1>c, <1>8, <1>9 DEF IInv, BusyAtDefinition, StateHasOwner, WarmIsReset, Busy, Live

\* What a step of one live routine leaves as it is.
OnlyRoutine(i) ==
    /\ \A j \in RoutineIds \ {i} : routine'[j] = routine[j]
    /\ routine'[i].rule = routine[i].rule
    /\ routine'[i].kind = routine[i].kind
    /\ routine'[i].cause = routine[i].cause /\ routine'[i].born = routine[i].born
    /\ Live(i)

\* The part of BusyAtDefinition that a step of routine i has to restore.
BusyIsRight(i) ==
    /\ Busy(i) => routine[i].def \in Definitions
    /\ Busy(i) /\ routine[i].kind = "alerting" => routine[i].fp = routine[i].def.fp
    /\ routine[i].pc = "backoff" => routine[i].attempt < MaxAttempts
    /\ routine[i].pc = "updating" => routine[i].kind = "alerting"

LEMMA OthersStayBusy ==
    ASSUME BusyAtDefinition, NEW i \in RoutineIds, OnlyRoutine(i), BusyIsRight(i)'
    PROVE  BusyAtDefinition'
BY DEF BusyAtDefinition, BusyIsRight, OnlyRoutine, Busy

\* A routine that leaves the state alone stays the owner of what it produced.
LEMMA KeepsState ==
    ASSUME IInv, NEW i \in RoutineIds, OnlyRoutine(i), cache' = cache,
           Owns(i) /\ routine[i].fp # 0 => Owns(i)' /\ routine'[i].fp = routine[i].fp,
           routine[i].kind = "alerting" /\ ~Cancelled(i) /\ Warm(routine[i].rule) /\ Live(i)' =>
               routine'[i].fp \notin Paused /\ (AtRest(i)' => routine'[i].fp = 0)
    PROVE  StateHasOwner' /\ WarmIsReset'
<1>1. StateHasOwner'
  <2> SUFFICES ASSUME NEW r \in Rules, cache[r].fp # 0
               PROVE  \E j \in RoutineIds :
                        Owns(j)' /\ routine'[j].rule = r /\ routine'[j].fp = cache[r].fp
    BY DEF StateHasOwner
  <2>1. PICK j \in RoutineIds : Owns(j) /\ routine[j].rule = r /\ routine[j].fp = cache[r].fp
    BY DEF IInv, StateHasOwner
  <2>2. CASE j = i
    BY <2>1, <2>2 DEF OnlyRoutine
  <2>3. CASE j # i
    BY <2>1, <2>3 DEF OnlyRoutine, Owns, Live
  <2>4. QED
    BY <2>2, <2>3
<1>2. WarmIsReset'
  <2> SUFFICES ASSUME NEW j \in RoutineIds, Live(j)', routine'[j].kind = "alerting",
                      ~Cancelled(j)', Warm(routine[j].rule)', routine'[j].rule = routine[j].rule
               PROVE  routine'[j].fp \notin Paused /\ (AtRest(j)' => routine'[j].fp = 0)
    BY DEF WarmIsReset, OnlyRoutine, Warm
  <2>1. CASE j = i
    BY <2>1 DEF OnlyRoutine, Cancelled, Warm
  <2>2. CASE j # i
    BY <2>2 DEF OnlyRoutine, Cancelled, Warm, IInv, WarmIsReset, Live, AtRest
  <2>3. QED
    BY <2>1, <2>2
<1>3. QED
  BY <1>1, <1>2

\* After ResetStateByRuleUID or DeleteStateByRuleUID the rule has no state.
LEMMA DropsState ==
    ASSUME IInv, NEW i \in RoutineIds, OnlyRoutine(i), DropState(i)
    PROVE  StateHasOwner' /\ WarmIsReset'
<1>0. routine[i].rule \in Rules /\ cache \in [Rules -> RuleStates]
  BY DEF IInv, TypeOK, Routines
<1>1. /\ cache'[routine[i].rule] = NoState
      /\ \A r \in Rules : r # routine[i].rule => cache'[r] = cache[r]
  BY <1>0 DEF DropState
<1>2. StateHasOwner'
  <2> SUFFICES ASSUME NEW r \in Rules, cache'[r].fp # 0
               PROVE  \E j \in RoutineIds :
                        Owns(j)' /\ routine'[j].rule = r /\ routine'[j].fp = cache'[r].fp
    BY DEF StateHasOwner
  <2>1. r # routine[i].rule /\ cache'[r] = cache[r]
    BY <1>1 DEF NoState
  <2>2. PICK j \in RoutineIds : Owns(j) /\ routine[j].rule = r /\ routine[j].fp = cache[r].fp
    BY <2>1 DEF IInv, StateHasOwner
  <2>3. QED
    BY <2>1, <2>2 DEF OnlyRoutine, Owns, Live
<1>3. WarmIsReset'
  <2> SUFFICES ASSUME NEW j \in RoutineIds, Live(j)', routine'[j].kind = "alerting",
                      ~Cancelled(j)', Warm(routine[j].rule)'
               PROVE  routine'[j].fp \notin Paused /\ (AtRest(j)' => routine'[j].fp = 0)
    BY DEF WarmIsReset, Warm
  <2>1. j # i
    BY <1>1 DEF OnlyRoutine, Warm
  <2>2. routine'[j] = routine[j] /\ routine[j].rule \in Rules
    BY <2>1 DEF OnlyRoutine, IInv, TypeOK, Routines
  <2>3. Warm(routine[j].rule)
    BY <1>1, <2>2 DEF Warm
  <2>4. QED
    BY <2>2, <2>3 DEF Cancelled, IInv, WarmIsReset, Live, AtRest
<1>4. QED
  BY <1>2, <1>3

\* Results are written by a routine that is at the definition they come from.
LEMMA WritesState ==
    ASSUME IInv, NEW i \in RoutineIds, OnlyRoutine(i), NEW st,
           cache' = [cache EXCEPT ![routine[i].rule] = [st |-> st, fp |-> routine'[i].fp]],
           routine'[i].fp # 0, Owns(i)'
    PROVE  StateHasOwner' /\ WarmIsReset'
<1>0. routine[i].rule \in Rules /\ cache \in [Rules -> RuleStates]
  BY DEF IInv, TypeOK, Routines
<1>1. /\ cache'[routine[i].rule].fp = routine'[i].fp
      /\ \A r \in Rules : r # routine[i].rule => cache'[r] = cache[r]
  BY <1>0
<1>2. StateHasOwner'
  <2> SUFFICES ASSUME NEW r \in Rules, cache'[r].fp # 0
               PROVE  \E j \in RoutineIds :
                        Owns(j)' /\ routine'[j].rule = r /\ routine'[j].fp = cache'[r].fp
    BY DEF StateHasOwner
  <2>1. CASE r = routine[i].rule
    BY <2>1, <1>1 DEF OnlyRoutine
  <2>2. CASE r # routine[i].rule
    <3>1. cache'[r] = cache[r]
      BY <2>2, <1>1
    <3>2. PICK j \in RoutineIds : Owns(j) /\ routine[j].rule = r /\ routine[j].fp = cache[r].fp
      BY <3>1 DEF IInv, StateHasOwner
    <3>3. QED
      BY <2>2, <3>1, <3>2 DEF OnlyRoutine, Owns, Live
  <2>3. QED
    BY <2>1, <2>2
<1>3. WarmIsReset'
  <2> SUFFICES ASSUME NEW j \in RoutineIds, Live(j)', routine'[j].kind = "alerting",
                      ~Cancelled(j)', Warm(routine[j].rule)'
               PROVE  routine'[j].fp \notin Paused /\ (AtRest(j)' => routine'[j].fp = 0)
    BY DEF WarmIsReset, Warm
  <2>1. j # i
    BY <1>1 DEF OnlyRoutine, Warm
  <2>2. routine'[j] = routine[j] /\ routine[j].rule \in Rules
    BY <2>1 DEF OnlyRoutine, IInv, TypeOK, Routines
  <2>3. Warm(routine[j].rule)
    BY <1>1, <2>2 DEF Warm
  <2>4. QED
    BY <2>2, <2>3 DEF Cancelled, IInv, WarmIsReset, Live, AtRest
<1>4. QED
  BY <1>2, <1>3

-----------------------------------------------------------------------------
(* The steps of a routine *)

\* Routine i becomes ro, a routine of the same rule, kind and cause.
Becomes(i, ro) ==
    /\ routine' = [routine EXCEPT ![i] = ro]
    /\ ro \in Routines
    /\ ro.rule = routine[i].rule /\ ro.kind = routine[i].kind
    /\ ro.cause = routine[i].cause /\ ro.born = routine[i].born
    /\ Live(i)

LEMMA BecomesOnly ==
    ASSUME TypeOK, NEW i \in RoutineIds, NEW ro, Becomes(i, ro)
    PROVE  OnlyRoutine(i) /\ routine'[i] = ro /\ routine' \in [RoutineIds -> Routines]
BY DEF TypeOK, Becomes, OnlyRoutine

LEMMA StepTypes ==
    ASSUME TypeOK, routine' \in [RoutineIds -> Routines],
           evals' \subseteq evals, updates' \subseteq updates,
           cache' \in [Rules -> RuleStates],
           notified' \in [Rules -> {"none", "firing", "resolved"}],
           UNCHANGED SchedulerOnly
    PROVE  TypeOK'
BY DEF TypeOK, SchedulerOnly

LEMMA DropStateTypes ==
    ASSUME TypeOK, NEW i \in RoutineIds, DropState(i)
    PROVE  cache' \in [Rules -> RuleStates]
BY DEF TypeOK, DropState, RuleStates

\* Fields of a routine change one by one.
LEMMA FieldTypes ==
    ASSUME NEW ro \in Routines
    PROVE  /\ \A fp \in Fingerprints \cup {0} : [ro EXCEPT !.fp = fp] \in Routines
           /\ \A def \in Definitions \cup {NoRule} : [ro EXCEPT !.def = def] \in Routines
           /\ \A n \in 0..MaxAttempts : [ro EXCEPT !.attempt = n] \in Routines
           /\ \A cause \in Causes : [ro EXCEPT !.cause = cause] \in Routines
           /\ \A out \in {"none", "firing", "resolved"} : [ro EXCEPT !.out = out] \in Routines
           /\ \A then \in {"select", "attempt", "exited"} : [ro EXCEPT !.then = then] \in Routines
           /\ \A born \in {"alone", "overlapping"} : [ro EXCEPT !.born = born] \in Routines
<1>1. \A fp \in Fingerprints \cup {0} : [ro EXCEPT !.fp = fp] \in Routines
  BY DEF Routines
<1>2. \A def \in Definitions \cup {NoRule} : [ro EXCEPT !.def = def] \in Routines
  BY DEF Routines
<1>3. \A n \in 0..MaxAttempts : [ro EXCEPT !.attempt = n] \in Routines
  BY DEF Routines
<1>4. \A cause \in Causes : [ro EXCEPT !.cause = cause] \in Routines
  BY DEF Routines, Causes
<1>5. \A out \in {"none", "firing", "resolved"} : [ro EXCEPT !.out = out] \in Routines
  BY DEF Routines
<1>6. \A then \in {"select", "attempt", "exited"} : [ro EXCEPT !.then = then] \in Routines
  BY DEF Routines
<1>7. \A born \in {"alone", "overlapping"} : [ro EXCEPT !.born = born] \in Routines
  BY DEF Routines
<1>8. QED
  BY <1>1, <1>2, <1>3, <1>4, <1>5, <1>6, <1>7

LEMMA IdleTypes ==
    ASSUME NEW ro \in Routines
    PROVE  /\ Idle(ro) \in Routines /\ Exit(ro) \in Routines
           /\ Idle(ro).pc = "select" /\ Exit(ro).pc = "exited"
           /\ Idle(ro).fp = ro.fp /\ Idle(ro).then = ro.then
           /\ Idle(ro).rule = ro.rule /\ Idle(ro).kind = ro.kind
           /\ Idle(ro).cause = ro.cause /\ Idle(ro).born = ro.born
           /\ Exit(ro).rule = ro.rule /\ Exit(ro).kind = ro.kind
           /\ Exit(ro).cause = ro.cause /\ Exit(ro).born = ro.born
<1>1. 0 \in 0..MaxAttempts
  BY Bounds
<1>2. Idle(ro) \in Routines
  BY <1>1 DEF Idle, Routines
<1>3. /\ Idle(ro).pc = "select" /\ Idle(ro).fp = ro.fp /\ Idle(ro).then = ro.then
      /\ Idle(ro).rule = ro.rule /\ Idle(ro).kind = ro.kind
      /\ Idle(ro).cause = ro.cause /\ Idle(ro).born = ro.born
  BY DEF Idle, Routines
<1>4. Exit(ro) \in Routines
  <2>1. PICK x \in Routines : x = Idle(ro)
    BY <1>2
  <2>a. [x EXCEPT !.pc = "exited"] \in Routines
    BY DEF Routines
  <2>2. PICK y \in Routines : y = [x EXCEPT !.pc = "exited"]
    BY <2>a
  <2>3. PICK z \in Routines : z = [y EXCEPT !.fp = 0]
    BY FieldTypes
  <2>4. [z EXCEPT !.then = "select"] \in Routines
    BY DEF Routines
  <2>5. Exit(ro) = [z EXCEPT !.then = "select"]
    BY <2>1, <2>2, <2>3 DEF Exit, Routines
  <2>6. QED
    BY <2>4, <2>5
<1>5. /\ Exit(ro).pc = "exited" /\ Exit(ro).rule = ro.rule
      /\ Exit(ro).kind = ro.kind /\ Exit(ro).cause = ro.cause /\ Exit(ro).born = ro.born
  BY <1>2, <1>3 DEF Exit, Routines
<1>6. QED
  BY <1>2, <1>3, <1>4, <1>5

\* Back to the select: only a stopped or paused routine, or one that has no
\* state, returns without having processed results.
LEMMA ReturnKeeps ==
    ASSUME IInv, NEW i \in RoutineIds, Return(i), Live(i), routine[i].pc # "sending",
           routine[i].kind = "alerting" /\ ~Cancelled(i) => routine[i].fp \in Paused,
           cache' = cache, evals' \subseteq evals, updates' \subseteq updates,
           notified' = notified, UNCHANGED SchedulerOnly
    PROVE  IInv'
<1> DEFINE ro == Idle(routine[i])
<1>0. TypeOK /\ routine[i] \in Routines
  BY DEF IInv, TypeOK
<1>1. Becomes(i, ro)
  BY <1>0, IdleTypes DEF Return, Becomes, TypeOK
<1>2. OnlyRoutine(i) /\ routine'[i] = ro /\ routine' \in [RoutineIds -> Routines]
  BY <1>0, <1>1, BecomesOnly
<1>3. TypeOK'
  BY <1>0, <1>2, StepTypes DEF TypeOK
<1>4. /\ routine'[i].pc = "select" /\ routine'[i].fp = routine[i].fp
      /\ routine'[i].kind = routine[i].kind
  BY <1>0, <1>2, IdleTypes
<1>5. BusyAtDefinition'
  BY <1>2, <1>4, OthersStayBusy DEF IInv, BusyIsRight, Busy
<1>6. StateHasOwner' /\ WarmIsReset'
  <2>1. Owns(i) => Owns(i)'
    BY <1>4 DEF Owns, Live
  <2>2. routine[i].kind = "alerting" /\ ~Cancelled(i) => ~Warm(routine[i].rule)
    BY DEF IInv, WarmIsReset
  <2>3. QED
    BY <1>2, <1>4, <2>1, <2>2, KeepsState
<1>7. QED
  BY <1>3, <1>5, <1>6 DEF IInv

\* Within an evaluation only the program counter and the attempts change.
LEMMA EvaluationGoesOn ==
    ASSUME IInv, NEW i \in RoutineIds, Busy(i), NEW ro, Becomes(i, ro),
           ro.fp = routine[i].fp, ro.def = routine[i].def,
           ro.pc \in {"attempt", "evaluating", "backoff", "updating"},
           ro.pc = "backoff" => ro.attempt < MaxAttempts,
           ro.pc = "updating" => ro.kind = "alerting",
           cache' = cache, UNCHANGED <<evals, updates, notified, SchedulerOnly>>
    PROVE  IInv'
<1>0. TypeOK
  BY DEF IInv
<1>1. OnlyRoutine(i) /\ routine'[i] = ro /\ routine' \in [RoutineIds -> Routines]
  BY <1>0, BecomesOnly
<1>2. TypeOK'
  BY <1>0, <1>1, StepTypes DEF TypeOK
<1>3. BusyAtDefinition'
  BY <1>1, OthersStayBusy DEF IInv, BusyAtDefinition, BusyIsRight, Becomes, Busy
<1>4. StateHasOwner' /\ WarmIsReset'
  <2>1. Owns(i) => Owns(i)'
    BY <1>1 DEF Owns, Live, OnlyRoutine
  <2>2. ~AtRest(i)'
    BY <1>1 DEF AtRest
  <2>3. routine[i].kind = "alerting" /\ ~Cancelled(i) /\ Warm(routine[i].rule) =>
           routine[i].fp \notin Paused
    BY <1>1 DEF IInv, WarmIsReset, OnlyRoutine
  <2>4. QED
    BY <1>1, <2>1, <2>2, <2>3, KeepsState
<1>5. QED
  BY <1>2, <1>3, <1>4 DEF IInv

LEMMA MessageTypes ==
    ASSUME TypeOK, NEW m \in evals \cup updates
    PROVE  m.def \in Definitions /\ m.def.fp \in Fingerprints
BY DEF TypeOK, Messages, Definitions

\* A routine that is about to send, from fp on, what out says.
ToSend(ro, fp, out, then) ==
    [ro EXCEPT !.fp = fp, !.pc = "sending", !.out = out, !.then = then]

LEMMA ToSendTypes ==
    ASSUME NEW ro \in Routines, NEW fp \in Fingerprints \cup {0},
           NEW out \in Outs, NEW then \in Thens
    PROVE  /\ ToSend(ro, fp, out, then) \in Routines
           /\ ToSend(ro, fp, out, then).pc = "sending"
           /\ ToSend(ro, fp, out, then).fp = fp
           /\ ToSend(ro, fp, out, then).then = then
           /\ ToSend(ro, fp, out, then).def = ro.def
<1> DEFINE x == ToSend(ro, fp, out, then)
<1>1. PICK y \in Routines : y = [ro EXCEPT !.fp = fp]
  BY FieldTypes
<1>2. [y EXCEPT !.pc = "sending"] \in Routines
  BY DEF Routines
<1>3. PICK z \in Routines : z = [y EXCEPT !.pc = "sending"]
  BY <1>2
<1>4. PICK u \in Routines : u = [z EXCEPT !.out = out]
  BY FieldTypes DEF Outs
<1>5. PICK w \in Routines : w = [u EXCEPT !.then = then]
  BY FieldTypes DEF Thens
<1>6. y = [ro EXCEPT !.fp = fp] /\ z = [ro EXCEPT !.fp = fp, !.pc = "sending"]
  BY <1>1, <1>3 DEF Routines
<1>7. u = [ro EXCEPT !.fp = fp, !.pc = "sending", !.out = out]
  BY <1>4, <1>6 DEF Routines
<1>8. x = w
  BY <1>5, <1>7 DEF ToSend, Routines
<1>9. x.pc = "sending"
  BY DEF ToSend, Routines
<1>10. x.fp = fp
  BY DEF ToSend, Routines
<1>11. x.then = then
  BY DEF ToSend, Routines
<1>12. x.def = ro.def
  BY DEF ToSend, Routines
<1>13. QED
  BY <1>8, <1>9, <1>10, <1>11, <1>12

LEMMA ToSendKeeps ==
    ASSUME NEW ro \in Routines, NEW fp, NEW out, NEW then
    PROVE  /\ ToSend(ro, fp, out, then).rule = ro.rule
           /\ ToSend(ro, fp, out, then).kind = ro.kind
           /\ ToSend(ro, fp, out, then).cause = ro.cause
           /\ ToSend(ro, fp, out, then).born = ro.born
<1> DEFINE x == ToSend(ro, fp, out, then)
<1>1. x.rule = ro.rule /\ x.kind = ro.kind
  BY DEF ToSend, Routines
<1>2. x.cause = ro.cause /\ x.born = ro.born
  BY DEF ToSend, Routines
<1>3. QED
  BY <1>1, <1>2

LEMMA ExpiredTypes ==
    ASSUME NEW i \in RoutineIds
    PROVE  Expired(i) \in Outs
BY DEF Expired, Outs

LEMMA RunUpdateKeeps ==
    ASSUME IInv, NEW i \in RoutineIds, NEW m \in updates, RunUpdate(i, m)
    PROVE  IInv'
<1>0. TypeOK /\ routine[i] \in Routines /\ Live(i) /\ ~Busy(i)
  BY DEF IInv, TypeOK, RunUpdate, Live, Busy
<1>1. CASE routine[i].fp = m.def.fp
  <2>1. UNCHANGED <<routine, cache>>
    BY <1>1 DEF RunUpdate
  <2>2. TypeOK'
    BY <1>0, <2>1, StepTypes DEF RunUpdate, TypeOK
  <2>3. QED
    BY <2>1, <2>2 DEF IInv, BusyAtDefinition, StateHasOwner, WarmIsReset, Busy, Owns, Live,
       AtRest, Warm, Cancelled
<1>2. CASE routine[i].fp # m.def.fp
  <2>1. PICK ro : ro = ToSend(routine[i], m.def.fp, Expired(i), "select")
    OBVIOUS
  <2>2. DropState(i) /\ routine' = [routine EXCEPT ![i] = ro]
    BY <1>0, <1>2, <2>1 DEF RunUpdate, ToSend, TypeOK
  <2>3. /\ ro \in Routines
        /\ ro.pc = "sending" /\ ro.then = "select"
        /\ ro.rule = routine[i].rule /\ ro.kind = routine[i].kind
        /\ ro.cause = routine[i].cause /\ ro.born = routine[i].born
    <3>1. m.def.fp \in Fingerprints \cup {0}
      BY <1>0, MessageTypes
    <3>2. Expired(i) \in Outs /\ "select" \in Thens
      BY ExpiredTypes DEF Thens
    <3>3. PICK old \in Routines, fp \in Fingerprints \cup {0}, out \in Outs, then \in Thens :
             old = routine[i] /\ fp = m.def.fp /\ out = Expired(i) /\ then = "select"
      BY <1>0, <3>1, <3>2
    <3>4. ro = ToSend(old, fp, out, then)
      BY <2>1, <3>3
    <3>5. ro \in Routines /\ ro.pc = "sending" /\ ro.then = then
      BY <3>4, ToSendTypes
    <3>6. ro.rule = old.rule /\ ro.kind = old.kind /\ ro.cause = old.cause /\ ro.born = old.born
      BY <3>4, ToSendKeeps
    <3>7. QED
      BY <3>3, <3>5, <3>6
  <2>4. Becomes(i, ro)
    BY <1>0, <2>2, <2>3 DEF Becomes
  <2>5. OnlyRoutine(i) /\ routine'[i] = ro /\ routine' \in [RoutineIds -> Routines]
    BY <1>0, <2>4, BecomesOnly
  <2>6. TypeOK'
    BY <1>0, <2>2, <2>5, DropStateTypes, StepTypes DEF RunUpdate, TypeOK
  <2>7. BusyAtDefinition'
    BY <2>3, <2>5, OthersStayBusy DEF IInv, BusyIsRight, Busy
  <2>8. QED
    BY <2>2, <2>5, <2>6, <2>7, DropsState DEF IInv
<1>3. QED
  BY <1>1, <1>2

LEMMA RunEvalKeeps ==
    ASSUME IInv, NEW i \in RoutineIds, NEW m \in evals, RunEval(i, m)
    PROVE  IInv'
<1>0. /\ TypeOK /\ routine[i] \in Routines /\ Live(i)
      /\ routine[i].kind = "alerting" /\ routine[i].pc = "select"
  BY DEF IInv, TypeOK, RunEval, Live
<1>1. m.def \in Definitions /\ m.def.fp \in Fingerprints
  BY <1>0, MessageTypes
<1>2. PICK begun \in Routines :
         begun = [routine[i] EXCEPT !.def = m.def, !.fp = m.def.fp, !.attempt = 1]
  <2>1. PICK y \in Routines : y = [routine[i] EXCEPT !.def = m.def]
    BY <1>0, <1>1, FieldTypes
  <2>2. PICK z \in Routines : z = [y EXCEPT !.fp = m.def.fp]
    BY <1>1, FieldTypes
  <2>3. 1 \in 0..MaxAttempts
    BY Bounds
  <2>4. [z EXCEPT !.attempt = 1] \in Routines
    BY <2>3, FieldTypes
  <2>5. [routine[i] EXCEPT !.def = m.def, !.fp = m.def.fp, !.attempt = 1] = [z EXCEPT !.attempt = 1]
    BY <1>0, <2>1, <2>2 DEF Routines
  <2>6. QED
    BY <2>4, <2>5
<1>3. /\ begun.def = m.def /\ begun.fp = m.def.fp /\ begun.rule = routine[i].rule
      /\ begun.kind = routine[i].kind /\ begun.cause = routine[i].cause /\ begun.born = routine[i].born
  BY <1>0, <1>2 DEF Routines
<1>4. CASE NeedReset(i, m.def)
  <2>1. PICK ro : ro = ToSend(begun, m.def.fp, Expired(i), "attempt")
    OBVIOUS
  <2>2. DropState(i)
    BY <1>4 DEF RunEval
  <2>a. ro = [begun EXCEPT !.pc = "sending", !.out = Expired(i), !.then = "attempt"]
    BY <1>3, <2>1 DEF ToSend, Routines
  <2>b. routine' = [routine EXCEPT ![i] = ro]
    BY <1>4, <1>2, <2>a DEF RunEval
  <2>3. /\ ro \in Routines
        /\ ro.pc = "sending" /\ ro.then = "attempt" /\ ro.def = m.def /\ ro.fp = m.def.fp
        /\ ro.rule = routine[i].rule /\ ro.kind = routine[i].kind
        /\ ro.cause = routine[i].cause /\ ro.born = routine[i].born
    <3>1. m.def.fp \in Fingerprints \cup {0}
      BY <1>1
    <3>2. Expired(i) \in Outs /\ "attempt" \in Thens
      BY ExpiredTypes DEF Thens
    <3>3. PICK fp \in Fingerprints \cup {0}, out \in Outs, then \in Thens :
             fp = m.def.fp /\ out = Expired(i) /\ then = "attempt"
      BY <3>1, <3>2
    <3>4. ro = ToSend(begun, fp, out, then)
      BY <2>1, <3>3
    <3>5. /\ ro \in Routines /\ ro.pc = "sending" /\ ro.then = then
          /\ ro.def = begun.def /\ ro.fp = fp
      BY <3>4, ToSendTypes
    <3>6. ro.rule = begun.rule /\ ro.kind = begun.kind /\ ro.cause = begun.cause /\ ro.born = begun.born
      BY <3>4, ToSendKeeps
    <3>7. QED
      BY <1>3, <3>3, <3>5, <3>6
  <2>4. Becomes(i, ro)
    BY <1>0, <2>b, <2>3 DEF Becomes
  <2>5. OnlyRoutine(i) /\ routine'[i] = ro /\ routine' \in [RoutineIds -> Routines]
    BY <1>0, <2>4, BecomesOnly
  <2>6. TypeOK'
    BY <1>0, <2>2, <2>5, DropStateTypes, StepTypes DEF RunEval, TypeOK
  <2>7. BusyAtDefinition'
    BY <1>1, <2>3, <2>5, OthersStayBusy DEF IInv, BusyIsRight, Busy
  <2>8. QED
    BY <2>2, <2>5, <2>6, <2>7, DropsState DEF IInv
<1>5. CASE ~NeedReset(i, m.def)
  <2>1. PICK ro \in Routines : ro = [begun EXCEPT !.pc = "attempt"]
    BY DEF Routines
  <2>2. routine' = [routine EXCEPT ![i] = ro] /\ cache' = cache
    BY <1>5, <1>2, <2>1 DEF RunEval
  <2>3. /\ ro.pc = "attempt" /\ ro.def = m.def /\ ro.fp = m.def.fp
        /\ ro.rule = routine[i].rule /\ ro.kind = routine[i].kind
        /\ ro.cause = routine[i].cause /\ ro.born = routine[i].born
    BY <1>3, <2>1 DEF Routines
  <2>4. Becomes(i, ro)
    BY <1>0, <2>1, <2>2, <2>3 DEF Becomes
  <2>5. OnlyRoutine(i) /\ routine'[i] = ro /\ routine' \in [RoutineIds -> Routines]
    BY <1>0, <2>4, BecomesOnly
  <2>6. TypeOK'
    BY <1>0, <2>2, <2>5, StepTypes DEF RunEval, TypeOK
  <2>7. BusyAtDefinition'
    BY <1>1, <2>3, <2>5, OthersStayBusy DEF IInv, BusyIsRight, Busy
  <2>8. routine[i].fp # 0 => routine'[i].fp = routine[i].fp
    BY <1>5, <2>3, <2>5 DEF NeedReset
  <2>9. ~Cancelled(i) /\ Warm(routine[i].rule) => routine'[i].fp \notin Paused
    <3>1. ~Cancelled(i) /\ Warm(routine[i].rule) => routine[i].fp = 0
      BY <1>0 DEF IInv, WarmIsReset, AtRest
    <3>2. QED
      BY <1>5, <2>3, <2>5, <3>1 DEF NeedReset
  <2>10. Owns(i)' /\ ~AtRest(i)'
    BY <1>0, <2>3, <2>5 DEF Owns, Live, AtRest
  <2>11. StateHasOwner' /\ WarmIsReset'
    BY <2>2, <2>5, <2>8, <2>9, <2>10, KeepsState
  <2>12. QED
    BY <2>6, <2>7, <2>11 DEF IInv
<1>6. QED
  BY <1>4, <1>5

\* Run returns: what is no owner any more leaves nothing behind.
LEMMA ExitKeeps ==
    ASSUME IInv, NEW i \in RoutineIds, NEW ro, Becomes(i, ro), ro.pc = "exited", ~Owns(i),
           cache' = cache, evals' \subseteq evals, updates' \subseteq updates,
           notified' \in [Rules -> Outs], UNCHANGED SchedulerOnly
    PROVE  IInv'
<1>0. TypeOK
  BY DEF IInv
<1>1. OnlyRoutine(i) /\ routine'[i] = ro /\ routine' \in [RoutineIds -> Routines]
  BY <1>0, BecomesOnly
<1>2. TypeOK'
  BY <1>0, <1>1, StepTypes DEF TypeOK, Outs
<1>3. BusyAtDefinition'
  BY <1>1, OthersStayBusy DEF IInv, BusyIsRight, Busy
<1>4. ~Live(i)'
  BY <1>1 DEF Live
<1>5. StateHasOwner' /\ WarmIsReset'
  BY <1>1, <1>4, KeepsState
<1>6. QED
  BY <1>2, <1>3, <1>5 DEF IInv

LEMMA RunRecordingEvalKeeps ==
    ASSUME IInv, NEW i \in RoutineIds, NEW m \in evals, RunRecordingEval(i, m)
    PROVE  IInv'
<1>0. /\ TypeOK /\ routine[i] \in Routines /\ Live(i)
      /\ routine[i].kind = "recording" /\ routine[i].pc = "select"
  BY DEF IInv, TypeOK, RunRecordingEval, Live
<1>1. m.def \in Definitions
  BY <1>0, MessageTypes
<1>2. CASE RecordingEnabled
  <2>1. PICK ro \in Routines :
           ro = [routine[i] EXCEPT !.pc = "attempt", !.def = m.def, !.attempt = 1]
    <3>1. PICK y \in Routines : y = [routine[i] EXCEPT !.pc = "attempt"]
      BY <1>0 DEF Routines
    <3>2. PICK z \in Routines : z = [y EXCEPT !.def = m.def]
      BY <1>1, FieldTypes
    <3>3. 1 \in 0..MaxAttempts
      BY Bounds
    <3>4. [z EXCEPT !.attempt = 1] \in Routines
      BY <3>3, FieldTypes
    <3>5. [routine[i] EXCEPT !.pc = "attempt", !.def = m.def, !.attempt = 1]
             = [z EXCEPT !.attempt = 1]
      BY <1>0, <3>1, <3>2 DEF Routines
    <3>6. QED
      BY <3>4, <3>5
  <2>2. routine' = [routine EXCEPT ![i] = ro] /\ cache' = cache
    BY <1>2, <2>1 DEF RunRecordingEval
  <2>3. /\ ro.pc = "attempt" /\ ro.def = m.def
        /\ ro.rule = routine[i].rule /\ ro.kind = routine[i].kind
        /\ ro.cause = routine[i].cause /\ ro.born = routine[i].born
    BY <1>0, <2>1 DEF Routines
  <2>4. Becomes(i, ro)
    BY <1>0, <2>1, <2>2, <2>3 DEF Becomes
  <2>5. OnlyRoutine(i) /\ routine'[i] = ro /\ routine' \in [RoutineIds -> Routines]
    BY <1>0, <2>4, BecomesOnly
  <2>6. TypeOK'
    BY <1>0, <2>2, <2>5, StepTypes DEF RunRecordingEval, TypeOK
  <2>7. BusyAtDefinition'
    BY <1>0, <1>1, <2>3, <2>5, OthersStayBusy DEF IInv, BusyIsRight, Busy
  <2>8. StateHasOwner' /\ WarmIsReset'
    BY <1>0, <2>2, <2>5, KeepsState DEF Owns
  <2>9. QED
    BY <2>6, <2>7, <2>8 DEF IInv
<1>3. CASE ~RecordingEnabled
  <2>1. PICK ro \in Routines : ro = Exit(routine[i])
    BY <1>0, IdleTypes
  <2>2. routine' = [routine EXCEPT ![i] = ro] /\ cache' = cache
    BY <1>3, <2>1 DEF RunRecordingEval
  <2>3. /\ ro.pc = "exited"
        /\ ro.rule = routine[i].rule /\ ro.kind = routine[i].kind
        /\ ro.cause = routine[i].cause /\ ro.born = routine[i].born
    BY <1>0, <2>1, IdleTypes
  <2>4. Becomes(i, ro)
    BY <1>0, <2>1, <2>2, <2>3 DEF Becomes
  <2>5. ~Owns(i)
    BY <1>0 DEF Owns
  <2>6. QED
    BY <1>0, <2>2, <2>3, <2>4, <2>5, ExitKeeps DEF RunRecordingEval, TypeOK, Outs
<1>4. QED
  BY <1>2, <1>3

\* Only the program counter changes.
LEMMA GotoBecomes ==
    ASSUME TypeOK, NEW i \in RoutineIds, Live(i),
           NEW label \in {"attempt", "evaluating", "backoff", "updating"}, Goto(i, label)
    PROVE  \E ro : /\ Becomes(i, ro)
                   /\ ro.pc = label /\ ro.fp = routine[i].fp /\ ro.def = routine[i].def
                   /\ ro.attempt = routine[i].attempt
<1>0. routine[i] \in Routines
  BY DEF TypeOK
<1>1. PICK ro \in Routines : ro = [routine[i] EXCEPT !.pc = label]
  BY <1>0 DEF Routines
<1>2. routine' = [routine EXCEPT ![i] = ro]
  BY <1>1 DEF Goto, TypeOK
<1>3. /\ ro.pc = label /\ ro.fp = routine[i].fp /\ ro.def = routine[i].def
      /\ ro.attempt = routine[i].attempt
      /\ ro.rule = routine[i].rule /\ ro.kind = routine[i].kind
      /\ ro.cause = routine[i].cause /\ ro.born = routine[i].born
  BY <1>0, <1>1 DEF Routines
<1>4. QED
  BY <1>1, <1>2, <1>3 DEF Becomes

LEMMA StartAttemptKeeps ==
    ASSUME IInv, NEW i \in RoutineIds, StartAttempt(i)
    PROVE  IInv'
<1>0. TypeOK /\ Live(i) /\ Busy(i) /\ routine[i].pc = "attempt"
  BY DEF IInv, StartAttempt, Live, Busy
<1>1. CASE routine[i].def.fp \in Paused \/ Cancelled(i)
  <2>1. routine[i].kind = "alerting" /\ ~Cancelled(i) => routine[i].fp \in Paused
    BY <1>0, <1>1 DEF IInv, BusyAtDefinition
  <2>2. Return(i) /\ cache' = cache /\ evals' \subseteq evals /\ updates' \subseteq updates
        /\ notified' = notified /\ UNCHANGED SchedulerOnly
    BY <1>1 DEF StartAttempt
  <2>3. QED
    BY <1>0, <2>1, <2>2, ReturnKeeps
<1>2. CASE ~(routine[i].def.fp \in Paused \/ Cancelled(i))
  <2>1. Goto(i, "evaluating") /\ cache' = cache
        /\ UNCHANGED <<evals, updates, notified, SchedulerOnly>>
    BY <1>2 DEF StartAttempt
  <2>2. QED
    BY <1>0, <2>1, GotoBecomes, EvaluationGoesOn
<1>3. QED
  BY <1>1, <1>2

LEMMA EvaluationEndsKeeps ==
    ASSUME IInv, NEW i \in RoutineIds, EvaluationEnds(i)
    PROVE  IInv'
<1>0. TypeOK /\ Live(i) /\ Busy(i) /\ routine[i].pc = "evaluating"
  BY DEF IInv, EvaluationEnds, Live, Busy
<1>1. CASE routine[i].kind = "alerting" /\ ~Cancelled(i)
  <2>1. Goto(i, "updating") /\ cache' = cache
        /\ UNCHANGED <<evals, updates, notified, SchedulerOnly>>
    BY <1>1 DEF EvaluationEnds
  <2>2. PICK ro : /\ Becomes(i, ro)
                  /\ ro.pc = "updating" /\ ro.fp = routine[i].fp /\ ro.def = routine[i].def
    BY <1>0, <2>1, GotoBecomes
  <2>3. QED
    BY <1>0, <1>1, <2>1, <2>2, EvaluationGoesOn DEF Becomes
<1>2. CASE ~(routine[i].kind = "alerting" /\ ~Cancelled(i))
  <2>1. Return(i) /\ cache' = cache /\ evals' \subseteq evals /\ updates' \subseteq updates
        /\ notified' = notified /\ UNCHANGED SchedulerOnly
    BY <1>2 DEF EvaluationEnds
  <2>2. QED
    BY <1>0, <1>2, <2>1, ReturnKeeps
<1>3. QED
  BY <1>1, <1>2

LEMMA EvaluationFailsKeeps ==
    ASSUME IInv, NEW i \in RoutineIds, EvaluationFails(i)
    PROVE  IInv'
<1>0. TypeOK /\ Live(i) /\ Busy(i) /\ routine[i].attempt < MaxAttempts
  BY DEF IInv, EvaluationFails, Live, Busy
<1>1. Goto(i, "backoff") /\ cache' = cache
      /\ UNCHANGED <<evals, updates, notified, SchedulerOnly>>
  BY DEF EvaluationFails
<1>2. PICK ro : /\ Becomes(i, ro)
                /\ ro.pc = "backoff" /\ ro.fp = routine[i].fp /\ ro.def = routine[i].def
                /\ ro.attempt = routine[i].attempt
  BY <1>0, <1>1, GotoBecomes
<1>3. QED
  BY <1>0, <1>1, <1>2, EvaluationGoesOn

LEMMA BackoffEndsKeeps ==
    ASSUME IInv, NEW i \in RoutineIds, BackoffEnds(i)
    PROVE  IInv'
<1>0. /\ TypeOK /\ routine[i] \in Routines /\ Live(i) /\ Busy(i)
      /\ routine[i].attempt < MaxAttempts
  BY DEF IInv, TypeOK, BackoffEnds, Live, Busy, BusyAtDefinition
<1>1. routine[i].attempt + 1 \in 0..MaxAttempts
  <2>1. routine[i].attempt \in 0..MaxAttempts
    BY <1>0 DEF Routines
  <2>2. QED
    BY <1>0, <2>1, Bounds
<1>2. PICK ro \in Routines :
         ro = [routine[i] EXCEPT !.pc = "attempt", !.attempt = routine[i].attempt + 1]
  <2>1. PICK y \in Routines : y = [routine[i] EXCEPT !.pc = "attempt"]
    BY <1>0 DEF Routines
  <2>2. [y EXCEPT !.attempt = routine[i].attempt + 1] \in Routines
    BY <1>1, FieldTypes
  <2>3. QED
    BY <1>0, <2>1, <2>2
<1>3. routine' = [routine EXCEPT ![i] = ro]
  BY <1>0, <1>2 DEF BackoffEnds, TypeOK, Routines
<1>4. /\ ro.pc = "attempt" /\ ro.fp = routine[i].fp /\ ro.def = routine[i].def
      /\ ro.rule = routine[i].rule /\ ro.kind = routine[i].kind
      /\ ro.cause = routine[i].cause /\ ro.born = routine[i].born
  BY <1>0, <1>2 DEF Routines
<1>5. Becomes(i, ro)
  BY <1>0, <1>3, <1>4 DEF Becomes
<1>6. cache' = cache /\ UNCHANGED <<evals, updates, notified, SchedulerOnly>>
  BY DEF BackoffEnds
<1>7. QED
  BY <1>0, <1>4, <1>5, <1>6, EvaluationGoesOn

LEMMA BackoffCancelledKeeps ==
    ASSUME IInv, NEW i \in RoutineIds, BackoffCancelled(i)
    PROVE  IInv'
<1>1. /\ Live(i) /\ routine[i].pc # "sending" /\ Cancelled(i)
      /\ Return(i) /\ cache' = cache /\ evals' \subseteq evals /\ updates' \subseteq updates
      /\ notified' = notified /\ UNCHANGED SchedulerOnly
  BY DEF BackoffCancelled, Live
<1>2. QED
  BY <1>1, ReturnKeeps

LEMMA ProcessEvalResultsKeeps ==
    ASSUME IInv, NEW i \in RoutineIds, ProcessEvalResults(i)
    PROVE  IInv'
<1>0. /\ TypeOK /\ routine[i] \in Routines /\ Live(i)
      /\ routine[i].kind = "alerting"
      /\ routine[i].def \in Definitions /\ routine[i].fp = routine[i].def.fp
  BY DEF IInv, TypeOK, ProcessEvalResults, Live, Busy, BusyAtDefinition
<1>1. routine[i].fp \in Fingerprints /\ routine[i].fp # 0
  BY <1>0, Bounds DEF Definitions
<1>2. PICK st \in {"normal", "firing"}, out \in Outs :
         /\ cache' = [cache EXCEPT ![routine[i].rule] = [st |-> st, fp |-> routine[i].fp]]
         /\ routine' = [routine EXCEPT ![i] =
              [Idle(@) EXCEPT !.pc = "sending", !.out = out, !.then = "select"]]
  BY <1>0 DEF ProcessEvalResults, Outs
<1>3. PICK idle \in Routines :
         /\ idle = Idle(routine[i])
         /\ idle.fp = routine[i].fp /\ idle.rule = routine[i].rule
         /\ idle.kind = routine[i].kind /\ idle.cause = routine[i].cause /\ idle.born = routine[i].born
  BY <1>0, IdleTypes
<1>4. PICK ro \in Routines : ro = [idle EXCEPT !.pc = "sending", !.out = out, !.then = "select"]
  <2>1. PICK y \in Routines : y = [idle EXCEPT !.pc = "sending"]
    BY DEF Routines
  <2>2. PICK z \in Routines : z = [y EXCEPT !.out = out]
    BY FieldTypes DEF Outs
  <2>3. [z EXCEPT !.then = "select"] \in Routines
    BY FieldTypes
  <2>4. [idle EXCEPT !.pc = "sending", !.out = out, !.then = "select"]
           = [z EXCEPT !.then = "select"]
    BY <2>1, <2>2 DEF Routines
  <2>5. QED
    BY <2>3, <2>4
<1>5. routine' = [routine EXCEPT ![i] = ro]
  BY <1>0, <1>2, <1>3, <1>4 DEF TypeOK
<1>6. /\ ro.pc = "sending" /\ ro.then = "select" /\ ro.fp = routine[i].fp
      /\ ro.rule = routine[i].rule /\ ro.kind = routine[i].kind
      /\ ro.cause = routine[i].cause /\ ro.born = routine[i].born
  BY <1>3, <1>4 DEF Routines
<1>7. Becomes(i, ro)
  BY <1>0, <1>5, <1>6 DEF Becomes
<1>8. OnlyRoutine(i) /\ routine'[i] = ro /\ routine' \in [RoutineIds -> Routines]
  BY <1>0, <1>7, BecomesOnly
<1>9. cache' \in [Rules -> RuleStates]
  <2>1. [st |-> st, fp |-> routine[i].fp] \in RuleStates
    BY <1>1 DEF RuleStates
  <2>2. QED
    BY <1>0, <1>2, <2>1 DEF TypeOK
<1>10. TypeOK'
  BY <1>0, <1>8, <1>9, StepTypes DEF ProcessEvalResults, TypeOK
<1>11. BusyAtDefinition'
  BY <1>6, <1>8, OthersStayBusy DEF IInv, BusyIsRight, Busy
<1>12. Owns(i)'
  BY <1>0, <1>6, <1>8 DEF Owns, Live
<1>13. cache' = [cache EXCEPT ![routine[i].rule] = [st |-> st, fp |-> routine'[i].fp]]
  BY <1>2, <1>6, <1>8
<1>14. StateHasOwner' /\ WarmIsReset'
  BY <1>1, <1>6, <1>8, <1>12, <1>13, WritesState
<1>15. QED
  BY <1>10, <1>11, <1>14 DEF IInv

LEMMA SendKeeps ==
    ASSUME IInv, NEW i \in RoutineIds, Send(i)
    PROVE  IInv'
<1>0. TypeOK /\ routine[i] \in Routines /\ Live(i) /\ routine[i].pc = "sending"
  BY DEF IInv, TypeOK, Send, Live
<1>1. notified' \in [Rules -> Outs]
  BY <1>0 DEF Send, TypeOK, Routines, Outs
<1>2. PICK sent \in Routines : sent = [routine[i] EXCEPT !.out = "none", !.then = "select"]
  <2>1. PICK y \in Routines : y = [routine[i] EXCEPT !.out = "none"]
    BY <1>0, FieldTypes
  <2>2. [y EXCEPT !.then = "select"] \in Routines
    BY FieldTypes
  <2>3. QED
    BY <1>0, <2>1, <2>2
<1>3. /\ sent.fp = routine[i].fp /\ sent.def = routine[i].def /\ sent.then = "select"
      /\ sent.rule = routine[i].rule /\ sent.kind = routine[i].kind
      /\ sent.cause = routine[i].cause /\ sent.born = routine[i].born
  BY <1>0, <1>2 DEF Routines
<1>4. CASE routine[i].then = "exited"
  <2>1. PICK ro \in Routines : ro = Exit(sent)
    BY IdleTypes
  <2>2. routine' = [routine EXCEPT ![i] = ro]
    BY <1>2, <1>4, <2>1 DEF Send
  <2>3. /\ ro.pc = "exited"
        /\ ro.rule = routine[i].rule /\ ro.kind = routine[i].kind
        /\ ro.cause = routine[i].cause /\ ro.born = routine[i].born
    BY <1>3, <2>1, IdleTypes
  <2>4. Becomes(i, ro)
    BY <1>0, <2>1, <2>2, <2>3 DEF Becomes
  <2>5. ~Owns(i)
    BY <1>0, <1>4 DEF Owns
  <2>6. QED
    BY <1>1, <2>3, <2>4, <2>5, ExitKeeps DEF Send
<1>5. CASE routine[i].then # "exited"
  <2>0. routine[i].then \in {"select", "attempt"}
    BY <1>0, <1>5 DEF Routines
  <2>1. PICK ro \in Routines : ro = [sent EXCEPT !.pc = routine[i].then]
    BY <2>0 DEF Routines
  <2>2. routine' = [routine EXCEPT ![i] = ro] /\ cache' = cache
    BY <1>2, <1>5, <2>1 DEF Send
  <2>3. /\ ro.pc = routine[i].then /\ ro.then = "select" /\ ro.fp = routine[i].fp
        /\ ro.def = routine[i].def
        /\ ro.rule = routine[i].rule /\ ro.kind = routine[i].kind
        /\ ro.cause = routine[i].cause /\ ro.born = routine[i].born
    BY <1>3, <2>1 DEF Routines
  <2>4. Becomes(i, ro)
    BY <1>0, <2>1, <2>2, <2>3 DEF Becomes
  <2>5. OnlyRoutine(i) /\ routine'[i] = ro /\ routine' \in [RoutineIds -> Routines]
    BY <1>0, <2>4, BecomesOnly
  <2>6. TypeOK'
    BY <1>0, <1>1, <2>2, <2>5, StepTypes DEF Send, TypeOK, Outs
  <2>7. BusyAtDefinition'
    <3>1. Busy(i)' => Busy(i)
      BY <1>0, <2>0, <2>3, <2>5 DEF Busy
    <3>2. routine'[i].pc \notin {"backoff", "updating"}
      BY <2>0, <2>3, <2>5
    <3>3. QED
      BY <2>3, <2>5, <3>1, <3>2, OthersStayBusy DEF IInv, BusyAtDefinition, BusyIsRight
  <2>8. Owns(i) => Owns(i)'
    BY <2>0, <2>3, <2>5 DEF Owns, Live
  <2>9. AtRest(i)' => AtRest(i)
    BY <1>0, <2>0, <2>3, <2>5 DEF AtRest
  <2>10. routine[i].kind = "alerting" /\ ~Cancelled(i) /\ Warm(routine[i].rule) =>
            routine[i].fp \notin Paused /\ (AtRest(i) => routine[i].fp = 0)
    BY <1>0 DEF IInv, WarmIsReset
  <2>11. StateHasOwner' /\ WarmIsReset'
    BY <2>2, <2>3, <2>5, <2>8, <2>9, <2>10, KeepsState
  <2>12. QED
    BY <2>6, <2>7, <2>11 DEF IInv
<1>6. QED
  BY <1>4, <1>5

LEMMA RunDoneKeeps ==
    ASSUME IInv, NEW i \in RoutineIds, RunDone(i)
    PROVE  IInv'
<1>0. TypeOK /\ routine[i] \in Routines /\ Live(i)
  BY DEF IInv, TypeOK, RunDone, Live
<1>1. CASE routine[i].kind = "alerting"
  <2>a. (IF routine[i].cause = "deleted" THEN Expired(i) ELSE "none") \in Outs
    BY ExpiredTypes DEF Outs
  <2>0. PICK out \in Outs : out = IF routine[i].cause = "deleted" THEN Expired(i) ELSE "none"
    BY <2>a
  <2>1. PICK ro : ro = ToSend(routine[i], routine[i].fp, out, "exited")
    OBVIOUS
  <2>2. DropState(i) /\ routine' = [routine EXCEPT ![i].pc = "sending", ![i].then = "exited",
                                       ![i].out = out]
    BY <1>1, <2>0 DEF RunDone
  <2>3. routine' = [routine EXCEPT ![i] = ro]
    BY <1>0, <2>1, <2>2 DEF ToSend, TypeOK, Routines
  <2>4. /\ ro \in Routines
        /\ ro.pc = "sending" /\ ro.then = "exited"
        /\ ro.rule = routine[i].rule /\ ro.kind = routine[i].kind
        /\ ro.cause = routine[i].cause /\ ro.born = routine[i].born
    <3>1. routine[i].fp \in Fingerprints \cup {0} /\ "exited" \in Thens
      BY <1>0 DEF Routines, Thens
    <3>2. PICK old \in Routines : old = routine[i]
      BY <1>0
    <3>3. PICK fp \in Fingerprints \cup {0} : fp = routine[i].fp
      BY <3>1
    <3>4. PICK then \in Thens : then = "exited"
      BY <3>1
    <3>5. ro = ToSend(old, fp, out, then)
      BY <2>1, <3>2, <3>3, <3>4
    <3>6. ro \in Routines /\ ro.pc = "sending" /\ ro.then = then
      BY <3>5, ToSendTypes
    <3>7. ro.rule = old.rule /\ ro.kind = old.kind /\ ro.cause = old.cause /\ ro.born = old.born
      BY <3>5, ToSendKeeps
    <3>8. QED
      BY <3>2, <3>4, <3>6, <3>7
  <2>5. Becomes(i, ro)
    BY <1>0, <2>3, <2>4 DEF Becomes
  <2>6. OnlyRoutine(i) /\ routine'[i] = ro /\ routine' \in [RoutineIds -> Routines]
    BY <1>0, <2>5, BecomesOnly
  <2>7. TypeOK'
    BY <1>0, <2>2, <2>6, DropStateTypes, StepTypes DEF RunDone, TypeOK
  <2>8. BusyAtDefinition'
    BY <2>4, <2>6, OthersStayBusy DEF IInv, BusyIsRight, Busy
  <2>9. QED
    BY <2>2, <2>6, <2>7, <2>8, DropsState DEF IInv
<1>2. CASE routine[i].kind # "alerting"
  <2>1. PICK ro \in Routines : ro = Exit(routine[i])
    BY <1>0, IdleTypes
  <2>2. routine' = [routine EXCEPT ![i] = ro] /\ cache' = cache
    BY <1>2, <2>1 DEF RunDone
  <2>3. /\ ro.pc = "exited"
        /\ ro.rule = routine[i].rule /\ ro.kind = routine[i].kind
        /\ ro.cause = routine[i].cause /\ ro.born = routine[i].born
    BY <1>0, <2>1, IdleTypes
  <2>4. Becomes(i, ro)
    BY <1>0, <2>1, <2>2, <2>3 DEF Becomes
  <2>5. ~Owns(i)
    BY <1>2 DEF Owns
  <2>6. QED
    BY <1>0, <2>2, <2>3, <2>4, <2>5, ExitKeeps DEF RunDone, TypeOK, Outs
<1>3. QED
  BY <1>1, <1>2

-----------------------------------------------------------------------------
(* The steps of the API and of the goroutines that call Eval and Update *)

LEMMA UntouchedKeeps ==
    ASSUME IInv, TypeOK', UNCHANGED <<routine, cache>>
    PROVE  IInv'
BY DEF IInv, BusyAtDefinition, StateHasOwner, WarmIsReset, Busy, Owns, Live, AtRest, Warm,
   Cancelled

LEMMA ApiKeeps ==
    ASSUME IInv, API
    PROVE  IInv'
<1>0. TypeOK
  BY DEF IInv
<1> SUFFICES ASSUME NEW r \in Rules,
                    InsertAlertRule(r) \/ UpdateAlertRule(r) \/ DeleteAlertRule(r)
             PROVE  IInv'
  BY DEF API
<1>1. /\ db' \in [Rules -> Definitions \cup {NoRule}]
      /\ creates' \in 0..MaxCreates
  <2>1. CASE InsertAlertRule(r)
    <3>1. PICK f \in Fingerprints : db' = [db EXCEPT ![r] = [ver |-> 1, fp |-> f]]
      BY <2>1 DEF InsertAlertRule
    <3>2. 1 \in 1..MaxVersion
      BY Bounds
    <3>3. [ver |-> 1, fp |-> f] \in Definitions
      BY <3>2 DEF Definitions
    <3>4. db' \in [Rules -> Definitions \cup {NoRule}]
      BY <1>0, <3>1, <3>3 DEF TypeOK
    <3>5. creates \in 0..MaxCreates /\ creates < MaxCreates /\ creates' = creates + 1
      BY <1>0, <2>1 DEF TypeOK, InsertAlertRule
    <3>6. creates' \in 0..MaxCreates
      BY <3>5, Bounds
    <3>7. QED
      BY <3>4, <3>6
  <2>2. CASE UpdateAlertRule(r)
    <3>0. db[r] \in Definitions
      BY <1>0, <2>2 DEF TypeOK, UpdateAlertRule
    <3>1. PICK f \in Fingerprints : db' = [db EXCEPT ![r] = [ver |-> db[r].ver + 1, fp |-> f]]
      BY <2>2 DEF UpdateAlertRule
    <3>a. db[r].ver \in 1..MaxVersion /\ db[r].ver < MaxVersion
      BY <3>0, <2>2 DEF UpdateAlertRule, Definitions
    <3>2. db[r].ver + 1 \in 1..MaxVersion
      BY <3>a, Bounds
    <3>3. [ver |-> db[r].ver + 1, fp |-> f] \in Definitions
      BY <3>2 DEF Definitions
    <3>4. db' \in [Rules -> Definitions \cup {NoRule}]
      BY <1>0, <3>1, <3>3 DEF TypeOK
    <3>5. QED
      BY <1>0, <2>2, <3>4 DEF TypeOK, UpdateAlertRule
  <2>3. CASE DeleteAlertRule(r)
    BY <1>0, <2>3 DEF TypeOK, DeleteAlertRule
  <2>4. QED
    BY <2>1, <2>2, <2>3
<1>2. UNCHANGED Unscheduled
  BY DEF InsertAlertRule, UpdateAlertRule, DeleteAlertRule
<1>3. TypeOK'
  BY <1>0, <1>1, <1>2 DEF TypeOK, Unscheduled
<1>4. QED
  BY <1>2, <1>3, UntouchedKeeps DEF Unscheduled

LEMMA AtTypes ==
    ASSUME NEW msgs, NEW m \in Messages, NEW rest, rest \subseteq Messages,
           NEW phase \in {"starting", "drained", "sending"}
    PROVE  At(rest, m, phase) \subseteq Messages
BY DEF At, Messages

LEMMA EvalStepKeeps ==
    ASSUME IInv, NEW m \in evals, EvalStep(m)
    PROVE  IInv'
<1>0. TypeOK /\ m \in Messages
  BY DEF IInv, TypeOK
<1>1. evals' \subseteq Messages
  <2>1. CASE EvalDrain(m)
    <3>1. PICK rest \in Drained(evals, m) : evals' = At(rest, m, "drained")
      BY <2>1 DEF EvalDrain
    <3>2. rest \subseteq Messages
      BY <1>0 DEF Drained, TypeOK
    <3>3. QED
      BY <1>0, <3>1, <3>2, AtTypes
  <2>2. CASE EvalBlock(m)
    BY <1>0, <2>2, AtTypes DEF EvalBlock, TypeOK
  <2>3. CASE EvalCancelled(m)
    BY <1>0, <2>3 DEF EvalCancelled, TypeOK
  <2>4. QED
    BY <2>1, <2>2, <2>3 DEF EvalStep
<1>2. UNCHANGED <<db, creates, schedulable, registry, routine, updates, cache,
                  notified, tick, shutdown>>
  BY DEF EvalStep, EvalDrain, EvalBlock, EvalCancelled
<1>3. TypeOK'
  BY <1>0, <1>1, <1>2 DEF TypeOK
<1>4. QED
  BY <1>2, <1>3, UntouchedKeeps

LEMMA UpdateStepKeeps ==
    ASSUME IInv, NEW m \in updates, UpdateStep(m)
    PROVE  IInv'
<1>0. TypeOK /\ m \in Messages
  BY DEF IInv, TypeOK
<1>1. updates' \subseteq Messages
  <2>1. CASE UpdateDrain(m)
    <3>1. PICK rest \in Drained(updates, m) : updates' = At(rest, m, "drained")
      BY <2>1 DEF UpdateDrain
    <3>2. rest \subseteq Messages
      BY <1>0 DEF Drained, TypeOK
    <3>3. QED
      BY <1>0, <3>1, <3>2, AtTypes
  <2>2. CASE UpdateBlock(m)
    BY <1>0, <2>2, AtTypes DEF UpdateBlock, TypeOK
  <2>3. CASE UpdateCancelled(m)
    BY <1>0, <2>3 DEF UpdateCancelled, TypeOK
  <2>4. QED
    BY <2>1, <2>2, <2>3 DEF UpdateStep
<1>2. UNCHANGED <<db, creates, schedulable, registry, routine, evals, cache,
                  notified, tick, shutdown>>
  BY DEF UpdateStep, UpdateDrain, UpdateBlock, UpdateCancelled
<1>3. TypeOK'
  BY <1>0, <1>1, <1>2 DEF TypeOK
<1>4. QED
  BY <1>2, <1>3, UntouchedKeeps

-----------------------------------------------------------------------------
(* The steps of the scheduler: routines are created or told to stop. *)

\* i goes on, possibly stopped, but never again not stopped.
Kept(i) ==
    /\ routine'[i].rule = routine[i].rule /\ routine'[i].kind = routine[i].kind
    /\ routine'[i].pc = routine[i].pc /\ routine'[i].fp = routine[i].fp
    /\ routine'[i].def = routine[i].def /\ routine'[i].attempt = routine[i].attempt
    /\ routine'[i].then = routine[i].then /\ routine'[i].out = routine[i].out
    /\ routine'[i].born = routine[i].born
    /\ Cancelled(i) => Cancelled(i)'

Born(i) ==
    /\ routine[i].pc = "unused"
    /\ routine'[i].pc \in {"select", "created"} /\ routine'[i].fp = 0

LEMMA SchedulerKeeps ==
    ASSUME IInv, TypeOK', cache' = cache, \A i \in RoutineIds : Kept(i) \/ Born(i)
    PROVE  IInv'
<1>1. BusyAtDefinition'
  <2> SUFFICES ASSUME NEW i \in RoutineIds PROVE BusyIsRight(i)'
    BY DEF BusyAtDefinition, BusyIsRight
  <2>1. CASE Kept(i)
    BY <2>1 DEF IInv, BusyAtDefinition, BusyIsRight, Kept, Busy
  <2>2. CASE Born(i)
    BY <2>2 DEF BusyIsRight, Born, Busy
  <2>3. QED
    BY <2>1, <2>2
<1>2. StateHasOwner'
  <2> SUFFICES ASSUME NEW r \in Rules, cache[r].fp # 0
               PROVE  \E i \in RoutineIds :
                        Owns(i)' /\ routine'[i].rule = r /\ routine'[i].fp = cache[r].fp
    BY DEF StateHasOwner
  <2>1. PICK i \in RoutineIds : Owns(i) /\ routine[i].rule = r /\ routine[i].fp = cache[r].fp
    BY DEF IInv, StateHasOwner
  <2>2. Kept(i)
    BY <2>1 DEF Owns, Live, Born
  <2>3. QED
    BY <2>1, <2>2 DEF Owns, Live, Kept
<1>3. WarmIsReset'
  <2> SUFFICES ASSUME NEW i \in RoutineIds, Live(i)', routine'[i].kind = "alerting",
                      ~Cancelled(i)', Warm(routine[i].rule)'
               PROVE  routine'[i].fp \notin Paused /\ (AtRest(i)' => routine'[i].fp = 0)
    BY DEF WarmIsReset, Warm
  <2>1. CASE Kept(i)
    BY <2>1 DEF IInv, WarmIsReset, Kept, Live, AtRest, Warm
  <2>2. CASE Born(i)
    BY <2>2, SchedulerAssumption DEF Born
  <2>3. QED
    BY <2>1, <2>2
<1>4. QED
  BY <1>1, <1>2, <1>3 DEF IInv

LEMMA ShutdownKeeps ==
    ASSUME IInv, Shutdown
    PROVE  IInv'
<1>0. TypeOK
  BY DEF IInv
<1>1. \A i \in RoutineIds : routine'[i] \in Routines /\ Kept(i)
  <2> SUFFICES ASSUME NEW i \in RoutineIds PROVE routine'[i] \in Routines /\ Kept(i)
    OBVIOUS
  <2>0. routine[i] \in Routines
    BY <1>0 DEF TypeOK
  <2>1. CASE Live(i) /\ ~Cancelled(i)
    <3>1. PICK ro \in Routines : ro = [routine[i] EXCEPT !.cause = "shutdown"]
      BY <2>0, FieldTypes DEF Causes
    <3>2. routine'[i] = ro
      BY <2>1, <3>1 DEF Shutdown
    <3>3. QED
      BY <2>0, <2>1, <3>1, <3>2 DEF Kept, Routines
  <2>2. CASE ~(Live(i) /\ ~Cancelled(i))
    <3>1. routine'[i] = routine[i]
      BY <2>2 DEF Shutdown
    <3>2. QED
      BY <2>0, <3>1 DEF Kept, Cancelled
  <2>3. QED
    BY <2>1, <2>2
<1>2. routine' \in [RoutineIds -> Routines]
  BY <1>1 DEF Shutdown
<1>3. TypeOK'
  BY <1>0, <1>2 DEF TypeOK, Shutdown
<1>4. QED
  BY <1>1, <1>3, SchedulerKeeps DEF Shutdown

LEMMA FetchedTypes ==
    ASSUME TypeOK, NEW ok \in BOOLEAN
    PROVE  Fetched(ok) \in [Rules -> Definitions \cup {NoRule}]
BY DEF Fetched, TypeOK

LEMMA FreshTypes ==
    ASSUME NEW rules, Assignments(rules) # {}
    PROVE  /\ Fresh(rules) \in [New(rules) -> Unused]
           /\ New(rules) \subseteq Rules
<1>1. Fresh(rules) \in Assignments(rules)
  BY DEF Fresh
<1>2. QED
  BY <1>1 DEF Assignments, New, Restarted, Present

LEMMA KindTypes ==
    ASSUME NEW def
    PROVE  Kind(def) \in {"alerting", "recording"}
BY DEF Kind

\* What a tick makes of a routine.
LEMMA TickedTypes ==
    ASSUME TypeOK, NEW rules \in [Rules -> Definitions \cup {NoRule}],
           NEW fresh \in [New(rules) -> Unused], NEW reason \in [ToDelete(rules) -> StopReasons],
           NEW i \in RoutineIds
    PROVE  /\ Ticked(i, rules, fresh, reason) \in Routines
           /\ routine'[i] = Ticked(i, rules, fresh, reason) => Kept(i) \/ Born(i)
<1> DEFINE x == Ticked(i, rules, fresh, reason)
<1>0. routine[i] \in Routines
  BY DEF TypeOK
<1>s. StopReasons \subseteq Causes /\ "none" \notin StopReasons /\ "restarted" \in Causes
  BY SchedulerAssumption DEF Causes
<1>1. CASE \E r \in DOMAIN fresh : fresh[r] = i
  <2>1. PICK r \in DOMAIN fresh : r = CHOOSE q \in DOMAIN fresh : fresh[q] = i
    BY <1>1
  <2>2. r \in Rules
    BY DEF New, Restarted, Present
  <2>3. i \in Unused
    BY <1>1
  <2>4. PICK pc \in {"select", "created"} :
           pc = IF r \in Valid(rules) THEN "select" ELSE "created"
    OBVIOUS
  <2>5. PICK cause \in Causes : cause = IF r \in DOMAIN reason THEN reason[r] ELSE "none"
    <3>1. r \in DOMAIN reason => reason[r] \in Causes
      BY <1>s
    <3>2. "none" \in Causes
      BY DEF Causes
    <3>3. QED
      BY <3>1, <3>2
  <2>6. PICK new : new = NewRoutine(r, rules[r], pc)
    OBVIOUS
  <2>b. PICK born \in {"alone", "overlapping"} :
           born = IF \E j \in RoutineIds : Evaluates(j, r) /\ Live(j)
                  THEN "overlapping" ELSE "alone"
    OBVIOUS
  <2>7. x = [new EXCEPT !.cause = cause, !.born = born]
    BY <1>1, <2>1, <2>4, <2>5, <2>6, <2>b DEF Ticked
  <2>8. new \in Routines /\ new.pc = pc /\ new.fp = 0
    <3>1. 0 \in 0..MaxAttempts
      BY Bounds
    <3>2. PICK kind \in {"alerting", "recording"} : kind = Kind(rules[r])
      BY KindTypes
    <3>3. new = [rule |-> r, kind |-> kind, pc |-> pc, cause |-> "none", fp |-> 0,
                 def |-> NoRule, attempt |-> 0, out |-> "none", then |-> "select",
                 born |-> "alone"]
      BY <2>6, <3>2 DEF NewRoutine
    <3>4. QED
      BY <2>2, <3>1, <3>3 DEF Routines
  <2>9. x \in Routines
    <3>1. PICK y \in Routines : y = [new EXCEPT !.cause = cause]
      BY <2>8, FieldTypes
    <3>2. PICK z \in Routines : z = [y EXCEPT !.born = born]
      BY FieldTypes
    <3>3. [new EXCEPT !.cause = cause, !.born = born] = z
      BY <2>8, <3>1, <3>2 DEF Routines
    <3>4. QED
      BY <2>7, <3>3
  <2>10. x.pc \in {"select", "created"} /\ x.fp = 0
    BY <2>7, <2>8 DEF Routines
  <2>11. routine'[i] = x => Born(i)
    BY <2>3, <2>10 DEF Born, Unused
  <2>12. QED
    BY <2>9, <2>11
<1>2. CASE /\ ~(\E r \in DOMAIN fresh : fresh[r] = i)
           /\ \/ \E r \in Restarted(rules) : registry[r] = i
              \/ \E r \in DOMAIN reason : registry[r] = i
  <2>1. PICK cause \in Causes \ {"none"} : x = [routine[i] EXCEPT !.cause = cause]
    <3>1. CASE \E r \in Restarted(rules) : registry[r] = i
      <4>1. x = [routine[i] EXCEPT !.cause = "restarted"]
        BY <1>2, <3>1 DEF Ticked
      <4>2. QED
        BY <4>1, <1>s
    <3>2. CASE ~(\E r \in Restarted(rules) : registry[r] = i)
      <4>1. PICK r \in DOMAIN reason : r = CHOOSE q \in DOMAIN reason : registry[q] = i
        BY <1>2, <3>2
      <4>2. x = [routine[i] EXCEPT !.cause = reason[r]]
        BY <1>2, <3>2, <4>1 DEF Ticked
      <4>3. reason[r] \in Causes \ {"none"}
        BY <1>s
      <4>4. QED
        BY <4>2, <4>3
    <3>3. QED
      BY <3>1, <3>2
  <2>2. x \in Routines
    <3>1. PICK y \in Routines : y = [routine[i] EXCEPT !.cause = cause]
      BY <1>0, FieldTypes
    <3>2. QED
      BY <2>1, <3>1
  <2>3. /\ x.rule = routine[i].rule /\ x.kind = routine[i].kind
        /\ x.pc = routine[i].pc /\ x.fp = routine[i].fp
        /\ x.def = routine[i].def /\ x.attempt = routine[i].attempt
        /\ x.then = routine[i].then /\ x.out = routine[i].out /\ x.cause # "none"
        /\ x.born = routine[i].born
    BY <1>0, <2>1 DEF Routines
  <2>4. routine'[i] = x => Kept(i)
    BY <2>3 DEF Kept, Cancelled
  <2>5. QED
    BY <2>2, <2>4
<1>3. CASE /\ ~(\E r \in DOMAIN fresh : fresh[r] = i)
           /\ ~(\E r \in Restarted(rules) : registry[r] = i)
           /\ ~(\E r \in DOMAIN reason : registry[r] = i)
  <2>1. x = routine[i]
    BY <1>3 DEF Ticked
  <2>2. routine'[i] = x => Kept(i)
    BY <2>1 DEF Kept, Cancelled
  <2>3. QED
    BY <1>0, <2>1, <2>2
<1>4. QED
  BY <1>1, <1>2, <1>3

LEMMA NewMessageTypes ==
    ASSUME NEW i \in RoutineIds, NEW def \in Definitions, NEW msgs, FreeSlots(i, msgs) # {}
    PROVE  NewMessage(i, def, msgs) \in Messages
<1>1. (CHOOSE k \in FreeSlots(i, msgs) : TRUE) \in 1..MaxPending
  BY DEF FreeSlots
<1>2. QED
  BY <1>1 DEF NewMessage, Messages

LEMMA ProcessTickKeeps ==
    ASSUME IInv, NEW ok \in BOOLEAN, ProcessTick(ok)
    PROVE  IInv'
<1> DEFINE rules == Fetched(ok)
           fresh == Fresh(rules)
           routineOf == [r \in Present(rules) |->
                           IF r \in New(rules) THEN fresh[r] ELSE registry[r]]
           ready == {r \in Valid(rules) : tick % Frequency[rules[r].fp] = Offset[rules[r].fp]}
           notify == {r \in (UpdatedRules(rules) \cap Valid(rules)) \ ready :
                        Kind(rules[r]) = "alerting"}
<1>1. /\ Assignments(rules) # {}
      /\ \A r \in ready : FreeSlots(routineOf[r], evals) # {}
      /\ \A r \in notify : FreeSlots(routineOf[r], updates) # {}
      /\ \E reason \in [ToDelete(rules) -> StopReasons] :
           routine' = [i \in RoutineIds |-> Ticked(i, rules, fresh, reason)]
      /\ registry' = [r \in Rules |->
             IF r \in ToDelete(rules) THEN NoRoutine
             ELSE IF r \in Present(rules) THEN routineOf[r] ELSE registry[r]]
      /\ schedulable' = [r \in Rules |-> IF r \in ToDelete(rules) THEN NoRule ELSE rules[r]]
      /\ evals' = evals \cup {NewMessage(routineOf[r], rules[r], evals) : r \in ready}
      /\ updates' = updates \cup {NewMessage(routineOf[r], rules[r], updates) : r \in notify}
      /\ tick' = (tick + 1) % Period
      /\ UNCHANGED <<db, creates, cache, notified, shutdown>>
  BY DEF ProcessTick
<1>2. TypeOK /\ rules \in [Rules -> Definitions \cup {NoRule}]
  BY FetchedTypes DEF IInv
<1>3. fresh \in [New(rules) -> Unused]
  BY <1>1, FreshTypes
<1>4. ready \subseteq Valid(rules) /\ notify \subseteq Valid(rules)
  OBVIOUS
<1>5. \A r \in Valid(rules) : r \in Present(rules) /\ r \in Rules /\ rules[r] \in Definitions
  BY <1>2 DEF Valid, Present
<1>6. \A r \in Present(rules) : routineOf[r] \in RoutineIds
  <2> SUFFICES ASSUME NEW r \in Present(rules) PROVE routineOf[r] \in RoutineIds
    OBVIOUS
  <2>1. CASE r \in New(rules)
    BY <1>3, <2>1 DEF Unused
  <2>2. CASE r \notin New(rules)
    BY <1>2, <2>2 DEF New, Present, TypeOK
  <2>3. QED
    BY <2>1, <2>2
<1> HIDE DEF rules, fresh, routineOf, ready, notify
<1>7. PICK reason \in [ToDelete(rules) -> StopReasons] :
         routine' = [i \in RoutineIds |-> Ticked(i, rules, fresh, reason)]
  BY <1>1
<1>8. \A i \in RoutineIds : routine'[i] \in Routines /\ (Kept(i) \/ Born(i))
  <2> SUFFICES ASSUME NEW i \in RoutineIds PROVE routine'[i] \in Routines /\ (Kept(i) \/ Born(i))
    OBVIOUS
  <2>1. routine'[i] = Ticked(i, rules, fresh, reason)
    BY <1>7
  <2>2. QED
    BY <1>2, <1>3, <2>1, TickedTypes
<1>9. routine' \in [RoutineIds -> Routines]
  BY <1>7, <1>8
<1>10. /\ registry' \in [Rules -> RoutineIds \cup {NoRoutine}]
       /\ schedulable' \in [Rules -> Definitions \cup {NoRule}]
  BY <1>1, <1>2, <1>6 DEF TypeOK
<1>11. /\ \A r \in ready : NewMessage(routineOf[r], rules[r], evals) \in Messages
       /\ \A r \in notify : NewMessage(routineOf[r], rules[r], updates) \in Messages
  BY <1>1, <1>4, <1>5, <1>6, NewMessageTypes
<1>12. evals' \subseteq Messages /\ updates' \subseteq Messages
  BY <1>1, <1>2, <1>11 DEF TypeOK
<1>13. tick' \in 0..(Period - 1)
  <2>1. tick \in 0..(Period - 1)
    BY <1>2 DEF TypeOK
  <2>2. QED
    BY <1>1, <2>1, Bounds
<1>14. TypeOK'
  BY <1>1, <1>2, <1>9, <1>10, <1>12, <1>13 DEF TypeOK
<1>15. QED
  BY <1>1, <1>8, <1>14, SchedulerKeeps

-----------------------------------------------------------------------------
\* The inductive invariant holds for ever: every step of the API, the scheduler,
\* the callers and the routines preserves it.
THEOREM Invariance == Spec => []IInv
<1>1. IInv /\ [Next]_vars => IInv'
  <2> SUFFICES ASSUME IInv, [Next]_vars PROVE IInv'
    OBVIOUS
  <2>1. CASE API
    BY <2>1, ApiKeeps
  <2>2. CASE TickWithFetch
    BY <2>2, ProcessTickKeeps DEF TickWithFetch
  <2>3. CASE TickWithFetchError
    BY <2>3, ProcessTickKeeps DEF TickWithFetchError
  <2>4. CASE Shutdown
    BY <2>4, ShutdownKeeps
  <2>5. CASE \E m \in evals : EvalStep(m)
    BY <2>5, EvalStepKeeps
  <2>6. CASE \E m \in updates : UpdateStep(m)
    BY <2>6, UpdateStepKeeps
  <2>7. CASE \E i \in RoutineIds : RoutineStep(i)
    <3>1. PICK i \in RoutineIds : RoutineStep(i)
      BY <2>7
    <3>2. CASE \E m \in updates : RunUpdate(i, m)
      BY <3>2, RunUpdateKeeps
    <3>3. CASE \E m \in evals : RunEval(i, m)
      BY <3>3, RunEvalKeeps
    <3>4. CASE \E m \in evals : RunRecordingEval(i, m)
      BY <3>4, RunRecordingEvalKeeps
    <3>5. CASE StartAttempt(i)
      BY <3>5, StartAttemptKeeps
    <3>6. CASE EvaluationEnds(i)
      BY <3>6, EvaluationEndsKeeps
    <3>7. CASE EvaluationFails(i)
      BY <3>7, EvaluationFailsKeeps
    <3>8. CASE BackoffEnds(i)
      BY <3>8, BackoffEndsKeeps
    <3>9. CASE BackoffCancelled(i)
      BY <3>9, BackoffCancelledKeeps
    <3>10. CASE ProcessEvalResults(i)
      BY <3>10, ProcessEvalResultsKeeps
    <3>11. CASE Send(i)
      BY <3>11, SendKeeps
    <3>12. CASE RunDone(i)
      BY <3>12, RunDoneKeeps
    <3>13. QED
      BY <3>1, <3>2, <3>3, <3>4, <3>5, <3>6, <3>7, <3>8, <3>9, <3>10, <3>11, <3>12
         DEF RoutineStep, Receive
  <2>8. CASE UNCHANGED vars
    <3>1. TypeOK'
      BY <2>8 DEF IInv, TypeOK, vars
    <3>2. QED
      BY <2>8, <3>1, UntouchedKeeps DEF vars
  <2>9. QED
    BY <2>1, <2>2, <2>3, <2>4, <2>5, <2>6, <2>7, <2>8 DEF Next
<1>2. QED
  BY <1>1, InitIInv, PTL DEF Spec

\* Every variable of the scheduler, of the routines and of the goroutines that
\* call them keeps its type (schedule.go, alert_rule.go, registry.go).
THEOREM TypeCorrect == Spec => []TypeOK
<1>1. IInv => TypeOK
  BY DEF IInv
<1>2. QED
  BY <1>1, Invariance, PTL

\* The state of a rule whose only routine waits for work was computed from the
\* definition that routine works on, however updates, evaluations, restarts and
\* deletions interleave (alert_rule.go, Run: the resets on updateCh and evalCh).
THEOREM StateMatchesDefinition == Spec => []StateIsOfCurrentDefinition
<1>1. IInv => StateIsOfCurrentDefinition
  <2> SUFFICES ASSUME IInv, NEW i \in RoutineIds,
                      routine[i].pc = "select", routine[i].kind = "alerting", routine[i].fp # 0,
                      ~Cancelled(i),
                      \A j \in RoutineIds \ {i} : Live(j) => routine[j].rule # routine[i].rule,
                      cache[routine[i].rule] # NoState
               PROVE  cache[routine[i].rule].fp = routine[i].fp
    BY DEF StateIsOfCurrentDefinition
  <2>1. routine[i].rule \in Rules /\ Live(i) /\ AtRest(i)
    BY DEF IInv, TypeOK, Routines, Live, AtRest
  <2>2. cache[routine[i].rule].fp # 0
    BY <2>1 DEF IInv, WarmIsReset, Warm
  <2>3. PICK j \in RoutineIds : /\ Owns(j) /\ routine[j].rule = routine[i].rule
                                /\ routine[j].fp = cache[routine[i].rule].fp
    BY <2>1, <2>2 DEF IInv, StateHasOwner
  <2>4. j = i
    BY <2>3 DEF Owns
  <2>5. QED
    BY <2>3, <2>4
<1>2. QED
  BY <1>1, Invariance, PTL


-----------------------------------------------------------------------------
(* What the Alertmanager was told *)

\* The routines of a rule, those that have ended included.
Of(r) == {i \in RoutineIds : routine[i].pc # "unused" /\ routine[i].rule = r}

Told(r) == notified[r] = "firing"

\* The Alertmanager knows what the state manager holds of the rule of i, or will
\* once i has sent its message, unless i ends with it.
Settled(i) ==
    LET r == routine[i].rule
    IN  /\ routine[i].pc \notin {"sending", "exited"} => (Told(r) <=> Firing(cache[r]))
        /\ routine[i].pc = "sending" /\ routine[i].then # "exited" =>
              /\ routine[i].out = "firing" => Firing(cache[r])
              /\ routine[i].out = "resolved" => ~Firing(cache[r])
              /\ routine[i].out = "none" => (Told(r) <=> Firing(cache[r]))

Agreement ==
    \A r \in Rules :
        /\ Of(r) = {} => (Told(r) <=> Firing(cache[r]))
        /\ \A i \in Of(r) : Of(r) = {i} /\ routine[i].kind = "alerting" => Settled(i)

\* What a routine's step does to its rule's state and to what is sent of it:
\* nothing; a reset that is then sent; the reset at its end; the result of an
\* evaluation; the sending; or the end of a recording rule's routine.
Silent(i) ==
    /\ UNCHANGED <<cache, notified>>
    /\ routine[i].pc # "sending" /\ routine'[i].pc \notin {"sending", "exited"}

Reset(i) ==
    /\ DropState(i) /\ notified' = notified /\ routine[i].kind = "alerting"
    /\ routine[i].pc # "sending" /\ routine'[i].pc = "sending"
    /\ \/ routine'[i].then # "exited" /\ routine'[i].out = Expired(i)
       \/ /\ routine'[i].then = "exited" /\ Cancelled(i)
          /\ routine'[i].out = IF routine[i].cause = "deleted" THEN Expired(i) ELSE "none"

Result(i) ==
    /\ notified' = notified /\ routine[i].pc = "updating" /\ routine[i].kind = "alerting"
    /\ routine'[i].pc = "sending" /\ routine'[i].then = "select"
    /\ \E st \in {"normal", "firing"} :
          /\ cache' = [cache EXCEPT ![routine[i].rule] = [st |-> st, fp |-> routine[i].def.fp]]
          /\ routine'[i].out = "firing" => st = "firing"
          /\ routine'[i].out = "resolved" => st = "normal"
          /\ routine'[i].out = "none" => (st = "firing" <=> Firing(cache[routine[i].rule]))

Sent(i) ==
    /\ cache' = cache
    /\ notified' = IF routine[i].out = "none" THEN notified
                   ELSE [notified EXCEPT ![routine[i].rule] = routine[i].out]
    /\ routine[i].pc = "sending" /\ routine'[i].pc = routine[i].then

Quit(i) ==
    /\ UNCHANGED <<cache, notified>>
    /\ routine[i].kind = "recording" /\ routine[i].pc # "sending" /\ routine'[i].pc = "exited"

Step(i) ==
    /\ OnlyRoutine(i)
    /\ routine[i].pc # "created" /\ routine'[i].pc \notin {"unused", "created"}
    /\ Silent(i) \/ Reset(i) \/ Result(i) \/ Sent(i) \/ Quit(i)

\* A routine that keeps its rule, kind and cause takes a step of its own.
LEMMA OnlyOne ==
    ASSUME TypeOK, NEW i \in RoutineIds, Live(i), NEW ro,
           routine' = [routine EXCEPT ![i] = ro],
           ro.rule = routine[i].rule, ro.kind = routine[i].kind, ro.cause = routine[i].cause,
           ro.born = routine[i].born
    PROVE  OnlyRoutine(i) /\ routine'[i] = ro
BY DEF TypeOK, OnlyRoutine

LEMMA RunUpdateStep ==
    ASSUME TypeOK, NEW i \in RoutineIds, NEW m, RunUpdate(i, m)
    PROVE  Step(i)
<1>1. routine[i] \in Routines /\ routine[i].pc = "select" /\ Live(i)
      /\ routine[i].kind = "alerting"
  BY DEF TypeOK, RunUpdate, Live
<1>2. CASE routine[i].fp = m.def.fp
  <2>1. routine' = routine /\ cache' = cache /\ notified' = notified
    BY <1>2 DEF RunUpdate
  <2>2. QED
    BY <1>1, <2>1 DEF Step, OnlyRoutine, Silent
<1>3. CASE routine[i].fp # m.def.fp
  <2> DEFINE ro == [routine[i] EXCEPT !.fp = m.def.fp, !.pc = "sending", !.out = Expired(i), !.then = "select"]
  <2>1. routine' = [routine EXCEPT ![i] = ro] /\ DropState(i) /\ notified' = notified
    BY <1>1, <1>3 DEF RunUpdate, TypeOK
  <2>2. /\ ro.rule = routine[i].rule /\ ro.kind = routine[i].kind
        /\ ro.cause = routine[i].cause /\ ro.born = routine[i].born
        /\ ro.pc = "sending" /\ ro.then = "select" /\ ro.out = Expired(i)
    BY <1>1 DEF Routines
  <2> HIDE DEF ro
  <2>3. OnlyRoutine(i) /\ routine'[i] = ro
    BY <1>1, <2>1, <2>2, OnlyOne
  <2>4. QED
    BY <1>1, <2>1, <2>2, <2>3 DEF Step, Reset
<1>4. QED
  BY <1>2, <1>3

LEMMA RunEvalStep ==
    ASSUME TypeOK, NEW i \in RoutineIds, NEW m, RunEval(i, m)
    PROVE  Step(i)
<1>1. routine[i] \in Routines /\ routine[i].pc = "select" /\ Live(i)
      /\ routine[i].kind = "alerting"
  BY DEF TypeOK, RunEval, Live
<1>2. CASE NeedReset(i, m.def)
  <2> DEFINE ro == [routine[i] EXCEPT !.def = m.def, !.fp = m.def.fp, !.attempt = 1, !.pc = "sending",
                                      !.out = Expired(i), !.then = "attempt"]
  <2>1. routine' = [routine EXCEPT ![i] = ro] /\ DropState(i) /\ notified' = notified
    BY <1>1, <1>2 DEF RunEval, Routines
  <2>2. /\ ro.rule = routine[i].rule /\ ro.kind = routine[i].kind
        /\ ro.cause = routine[i].cause /\ ro.born = routine[i].born
        /\ ro.pc = "sending" /\ ro.then = "attempt" /\ ro.out = Expired(i)
    BY <1>1 DEF Routines
  <2> HIDE DEF ro
  <2>3. OnlyRoutine(i) /\ routine'[i] = ro
    BY <1>1, <2>1, <2>2, OnlyOne
  <2>4. QED
    BY <1>1, <2>1, <2>2, <2>3 DEF Step, Reset
<1>3. CASE ~NeedReset(i, m.def)
  <2> DEFINE ro == [routine[i] EXCEPT !.def = m.def, !.fp = m.def.fp, !.attempt = 1, !.pc = "attempt"]
  <2>1. routine' = [routine EXCEPT ![i] = ro] /\ cache' = cache /\ notified' = notified
    BY <1>1, <1>3 DEF RunEval, Routines
  <2>2. /\ ro.rule = routine[i].rule /\ ro.kind = routine[i].kind
        /\ ro.cause = routine[i].cause /\ ro.born = routine[i].born
        /\ ro.pc = "attempt"
    BY <1>1 DEF Routines
  <2> HIDE DEF ro
  <2>3. OnlyRoutine(i) /\ routine'[i] = ro
    BY <1>1, <2>1, <2>2, OnlyOne
  <2>4. QED
    BY <1>1, <2>1, <2>2, <2>3 DEF Step, Silent
<1>4. QED
  BY <1>2, <1>3

\* An evaluation of a recording rule, and the steps inside an evaluation.
LEMMA QuietStep ==
    ASSUME TypeOK, NEW i \in RoutineIds,
           \/ \E m \in evals : RunRecordingEval(i, m)
           \/ StartAttempt(i) \/ EvaluationEnds(i) \/ EvaluationFails(i)
           \/ BackoffEnds(i) \/ BackoffCancelled(i)
    PROVE  Step(i)
<1>1. routine[i] \in Routines /\ routine[i].pc \in {"select", "attempt", "evaluating", "backoff"} /\ Live(i)
      /\ cache' = cache /\ notified' = notified
  BY DEF TypeOK, RunRecordingEval, StartAttempt, EvaluationEnds, EvaluationFails, BackoffEnds,
         BackoffCancelled, Live
<1>2. ASSUME NEW ro, routine' = [routine EXCEPT ![i] = ro], ro.rule = routine[i].rule,
             ro.kind = routine[i].kind, ro.cause = routine[i].cause /\ ro.born = routine[i].born,
             \/ ro.pc \in {"select", "attempt", "evaluating", "updating", "backoff"}
             \/ ro.pc = "exited" /\ ro.kind = "recording"
      PROVE  Step(i)
  <2>1. OnlyRoutine(i) /\ routine'[i] = ro
    BY <1>1, <1>2, OnlyOne
  <2>2. QED
    BY <1>1, <1>2, <2>1 DEF Step, Silent, Quit
<1>3. ASSUME NEW label \in {"attempt", "evaluating", "updating", "backoff"}, Goto(i, label)
      PROVE  Step(i)
  <2> DEFINE ro == [routine[i] EXCEPT !.pc = label]
  <2>1. routine' = [routine EXCEPT ![i] = ro]
    BY <1>3 DEF Goto
  <2>2. /\ ro.rule = routine[i].rule /\ ro.kind = routine[i].kind
        /\ ro.cause = routine[i].cause /\ ro.born = routine[i].born
        /\ ro.pc = label
    BY <1>1 DEF Routines
  <2> HIDE DEF ro
  <2>3. QED
    BY <1>2, <2>1, <2>2
<1>4. ASSUME Return(i) PROVE Step(i)
  <2> DEFINE ro == Idle(routine[i])
  <2>1. routine' = [routine EXCEPT ![i] = ro]
    BY <1>4 DEF Return
  <2>2. /\ ro.rule = routine[i].rule /\ ro.kind = routine[i].kind
        /\ ro.cause = routine[i].cause /\ ro.born = routine[i].born
        /\ ro.pc = "select"
    BY <1>1, IdleTypes
  <2> HIDE DEF ro
  <2>3. QED
    BY <1>2, <2>1, <2>2
<1>5. ASSUME NEW m \in evals, RunRecordingEval(i, m) PROVE Step(i)
  <2>1. CASE RecordingEnabled
    <3> DEFINE ro == [routine[i] EXCEPT !.pc = "attempt", !.def = m.def, !.attempt = 1]
    <3>1. routine' = [routine EXCEPT ![i] = ro]
      BY <1>5, <2>1 DEF RunRecordingEval
    <3>2. /\ ro.rule = routine[i].rule /\ ro.kind = routine[i].kind
          /\ ro.cause = routine[i].cause /\ ro.born = routine[i].born
          /\ ro.pc = "attempt"
      BY <1>1 DEF Routines
    <3> HIDE DEF ro
    <3>3. QED
      BY <1>2, <3>1, <3>2
  <2>2. CASE ~RecordingEnabled
    <3> DEFINE ro == Exit(routine[i])
    <3>1. routine' = [routine EXCEPT ![i] = ro] /\ routine[i].kind = "recording"
      BY <1>5, <2>2 DEF RunRecordingEval
    <3>2. /\ ro.rule = routine[i].rule /\ ro.kind = routine[i].kind
          /\ ro.cause = routine[i].cause /\ ro.born = routine[i].born
          /\ ro.pc = "exited"
      BY <1>1, IdleTypes
    <3> HIDE DEF ro
    <3>3. QED
      BY <1>2, <3>1, <3>2
  <2>3. QED
    BY <2>1, <2>2
<1>6. ASSUME BackoffEnds(i) PROVE Step(i)
  <2> DEFINE ro == [routine[i] EXCEPT !.pc = "attempt", !.attempt = @ + 1]
  <2>1. routine' = [routine EXCEPT ![i] = ro]
    BY <1>1, <1>6 DEF BackoffEnds, TypeOK
  <2>2. /\ ro.rule = routine[i].rule /\ ro.kind = routine[i].kind
        /\ ro.cause = routine[i].cause /\ ro.born = routine[i].born
        /\ ro.pc = "attempt"
    BY <1>1 DEF Routines
  <2> HIDE DEF ro
  <2>3. QED
    BY <1>2, <2>1, <2>2
<1>7. QED
  BY <1>3, <1>4, <1>5, <1>6 DEF StartAttempt, EvaluationEnds, EvaluationFails, BackoffCancelled

LEMMA ResultStep ==
    ASSUME IInv, NEW i \in RoutineIds, ProcessEvalResults(i)
    PROVE  Step(i)
<1>1. routine[i] \in Routines /\ routine[i].pc = "updating" /\ routine[i].kind = "alerting" /\ Live(i)
      /\ TypeOK
  BY DEF IInv, TypeOK, BusyAtDefinition, ProcessEvalResults, Live
<1>2. PICK st \in {"normal", "firing"}, out \in {"none", "firing", "resolved"} :
         /\ CASE st = "firing" /\ ~Firing(cache[routine[i].rule]) -> out = "firing"
              [] st = "firing" /\ Firing(cache[routine[i].rule]) -> out \in {"none", "firing"}
              [] st = "normal" /\ Firing(cache[routine[i].rule]) -> out = "resolved"
              [] OTHER -> out = "none"
         /\ cache' = [cache EXCEPT ![routine[i].rule] = [st |-> st, fp |-> routine[i].def.fp]]
         /\ routine' = [routine EXCEPT ![i] =
              [Idle(@) EXCEPT !.pc = "sending", !.out = out, !.then = "select"]]
  BY DEF ProcessEvalResults
<1> DEFINE x == Idle(routine[i])   ro == [x EXCEPT !.pc = "sending", !.out = out, !.then = "select"]
<1>3. routine' = [routine EXCEPT ![i] = ro] /\ notified' = notified
  BY <1>1, <1>2 DEF TypeOK, ProcessEvalResults
<1>4. /\ x \in Routines /\ x.rule = routine[i].rule /\ x.kind = routine[i].kind
      /\ x.cause = routine[i].cause /\ x.born = routine[i].born
  BY <1>1, IdleTypes
<1> HIDE DEF x
<1>5. /\ ro.rule = routine[i].rule /\ ro.kind = routine[i].kind
      /\ ro.cause = routine[i].cause /\ ro.born = routine[i].born
      /\ ro.pc = "sending" /\ ro.then = "select" /\ ro.out = out
  BY <1>4 DEF Routines
<1> HIDE DEF ro
<1>6. OnlyRoutine(i) /\ routine'[i] = ro
  BY <1>1, <1>3, <1>5, OnlyOne
<1>7. /\ out = "firing" => st = "firing"
      /\ out = "resolved" => st = "normal"
      /\ out = "none" => (st = "firing" <=> Firing(cache[routine[i].rule]))
  BY <1>2
<1>8. Result(i)
  BY <1>1, <1>2, <1>3, <1>5, <1>6, <1>7 DEF Result
<1>9. QED
  BY <1>1, <1>5, <1>6, <1>8 DEF Step

LEMMA SendStep ==
    ASSUME TypeOK, NEW i \in RoutineIds, Send(i)
    PROVE  Step(i)
<1>1. routine[i] \in Routines /\ routine[i].pc = "sending" /\ Live(i) /\ cache' = cache
      /\ notified' = IF routine[i].out = "none" THEN notified
                     ELSE [notified EXCEPT ![routine[i].rule] = routine[i].out]
  BY DEF TypeOK, Send, Live
<1> DEFINE sent == [routine[i] EXCEPT !.out = "none", !.then = "select"]
           ro == IF routine[i].then = "exited" THEN Exit(sent) ELSE [sent EXCEPT !.pc = routine[i].then]
<1>2. routine' = [routine EXCEPT ![i] = ro]
  BY <1>1 DEF Send, TypeOK
<1>3. sent \in Routines /\ sent.rule = routine[i].rule /\ sent.kind = routine[i].kind
      /\ sent.cause = routine[i].cause /\ sent.born = routine[i].born
  BY <1>1 DEF Routines
<1> HIDE DEF sent
<1>4. /\ ro.rule = routine[i].rule /\ ro.kind = routine[i].kind
      /\ ro.cause = routine[i].cause /\ ro.born = routine[i].born
      /\ ro.pc = routine[i].then
  <2>1. CASE routine[i].then = "exited"
    BY <1>3, <2>1, IdleTypes
  <2>2. CASE routine[i].then # "exited"
    BY <1>3, <2>2 DEF Routines
  <2>3. QED
    BY <2>1, <2>2
<1> HIDE DEF ro
<1>5. OnlyRoutine(i) /\ routine'[i] = ro
  BY <1>1, <1>2, <1>4, OnlyOne
<1>6. Sent(i)
  BY <1>1, <1>4, <1>5 DEF Sent
<1>7. routine[i].then \in {"select", "attempt", "exited"}
  BY <1>1 DEF Routines
<1>8. QED
  BY <1>1, <1>4, <1>5, <1>6, <1>7 DEF Step

LEMMA RunDoneStep ==
    ASSUME TypeOK, NEW i \in RoutineIds, RunDone(i)
    PROVE  Step(i)
<1>1. routine[i] \in Routines /\ routine[i].pc = "select" /\ Live(i) /\ notified' = notified
  BY DEF TypeOK, RunDone, Live
<1>2. CASE routine[i].kind = "alerting"
  <2> DEFINE out == IF routine[i].cause = "deleted" THEN Expired(i) ELSE "none"
             ro == [routine[i] EXCEPT !.pc = "sending", !.then = "exited", !.out = out]
  <2>1. routine' = [routine EXCEPT ![i] = ro] /\ DropState(i)
    BY <1>1, <1>2 DEF RunDone, TypeOK
  <2>2. /\ ro.rule = routine[i].rule /\ ro.kind = routine[i].kind
        /\ ro.cause = routine[i].cause /\ ro.born = routine[i].born
        /\ ro.pc = "sending" /\ ro.then = "exited" /\ ro.out = out
    BY <1>1 DEF Routines
  <2> HIDE DEF ro
  <2>3. OnlyRoutine(i) /\ routine'[i] = ro
    BY <1>1, <2>1, <2>2, OnlyOne
  <2>4. Reset(i)
    BY <1>1, <1>2, <2>1, <2>2, <2>3 DEF Reset, RunDone
  <2>5. QED
    BY <1>1, <2>2, <2>3, <2>4 DEF Step
<1>3. CASE routine[i].kind # "alerting"
  <2> DEFINE ro == Exit(routine[i])
  <2>1. routine' = [routine EXCEPT ![i] = ro] /\ cache' = cache
    BY <1>1, <1>3 DEF RunDone, TypeOK
  <2>2. /\ ro.rule = routine[i].rule /\ ro.kind = routine[i].kind
        /\ ro.cause = routine[i].cause /\ ro.born = routine[i].born
        /\ ro.pc = "exited"
    BY <1>1, IdleTypes
  <2> HIDE DEF ro
  <2>3. OnlyRoutine(i) /\ routine'[i] = ro
    BY <1>1, <2>1, <2>2, OnlyOne
  <2>4. routine[i].kind = "recording"
    BY <1>1, <1>3 DEF Routines
  <2>5. QED
    BY <1>1, <2>1, <2>2, <2>3, <2>4 DEF Step, Quit
<1>4. QED
  BY <1>2, <1>3

LEMMA RoutineStepIs ==
    ASSUME IInv, NEW i \in RoutineIds, RoutineStep(i)
    PROVE  Step(i) /\ UNCHANGED SchedulerOnly
<1>1. TypeOK
  BY DEF IInv
<1>2. Step(i)
  BY <1>1, RunUpdateStep, RunEvalStep, QuietStep, ResultStep, SendStep, RunDoneStep DEF RoutineStep, Receive
<1>3. UNCHANGED SchedulerOnly
  BY DEF RoutineStep, Receive, RunUpdate, RunEval, RunRecordingEval, StartAttempt, EvaluationEnds,
         EvaluationFails, BackoffEnds, BackoffCancelled, ProcessEvalResults, Send, RunDone
<1>4. QED
  BY <1>2, <1>3

\* What a step does to its own rule and what it leaves alone.
LEMMA StepIs ==
    ASSUME TypeOK, NEW i \in RoutineIds, Step(i)
    PROVE  /\ routine[i].rule \in Rules /\ i \in Of(routine[i].rule)
           /\ \A r \in Rules : Of(r)' = Of(r)
           /\ \A r \in Rules \ {routine[i].rule} : notified'[r] = notified[r] /\ cache'[r] = cache[r]
           /\ \A j \in RoutineIds : j # i => routine'[j] = routine[j]
           /\ \A j \in RoutineIds : routine'[j].rule = routine[j].rule
<1>1. routine[i] \in Routines /\ cache \in [Rules -> RuleStates]
      /\ notified \in [Rules -> {"none", "firing", "resolved"}]
  BY DEF TypeOK
<1>2. routine[i].rule \in Rules
  BY <1>1 DEF Routines
<1>3. \A j \in RoutineIds : routine'[j].rule = routine[j].rule /\ (j # i => routine'[j] = routine[j])
  BY DEF Step, OnlyRoutine
<1>4. routine[i].pc # "unused" /\ routine'[i].pc # "unused"
  BY DEF Step, OnlyRoutine, Live
<1>5. \A r \in Rules : Of(r)' = Of(r)
  BY <1>3, <1>4 DEF Of
<1>6. \A r \in Rules \ {routine[i].rule} : notified'[r] = notified[r] /\ cache'[r] = cache[r]
  BY <1>1 DEF Step, Silent, Reset, Result, Sent, Quit, DropState
<1>7. QED
  BY <1>2, <1>3, <1>4, <1>5, <1>6 DEF Of

-----------------------------------------------------------------------------
(* What the Alertmanager was told and what the state manager holds agree. *)

LEMMA SilentSettles ==
    ASSUME TypeOK, NEW i \in RoutineIds, Step(i), Silent(i) \/ Quit(i), routine[i].kind = "alerting",
           Settled(i)
    PROVE  Settled(i)'
<1>1. routine'[i].rule = routine[i].rule
  BY DEF Step, OnlyRoutine
<1>2. routine[i].pc \notin {"sending", "exited"} /\ routine'[i].pc \notin {"sending", "exited"}
      /\ cache' = cache /\ notified' = notified
  BY DEF Step, OnlyRoutine, Live, Silent, Quit
<1>3. QED
  BY <1>1, <1>2 DEF Settled, Told

LEMMA ResetSettles ==
    ASSUME TypeOK, NEW i \in RoutineIds, Step(i), Reset(i), Settled(i)
    PROVE  Settled(i)'
<1>1. routine'[i].rule = routine[i].rule /\ routine[i].rule \in Rules /\ cache \in [Rules -> RuleStates]
  BY StepIs DEF Step, OnlyRoutine, TypeOK
<1>2. ~Firing(cache'[routine[i].rule])
  BY <1>1 DEF Reset, DropState, Firing, NoState
<1>3. Told(routine[i].rule) <=> Firing(cache[routine[i].rule])
  BY DEF Settled, Reset, Step, OnlyRoutine, Live
<1>4. routine'[i].then # "exited" => routine'[i].out = Expired(i)
  BY DEF Reset
<1>5. Expired(i) = (IF Told(routine[i].rule) THEN "resolved" ELSE "none")
  BY <1>3 DEF Expired
<1>6. Told(routine[i].rule)' <=> Told(routine[i].rule)
  BY <1>1 DEF Told, Reset
<1>7. routine'[i].pc = "sending"
  BY DEF Reset
<1>8. QED
  BY <1>1, <1>2, <1>4, <1>5, <1>6, <1>7 DEF Settled

LEMMA ResultSettles ==
    ASSUME TypeOK, NEW i \in RoutineIds, Step(i), Result(i), Settled(i)
    PROVE  Settled(i)'
<1>1. routine'[i].rule = routine[i].rule /\ routine[i].rule \in Rules /\ cache \in [Rules -> RuleStates]
  BY StepIs DEF Step, OnlyRoutine, TypeOK
<1>2. PICK st \in {"normal", "firing"} :
          /\ cache' = [cache EXCEPT ![routine[i].rule] = [st |-> st, fp |-> routine[i].def.fp]]
          /\ routine'[i].out = "firing" => st = "firing"
          /\ routine'[i].out = "resolved" => st = "normal"
          /\ routine'[i].out = "none" => (st = "firing" <=> Firing(cache[routine[i].rule]))
  BY DEF Result
<1>3. Firing(cache'[routine[i].rule]) <=> st = "firing"
  BY <1>1, <1>2 DEF Firing
<1>4. Told(routine[i].rule) <=> Firing(cache[routine[i].rule])
  BY DEF Settled, Result
<1>5. Told(routine[i].rule)' <=> Told(routine[i].rule)
  BY <1>1 DEF Told, Result
<1>6. routine'[i].pc = "sending"
  BY DEF Result
<1>7. QED
  BY <1>1, <1>2, <1>3, <1>4, <1>5, <1>6 DEF Settled

LEMMA SentSettles ==
    ASSUME TypeOK, NEW i \in RoutineIds, Step(i), Sent(i), Settled(i)
    PROVE  Settled(i)'
<1>1. /\ routine'[i].rule = routine[i].rule /\ routine[i].rule \in Rules
      /\ notified \in [Rules -> {"none", "firing", "resolved"}]
      /\ routine[i].out \in {"none", "firing", "resolved"}
      /\ routine[i].then \in {"select", "attempt", "exited"}
  BY StepIs DEF Step, OnlyRoutine, TypeOK, Routines
<1>2. cache' = cache /\ routine[i].pc = "sending" /\ routine'[i].pc = routine[i].then
  BY DEF Sent
<1>3. CASE routine[i].then = "exited"
  BY <1>2, <1>3 DEF Settled
<1>4. CASE routine[i].then # "exited"
  <2>1. Told(routine[i].rule)' <=> IF routine[i].out = "none" THEN Told(routine[i].rule)
                                   ELSE routine[i].out = "firing"
    BY <1>1 DEF Told, Sent
  <2>2. Told(routine[i].rule)' <=> Firing(cache[routine[i].rule])
    BY <1>1, <1>2, <1>4, <2>1 DEF Settled
  <2>3. QED
    BY <1>1, <1>2, <1>4, <2>2 DEF Settled
<1>5. QED
  BY <1>3, <1>4

LEMMA RoutineStepAgrees ==
    ASSUME IInv, Agreement, NEW i \in RoutineIds, RoutineStep(i)
    PROVE  Agreement'
<1>0. TypeOK /\ Step(i)
  BY RoutineStepIs DEF IInv
<1>1. /\ routine[i].rule \in Rules /\ i \in Of(routine[i].rule)
      /\ \A r \in Rules : Of(r)' = Of(r)
      /\ \A r \in Rules \ {routine[i].rule} : notified'[r] = notified[r] /\ cache'[r] = cache[r]
      /\ \A j \in RoutineIds : j # i => routine'[j] = routine[j]
      /\ \A j \in RoutineIds : routine'[j].rule = routine[j].rule
  BY <1>0, StepIs
<1>2. routine'[i].kind = routine[i].kind
  BY <1>0 DEF Step, OnlyRoutine
<1>3. ASSUME NEW r \in Rules, Of(r) = {}
      PROVE  Told(r)' <=> Firing(cache'[r])
  BY <1>1, <1>3 DEF Agreement, Told
<1>4. ASSUME NEW r \in Rules, NEW j \in Of(r), Of(r) = {j}, routine'[j].kind = "alerting"
      PROVE  Settled(j)'
  <2>0. j \in RoutineIds /\ routine[j].rule = r
    BY DEF Of
  <2>1. CASE j # i
    <3>1. r # routine[i].rule
      BY <1>1, <1>4, <2>1
    <3>2. Settled(j) /\ routine'[j] = routine[j] /\ notified'[r] = notified[r] /\ cache'[r] = cache[r]
      BY <1>1, <1>4, <2>0, <2>1, <3>1 DEF Agreement
    <3>3. QED
      BY <2>0, <3>2 DEF Settled, Told
  <2>2. CASE j = i
    <3>1. Settled(i) /\ routine[i].kind = "alerting"
      BY <1>2, <1>4, <2>2 DEF Agreement
    <3>2. QED
      BY <1>0, <2>2, <3>1, SilentSettles, ResetSettles, ResultSettles, SentSettles DEF Step
  <2>3. QED
    BY <2>1, <2>2
<1>5. QED
  BY <1>1, <1>3, <1>4 DEF Agreement

\* The scheduler and the API leave states and notifications alone; a newborn
\* routine finds them in agreement if its rule had no other one.
LEMMA SchedulerAgrees ==
    ASSUME TypeOK, Agreement, UNCHANGED <<cache, notified>>, \A i \in RoutineIds : Kept(i) \/ Born(i)
    PROVE  Agreement'
<1>1. \A i \in RoutineIds : routine[i].pc # "unused" =>
         /\ routine'[i].rule = routine[i].rule /\ routine'[i].kind = routine[i].kind
         /\ routine'[i].pc = routine[i].pc /\ routine'[i].then = routine[i].then
         /\ routine'[i].out = routine[i].out
  BY DEF Kept, Born
<1>2. \A r \in Rules : Of(r) \subseteq Of(r)'
  BY <1>1 DEF Of
<1>3. ASSUME NEW r \in Rules, Of(r)' = {}
      PROVE  Told(r)' <=> Firing(cache'[r])
  BY <1>2, <1>3 DEF Agreement, Told
<1>4. ASSUME NEW r \in Rules, NEW i \in Of(r)', Of(r)' = {i}, routine'[i].kind = "alerting"
      PROVE  Settled(i)'
  <2>0. i \in RoutineIds /\ routine'[i].rule = r /\ routine'[i].pc # "unused"
    BY DEF Of
  <2>1. CASE routine[i].pc # "unused"
    <3>1. routine[i].rule = r /\ Of(r) = {i} /\ routine[i].kind = "alerting"
      BY <1>1, <1>2, <1>4, <2>0, <2>1 DEF Of
    <3>2. Settled(i)
      BY <3>1 DEF Agreement
    <3>3. QED
      BY <1>1, <2>0, <2>1, <3>2 DEF Settled, Told
  <2>2. CASE routine[i].pc = "unused"
    <3>1. Of(r) = {}
      BY <1>2, <1>4, <2>2 DEF Of
    <3>2. Told(r) <=> Firing(cache[r])
      BY <3>1 DEF Agreement
    <3>3. routine'[i].pc \in {"select", "created"}
      BY <2>0, <2>2 DEF Kept, Born
    <3>4. QED
      BY <2>0, <3>2, <3>3 DEF Settled, Told
  <2>3. QED
    BY <2>1, <2>2
<1>5. QED
  BY <1>3, <1>4 DEF Agreement

-----------------------------------------------------------------------------
(* What a tick does to the routines *)

\* A tick makes i the routine of r.
Made(i, r, rules) ==
    /\ routine[i].pc = "unused"
    /\ routine'[i].rule = r /\ routine'[i].kind = Kind(rules[r])
    /\ routine'[i].pc = (IF r \in Valid(rules) THEN "select" ELSE "created")
    /\ r \notin ToDelete(rules) => routine'[i].cause = "none"
    /\ routine'[i].born = "alone" => \A j \in RoutineIds : Evaluates(j, r) => ~ Live(j)

\* A tick stops i, the registered routine of r: the rule changed its type, or
\* cannot be scheduled any more.
Stopped(i, r, rules) ==
    /\ registry[r] = i
    /\ \/ r \in Restarted(rules) /\ routine'[i].cause = "restarted"
       \/ r \in ToDelete(rules) /\ routine'[i].cause \in StopReasons

LEMMA TickedIs ==
    ASSUME TypeOK, NEW rules \in [Rules -> Definitions \cup {NoRule}],
           NEW fresh \in [New(rules) -> Unused], \A r, s \in New(rules) : fresh[r] = fresh[s] => r = s,
           NEW reason \in [ToDelete(rules) -> StopReasons],
           NEW i \in RoutineIds, routine'[i] = Ticked(i, rules, fresh, reason)
    PROVE  /\ \A r \in New(rules) : fresh[r] = i => Made(i, r, rules)
           /\ routine[i].pc # "unused" =>
                 routine'[i] = routine[i] \/ \E r \in Rules : Stopped(i, r, rules)
           /\ routine[i].pc # "unused" =>
                 \A r \in Restarted(rules) : registry[r] = i => routine'[i].cause = "restarted"
           /\ routine[i].pc = "unused" =>
                 routine'[i].pc = "unused" \/ \E r \in New(rules) : fresh[r] = i
<1>0. routine[i] \in Routines /\ New(rules) \subseteq Rules /\ Restarted(rules) \subseteq Rules
      /\ ToDelete(rules) \subseteq Rules /\ StopReasons \subseteq Causes
  BY SchedulerAssumption DEF TypeOK, New, Restarted, Present, ToDelete, Causes
<1>1. ASSUME NEW r \in New(rules), fresh[r] = i
      PROVE  Made(i, r, rules)
  <2>1. r = CHOOSE q \in DOMAIN fresh : fresh[q] = i
    BY <1>1
  <2> DEFINE pc == IF r \in Valid(rules) THEN "select" ELSE "created"
             kind == Kind(rules[r])
             cause == IF r \in DOMAIN reason THEN reason[r] ELSE "none"
             born == IF \E j \in RoutineIds : Evaluates(j, r) /\ Live(j)
                     THEN "overlapping" ELSE "alone"
  <2>2. Ticked(i, rules, fresh, reason)
          = [NewRoutine(r, rules[r], pc) EXCEPT !.cause = cause, !.born = born]
    BY <1>1, <2>1 DEF Ticked
  <2>3. PICK new : /\ new = NewRoutine(r, rules[r], pc)
                   /\ new = [rule |-> r, kind |-> kind, pc |-> pc, cause |-> "none", fp |-> 0,
                             def |-> NoRule, attempt |-> 0, out |-> "none", then |-> "select",
                             born |-> "alone"]
    BY DEF NewRoutine
  <2>4. r \notin ToDelete(rules) => cause = "none"
    OBVIOUS
  <2>5. routine[i].pc = "unused"
    BY <1>1 DEF Unused
  <2>a. born = "alone" => \A j \in RoutineIds : Evaluates(j, r) => ~ Live(j)
    OBVIOUS
  <2> HIDE DEF pc, kind, cause, born
  <2>6. routine'[i] = [new EXCEPT !.cause = cause, !.born = born]
    BY <2>2, <2>3
  <2>7. /\ routine'[i].rule = r /\ routine'[i].kind = kind /\ routine'[i].pc = pc
        /\ routine'[i].cause = cause /\ routine'[i].born = born
    BY <2>3, <2>6
  <2>8. QED
    BY <2>4, <2>5, <2>7, <2>a DEF Made, pc, kind
<1>2. CASE routine[i].pc # "unused"
  <2>1. ~ \E r \in DOMAIN fresh : fresh[r] = i
    BY <1>2 DEF Unused
  <2>2. CASE \E r \in Restarted(rules) : registry[r] = i
    <3>1. routine'[i] = [routine[i] EXCEPT !.cause = "restarted"]
      BY <2>1, <2>2 DEF Ticked
    <3>2. routine'[i].cause = "restarted"
      BY <1>0, <3>1 DEF Routines
    <3>3. QED
      BY <1>0, <1>1, <1>2, <2>2, <3>2 DEF Stopped
  <2>3. CASE /\ ~ \E r \in Restarted(rules) : registry[r] = i
             /\ \E r \in DOMAIN reason : registry[r] = i
    <3>1. PICK r \in DOMAIN reason : registry[r] = i /\ r = CHOOSE q \in DOMAIN reason : registry[q] = i
      BY <2>3
    <3>2. routine'[i] = [routine[i] EXCEPT !.cause = reason[r]]
      BY <2>1, <2>3, <3>1 DEF Ticked
    <3>3. reason[r] \in StopReasons /\ r \in ToDelete(rules)
      OBVIOUS
    <3>4. routine'[i].cause = reason[r]
      BY <1>0, <3>2 DEF Routines
    <3>5. QED
      BY <1>0, <1>1, <1>2, <2>3, <3>1, <3>3, <3>4 DEF Stopped
  <2>4. CASE /\ ~ \E r \in Restarted(rules) : registry[r] = i
             /\ ~ \E r \in DOMAIN reason : registry[r] = i
    <3>1. routine'[i] = routine[i]
      BY <2>1, <2>4 DEF Ticked
    <3>2. QED
      BY <1>1, <1>2, <2>4, <3>1
  <2>5. QED
    BY <2>2, <2>3, <2>4
<1>3. CASE routine[i].pc = "unused"
  <2>1. ASSUME ~ \E r \in New(rules) : fresh[r] = i
        PROVE  routine'[i].pc = "unused"
    <3>1. PICK cause : routine'[i] = [routine[i] EXCEPT !.cause = cause] \/ routine'[i] = routine[i]
      BY <2>1 DEF Ticked
    <3>2. QED
      BY <1>0, <1>3, <3>1 DEF Routines
  <2>2. QED
    BY <1>1, <1>3, <2>1
<1>4. QED
  BY <1>2, <1>3

\* A tick that works with these rules and makes fresh[r] the routine of r.
TickWith(rules, fresh) ==
    /\ rules \in {db, schedulable} /\ fresh \in [New(rules) -> Unused]
    /\ \A i \in RoutineIds :
          /\ Kept(i) \/ Born(i)
          /\ \A r \in New(rules) : fresh[r] = i => Made(i, r, rules)
          /\ routine[i].pc # "unused" =>
                routine'[i] = routine[i] \/ \E r \in Rules : Stopped(i, r, rules)
          /\ routine[i].pc # "unused" =>
                \A r \in Restarted(rules) : registry[r] = i => routine'[i].cause = "restarted"
          /\ routine[i].pc = "unused" =>
                routine'[i].pc = "unused" \/ \E r \in New(rules) : fresh[r] = i
    /\ \A r \in Rules :
          /\ registry'[r] = IF r \in ToDelete(rules) THEN NoRoutine
                            ELSE IF r \in New(rules) THEN fresh[r] ELSE registry[r]
          /\ schedulable'[r] = IF r \in ToDelete(rules) THEN NoRule ELSE rules[r]
    /\ ~shutdown
    /\ UNCHANGED <<db, creates, cache, notified, shutdown>>

LEMMA TickIs ==
    ASSUME TypeOK, NEW ok \in BOOLEAN, ProcessTick(ok)
    PROVE  \E rules \in {db, schedulable} : \E fresh \in [New(rules) -> Unused] : TickWith(rules, fresh)
<1> DEFINE rules == Fetched(ok)
           fresh == Fresh(rules)
<1>1. rules \in {db, schedulable} /\ rules \in [Rules -> Definitions \cup {NoRule}]
  BY DEF Fetched, TypeOK
<1>2. fresh \in Assignments(rules)
  BY DEF ProcessTick, Fresh
<1>3. fresh \in [New(rules) -> Unused] /\ (\A r, s \in New(rules) : fresh[r] = fresh[s] => r = s)
  BY <1>2 DEF Assignments
<1>4. /\ \E reason \in [ToDelete(rules) -> StopReasons] :
           routine' = [i \in RoutineIds |-> Ticked(i, rules, fresh, reason)]
      /\ registry' = [r \in Rules |->
             IF r \in ToDelete(rules) THEN NoRoutine
             ELSE IF r \in Present(rules)
                  THEN [s \in Present(rules) |-> IF s \in New(rules) THEN fresh[s] ELSE registry[s]][r]
                  ELSE registry[r]]
      /\ schedulable' = [r \in Rules |-> IF r \in ToDelete(rules) THEN NoRule ELSE rules[r]]
      /\ ~shutdown
      /\ UNCHANGED <<db, creates, cache, notified, shutdown>>
  BY DEF ProcessTick
<1>5. New(rules) \subseteq Present(rules)
  BY DEF New, Restarted
<1> HIDE DEF rules, fresh
<1>6. PICK reason \in [ToDelete(rules) -> StopReasons] :
         routine' = [i \in RoutineIds |-> Ticked(i, rules, fresh, reason)]
  BY <1>4
<1>7. ASSUME NEW i \in RoutineIds
      PROVE  /\ Kept(i) \/ Born(i)
             /\ \A r \in New(rules) : fresh[r] = i => Made(i, r, rules)
             /\ routine[i].pc # "unused" =>
                   routine'[i] = routine[i] \/ \E r \in Rules : Stopped(i, r, rules)
             /\ routine[i].pc # "unused" =>
                   \A r \in Restarted(rules) : registry[r] = i => routine'[i].cause = "restarted"
             /\ routine[i].pc = "unused" =>
                   routine'[i].pc = "unused" \/ \E r \in New(rules) : fresh[r] = i
  <2>1. routine'[i] = Ticked(i, rules, fresh, reason)
    BY <1>6
  <2>2. Kept(i) \/ Born(i)
    BY <1>1, <1>3, <2>1, TickedTypes
  <2>3. QED
    BY <1>1, <1>3, <2>1, <2>2, TickedIs
<1>8. ASSUME NEW r \in Rules
      PROVE  /\ registry'[r] = IF r \in ToDelete(rules) THEN NoRoutine
                               ELSE IF r \in New(rules) THEN fresh[r] ELSE registry[r]
             /\ schedulable'[r] = IF r \in ToDelete(rules) THEN NoRule ELSE rules[r]
  BY <1>4, <1>5
<1>9. TickWith(rules, fresh)
  BY <1>1, <1>3, <1>4, <1>7, <1>8 DEF TickWith
<1>10. QED
  BY <1>1, <1>3, <1>9

LEMMA ShutdownIs ==
    ASSUME TypeOK, Shutdown
    PROVE  \A i \in RoutineIds :
              /\ Kept(i)
              /\ routine'[i] = routine[i] \/ (Live(i) /\ ~Cancelled(i) /\ routine'[i].cause = "shutdown")
<1> SUFFICES ASSUME NEW i \in RoutineIds
             PROVE  /\ Kept(i)
                    /\ \/ routine'[i] = routine[i]
                       \/ Live(i) /\ ~Cancelled(i) /\ routine'[i].cause = "shutdown"
  OBVIOUS
<1>1. routine[i] \in Routines
  BY DEF TypeOK
<1>2. routine'[i] = IF Live(i) /\ ~Cancelled(i) THEN [routine[i] EXCEPT !.cause = "shutdown"] ELSE routine[i]
  BY DEF Shutdown
<1>3. CASE Live(i) /\ ~Cancelled(i)
  BY <1>1, <1>2, <1>3 DEF Kept, Cancelled, Routines
<1>4. CASE ~(Live(i) /\ ~Cancelled(i))
  BY <1>1, <1>2, <1>4 DEF Kept, Cancelled
<1>5. QED
  BY <1>3, <1>4

LEMMA InitAgrees == Init => Agreement
<1> SUFFICES ASSUME Init PROVE Agreement
  OBVIOUS
<1>1. \A i \in RoutineIds : routine[i].pc = "unused"
  BY DEF Init, NewRoutine
<1>2. \A r \in Rules : Of(r) = {}
  BY <1>1 DEF Of
<1>3. \A r \in Rules : notified[r] = IF Firing(cache[r]) THEN "firing" ELSE "none"
  BY DEF Init
<1>4. QED
  BY <1>2, <1>3 DEF Agreement, Told

LEMMA StepAgrees ==
    ASSUME IInv, Agreement, [Next]_vars
    PROVE  Agreement'
<1>0. TypeOK
  BY DEF IInv
<1>1. CASE UNCHANGED <<routine, cache, notified>>
  <2>1. \A i \in RoutineIds : Kept(i)
    BY <1>1 DEF Kept, Cancelled
  <2>2. QED
    BY <1>0, <1>1, <2>1, SchedulerAgrees
<1>2. CASE API \/ (\E m \in evals : EvalStep(m)) \/ (\E m \in updates : UpdateStep(m)) \/ UNCHANGED vars
  <2>1. UNCHANGED <<routine, cache, notified>>
    BY <1>2 DEF API, InsertAlertRule, UpdateAlertRule, DeleteAlertRule, Unscheduled, EvalStep, EvalDrain,
       EvalBlock, EvalCancelled, UpdateStep, UpdateDrain, UpdateBlock, UpdateCancelled, vars
  <2>2. QED
    BY <1>1, <2>1
<1>3. ASSUME NEW ok \in BOOLEAN, ProcessTick(ok)
      PROVE  Agreement'
  <2>1. \A i \in RoutineIds : Kept(i) \/ Born(i)
    BY <1>0, <1>3, TickIs DEF TickWith
  <2>2. UNCHANGED <<cache, notified>>
    BY <1>3 DEF ProcessTick
  <2>3. QED
    BY <1>0, <2>1, <2>2, SchedulerAgrees
<1>4. CASE Shutdown
  <2>1. \A i \in RoutineIds : Kept(i)
    BY <1>0, <1>4, ShutdownIs
  <2>2. QED
    BY <1>0, <1>4, <2>1, SchedulerAgrees DEF Shutdown
<1>5. CASE \E i \in RoutineIds : RoutineStep(i)
  BY <1>5, RoutineStepAgrees
<1>6. QED
  BY <1>2, <1>3, <1>4, <1>5 DEF Next, TickWithFetch, TickWithFetchError

\* Whenever the only routine a rule ever had waits for work, the Alertmanager
\* was told that the rule fires if and only if the state manager holds that it
\* does (alert_rule.go: every reset and every result is sent before Run selects
\* again).
THEOREM AlertmanagerKnows == Spec => []AlertmanagerAgrees
<1>1. Agreement /\ TypeOK => AlertmanagerAgrees
  <2> SUFFICES ASSUME Agreement, TypeOK, NEW i \in RoutineIds, routine[i].pc = "select",
                      routine[i].kind = "alerting",
                      \A j \in RoutineIds \ {i} :
                         routine[j].pc = "unused" \/ routine[j].rule # routine[i].rule
               PROVE  notified[routine[i].rule] = "firing" <=> Firing(cache[routine[i].rule])
    BY DEF AlertmanagerAgrees
  <2>1. routine[i].rule \in Rules /\ Of(routine[i].rule) = {i}
    BY DEF Of, TypeOK, Routines
  <2>2. Settled(i)
    BY <2>1 DEF Agreement
  <2>3. QED
    BY <2>2 DEF Settled, Told
<1>2. IInv /\ Agreement /\ [Next]_vars => Agreement'
  BY StepAgrees
<1>3. IInv => TypeOK
  BY DEF IInv
<1> HIDE DEF IInv, Agreement, AlertmanagerAgrees, TypeOK
<1>4. QED
  BY <1>1, <1>2, <1>3, InitAgrees, Invariance, PTL DEF Spec

-----------------------------------------------------------------------------
(* A deleted rule's alerts are resolved *)

\* While the scheduler runs, no registered routine has been told to stop.
Registered ==
    \A r \in Rules : registry[r] # NoRoutine =>
        registry[r] \in Of(r) /\ (~shutdown => ~Cancelled(registry[r]))

\* The routines that evaluate, or evaluated, the alerts of r.
Alerting(r) == {i \in RoutineIds : Evaluates(i, r)}

\* They did not overlap, and were not stopped but for the deletion of the rule.
Clean(r) ==
    \A i \in Alerting(r) : routine[i].cause \in {"none", "deleted"} /\ routine[i].born = "alone"

Alive(r) == {i \in Alerting(r) : Live(i)}

\* i has something to send, or holds a firing state that it will reset later.
Tells(i) ==
    \/ routine[i].pc = "sending" /\ routine[i].out # "none"
    \/ /\ Firing(cache[routine[i].rule])
       /\ ~(routine[i].pc = "sending" /\ routine[i].then = "exited")

OneAtATime(r) == \A i, j \in Alive(r) : i = j

\* A rule the Alertmanager believes to fire has a live routine that will tell it
\* otherwise, or is one Warm loaded, whose alerts no routine has evaluated yet.
NoneForgotten(r) ==
    /\ Alerting(r) = {} /\ Told(r) => Firing(cache[r])
    /\ Alerting(r) # {} /\ Told(r) => \E i \in Alive(r) : Tells(i)
    /\ \A i \in Alerting(r) : routine[i].pc = "sending" /\ routine[i].out = "firing" =>
          routine[i].then # "exited" /\ Firing(cache[r])

\* Recording rules' routines tell the Alertmanager nothing.
OnlyAlertingSends ==
    \A i \in RoutineIds : routine[i].pc = "sending" => routine[i].kind = "alerting"

Deletions == OnlyAlertingSends /\ \A r \in Rules : Clean(r) => OneAtATime(r) /\ NoneForgotten(r)

LEMMA AlertingFacts ==
    \A r : \A i : i \in Alerting(r) <=> i \in Of(r) /\ routine[i].kind = "alerting"
BY DEF Alerting, Evaluates, Of

LEMMA InitDeletions == Init => Registered /\ Deletions
<1> SUFFICES ASSUME Init PROVE Registered /\ Deletions
  OBVIOUS
<1>1. \A i \in RoutineIds : routine[i].pc = "unused"
  BY DEF Init, NewRoutine
<1>2. OnlyAlertingSends /\ \A r \in Rules : Alerting(r) = {} /\ Alive(r) = {}
  BY <1>1 DEF OnlyAlertingSends, Alerting, Evaluates, Alive
<1>3. \A r \in Rules : registry[r] = NoRoutine
  BY DEF Init
<1>4. \A r \in Rules : notified[r] = IF Firing(cache[r]) THEN "firing" ELSE "none"
  BY DEF Init
<1>5. Registered
  BY <1>3 DEF Registered
<1>6. \A r \in Rules : OneAtATime(r) /\ NoneForgotten(r)
  BY <1>2, <1>4 DEF OneAtATime, NoneForgotten, Told
<1>7. QED
  BY <1>2, <1>5, <1>6 DEF Deletions

LEMMA NotARoutine == NoRoutine \notin RoutineIds
BY DEF NoRoutine, RoutineIds

\* A step that changes neither the routines nor what is known of the rule.
LEMMA UnchangedRule ==
    ASSUME NEW r, \A i \in RoutineIds : routine'[i] = routine[i],
           cache'[r] = cache[r], notified'[r] = notified[r],
           OneAtATime(r), NoneForgotten(r)
    PROVE  OneAtATime(r)' /\ NoneForgotten(r)'
<1>1. Alerting(r)' = Alerting(r) /\ Alive(r)' = Alive(r)
      /\ \A i \in Alerting(r) : i \in RoutineIds /\ routine[i].rule = r
  BY DEF Alerting, Evaluates, Alive, Live
<1>2. \A i \in Alive(r) : Tells(i) => Tells(i)'
  BY <1>1 DEF Tells, Alive
<1>3. OneAtATime(r)'
  BY <1>1 DEF OneAtATime
<1>4. NoneForgotten(r)'
  BY <1>1, <1>2 DEF NoneForgotten, Told
<1>5. QED
  BY <1>3, <1>4

LEMMA RoutineRegistered ==
    ASSUME TypeOK, Registered, NEW i \in RoutineIds, Step(i), UNCHANGED SchedulerOnly
    PROVE  Registered'
<1>1. \A r \in Rules : Of(r)' = Of(r)
  BY StepIs
<1>2. \A j \in RoutineIds : Cancelled(j)' <=> Cancelled(j)
  BY DEF Step, OnlyRoutine, Cancelled
<1>3. QED
  BY <1>1, <1>2 DEF Registered, SchedulerOnly, Of

\* A step of its own routine: what the Alertmanager believes is still covered.
LEMMA OwnStepCovers ==
    ASSUME TypeOK, NEW i \in RoutineIds, NEW r \in Rules, r = routine[i].rule, Step(i),
           routine[i].kind = "alerting", routine[i].cause \in {"none", "deleted"},
           \A j \in Alive(r) : j = i, NoneForgotten(r)
    PROVE  /\ Told(r)' => Live(i)' /\ Tells(i)'
           /\ routine'[i].pc = "sending" /\ routine'[i].out = "firing" =>
                routine'[i].then # "exited" /\ Firing(cache'[r])
<1>1. /\ routine[i] \in Routines /\ i \in Alerting(r)
      /\ cache \in [Rules -> RuleStates] /\ notified \in [Rules -> {"none", "firing", "resolved"}]
      /\ routine'[i].rule = r /\ routine'[i].kind = routine[i].kind /\ Live(i)
      /\ routine'[i].pc # "unused"
  BY StepIs DEF TypeOK, Step, OnlyRoutine, Alerting, Evaluates, Live
<1>2. Told(r) => Tells(i)
  BY <1>1 DEF NoneForgotten, Alive
<1>3. CASE Silent(i)
  BY <1>1, <1>2, <1>3 DEF Silent, Tells, Told, Live
<1>4. CASE Reset(i)
  <2>1. Told(r) => Firing(cache[r])
    BY <1>2, <1>4 DEF Reset, Tells
  <2>2. Told(r)' => Told(r)
    BY <1>4 DEF Reset, Told
  <2>3. routine'[i].then = "exited" => routine[i].cause = "deleted" \/ routine'[i].out = Expired(i)
    BY <1>4 DEF Reset, Cancelled
  <2>4. routine'[i].out = Expired(i)
    BY <1>4, <2>3 DEF Reset
  <2>5. Told(r) => routine'[i].out = "resolved"
    BY <2>1, <2>4 DEF Expired
  <2>6. routine'[i].out # "firing" /\ routine'[i].pc = "sending"
    BY <1>4, <2>4 DEF Expired, Reset
  <2>7. QED
    BY <1>1, <2>1, <2>2, <2>5, <2>6 DEF Tells, Live
<1>5. CASE Result(i)
  <2>1. PICK st \in {"normal", "firing"} :
          /\ cache' = [cache EXCEPT ![routine[i].rule] = [st |-> st, fp |-> routine[i].def.fp]]
          /\ routine'[i].out = "firing" => st = "firing"
          /\ routine'[i].out = "resolved" => st = "normal"
          /\ routine'[i].out = "none" => (st = "firing" <=> Firing(cache[routine[i].rule]))
    BY <1>5 DEF Result
  <2>2. Firing(cache'[r]) <=> st = "firing"
    BY <1>1, <2>1 DEF Firing
  <2>3. /\ routine[i].pc = "updating"
        /\ routine'[i].pc = "sending" /\ routine'[i].then = "select" /\ (Told(r)' => Told(r))
    BY <1>5 DEF Result, Told
  <2>4. Told(r) => Firing(cache[r])
    BY <1>2, <2>3 DEF Tells
  <2>5. QED
    BY <1>1, <2>1, <2>2, <2>3, <2>4 DEF Tells, Live
<1>6. CASE Sent(i)
  <2>1. /\ cache' = cache /\ routine[i].pc = "sending" /\ routine'[i].pc = routine[i].then
        /\ routine[i].out \in {"none", "firing", "resolved"}
        /\ routine[i].then \in {"select", "attempt", "exited"}
    BY <1>1, <1>6 DEF Sent, Routines
  <2>2. Told(r)' <=> IF routine[i].out = "none" THEN Told(r) ELSE routine[i].out = "firing"
    BY <1>1, <1>6 DEF Sent, Told
  <2>3. Told(r)' => routine[i].then # "exited" /\ Firing(cache[r])
    <3>1. CASE routine[i].out = "none"
      BY <1>2, <2>1, <2>2, <3>1 DEF Tells
    <3>2. CASE routine[i].out # "none"
      BY <1>1, <2>1, <2>2, <3>2 DEF NoneForgotten
    <3>3. QED
      BY <3>1, <3>2
  <2>4. QED
    BY <1>1, <2>1, <2>3 DEF Tells, Live
<1>7. CASE Quit(i)
  BY <1>7 DEF Quit
<1>8. QED
  BY <1>3, <1>4, <1>5, <1>6, <1>7 DEF Step

LEMMA RoutineDeletes ==
    ASSUME TypeOK, Deletions, NEW i \in RoutineIds, Step(i)
    PROVE  Deletions'
<1>1. /\ routine[i].rule \in Rules /\ i \in Of(routine[i].rule)
      /\ \A r \in Rules : Of(r)' = Of(r)
      /\ \A r \in Rules \ {routine[i].rule} : notified'[r] = notified[r] /\ cache'[r] = cache[r]
      /\ \A j \in RoutineIds : j # i => routine'[j] = routine[j]
      /\ \A j \in RoutineIds : routine'[j].rule = routine[j].rule
  BY StepIs
<1>2. \A j \in RoutineIds : /\ routine'[j].cause = routine[j].cause
                            /\ routine'[j].kind = routine[j].kind
                            /\ routine'[j].born = routine[j].born
  BY <1>1 DEF Step, OnlyRoutine
<1>3. \A r \in Rules : Alerting(r)' = Alerting(r)
  <2> SUFFICES ASSUME NEW r \in Rules, NEW j \in RoutineIds
               PROVE  Evaluates(j, r)' <=> Evaluates(j, r)
    BY DEF Alerting
  <2>1. (j \in Of(r))' <=> j \in Of(r)
    BY <1>1
  <2>2. QED
    BY <1>2, <2>1 DEF Evaluates, Of
<1>4. OnlyAlertingSends'
  <2>1. CASE routine[i].kind = "recording"
    <3>1. routine[i].pc # "sending"
      BY <2>1 DEF Deletions, OnlyAlertingSends
    <3>2. routine'[i].pc # "sending"
      BY <2>1, <3>1 DEF Step, Silent, Reset, Result, Sent, Quit
    <3>3. QED
      BY <1>1, <3>2 DEF Deletions, OnlyAlertingSends
  <2>2. CASE routine[i].kind = "alerting"
    BY <1>1, <1>2, <2>2 DEF Deletions, OnlyAlertingSends
  <2>3. QED
    BY <2>1, <2>2 DEF TypeOK, Routines
<1>5. ASSUME NEW r \in Rules, Clean(r)'
      PROVE  OneAtATime(r)' /\ NoneForgotten(r)'
  <2>0. \A j \in Alerting(r) : j \in RoutineIds /\ routine[j].rule = r
    BY DEF Alerting, Evaluates
  <2>1. Clean(r)
    BY <1>2, <1>3, <1>5, <2>0 DEF Clean
  <2>2. OneAtATime(r) /\ NoneForgotten(r)
    BY <2>1 DEF Deletions
  <2>3. Alive(r)' \subseteq Alive(r)
    BY <1>1, <1>3, <2>0 DEF Alive, Live, Step, OnlyRoutine
  <2>4. OneAtATime(r)'
    BY <2>2, <2>3 DEF OneAtATime
  <2>5. CASE i \notin Alerting(r)
    <3>1. \A j \in Alerting(r) : routine'[j] = routine[j]
      BY <1>1, <2>0, <2>5
    <3>2. notified'[r] = notified[r] /\ cache'[r] = cache[r]
      <4>1. CASE routine[i].rule # r
        BY <1>1, <4>1
      <4>2. CASE routine[i].rule = r
        <5>1. routine[i].kind # "alerting"
          BY <1>1, <2>5, <4>2, AlertingFacts
        <5>2. routine[i].pc # "sending"
          BY <5>1 DEF Deletions, OnlyAlertingSends
        <5>3. QED
          BY <5>1, <5>2 DEF Step, Silent, Reset, Result, Sent, Quit
      <4>3. QED
        BY <4>1, <4>2
    <3>3. Alive(r)' = Alive(r) /\ \A j \in Alive(r) : Tells(j) => Tells(j)'
      BY <1>3, <2>0, <3>1, <3>2 DEF Alive, Live, Tells
    <3>4. NoneForgotten(r)'
      BY <1>3, <2>2, <3>1, <3>2, <3>3 DEF NoneForgotten, Told
    <3>5. QED
      BY <2>4, <3>4
  <2>6. CASE i \in Alerting(r)
    <3>1. i \in Alive(r) /\ r = routine[i].rule /\ routine[i].kind = "alerting"
      BY <2>0, <2>6, AlertingFacts DEF Alive, Step, OnlyRoutine
    <3>2. \A j \in Alive(r) : j = i
      BY <2>2, <3>1 DEF OneAtATime
    <3>3. routine[i].cause \in {"none", "deleted"}
      BY <2>1, <2>6 DEF Clean
    <3>4. /\ Told(r)' => Live(i)' /\ Tells(i)'
          /\ routine'[i].pc = "sending" /\ routine'[i].out = "firing" =>
                routine'[i].then # "exited" /\ Firing(cache'[r])
      BY <2>2, <3>1, <3>2, <3>3, OwnStepCovers
    <3>5. \A j \in Alerting(r) : j # i => routine'[j].pc # "sending"
      BY <1>1, <2>0, <3>2 DEF Alive, Live
    <3>6. Told(r)' => \E j \in Alive(r)' : Tells(j)'
      BY <1>3, <2>6, <3>4 DEF Alive
    <3>7. NoneForgotten(r)'
      BY <1>3, <2>6, <3>4, <3>5, <3>6 DEF NoneForgotten
    <3>8. QED
      BY <2>4, <3>7
  <2>7. QED
    BY <2>5, <2>6
<1>6. QED
  BY <1>4, <1>5 DEF Deletions

\* After a shutdown the routines that were alive and not stopped are not clean.
LEMMA ShutdownDeletes ==
    ASSUME TypeOK, Registered, Deletions, Shutdown
    PROVE  Registered' /\ Deletions'
<1>1. \A i \in RoutineIds :
         /\ Kept(i)
         /\ routine'[i] = routine[i] \/ (Live(i) /\ ~Cancelled(i) /\ routine'[i].cause = "shutdown")
  BY ShutdownIs
<1>a. cache' = cache /\ notified' = notified
  BY DEF Shutdown
<1>2. \A r \in Rules : Of(r)' = Of(r) /\ Alerting(r)' = Alerting(r)
  BY <1>1 DEF Of, Alerting, Evaluates, Kept
<1>3. Registered' /\ OnlyAlertingSends'
  <2>1. Registered'
    BY <1>2 DEF Registered, Shutdown
  <2>2. OnlyAlertingSends'
    BY <1>1 DEF Deletions, OnlyAlertingSends, Kept
  <2>3. QED
    BY <2>1, <2>2
<1>4. ASSUME NEW r \in Rules, Clean(r)'
      PROVE  OneAtATime(r)' /\ NoneForgotten(r)'
  <2>1. \A i \in Alerting(r) : routine'[i] = routine[i] /\ i \in RoutineIds /\ routine[i].rule = r
    BY <1>1, <1>2, <1>4 DEF Clean, Alerting, Evaluates
  <2>2. Clean(r)
    BY <1>2, <1>4, <2>1 DEF Clean
  <2>3. OneAtATime(r) /\ NoneForgotten(r)
    BY <2>2 DEF Deletions
  <2>4. Alive(r)' = Alive(r)
    BY <1>2, <2>1 DEF Alive, Live
  <2>5. \A i \in Alive(r) : Tells(i) => Tells(i)'
    BY <1>a, <2>1 DEF Tells, Alive
  <2>6. OneAtATime(r)'
    BY <2>3, <2>4 DEF OneAtATime
  <2>7. NoneForgotten(r)'
    <3>1. \A i \in Alerting(r) : routine'[i] = routine[i]
      BY <2>1
    <3>2. QED
      BY <1>2, <1>a, <2>3, <2>4, <2>5, <3>1 DEF NoneForgotten, Told
  <2>8. QED
    BY <2>6, <2>7
<1>5. QED
  BY <1>3, <1>4 DEF Deletions

\* The routines a tick finds keep all but their cause; each new one is its rule's.
LEMMA TickKeepsUsed ==
    ASSUME NEW rules, NEW fresh, TickWith(rules, fresh)
    PROVE  /\ \A i \in RoutineIds : routine[i].pc # "unused" =>
                 /\ routine'[i].rule = routine[i].rule /\ routine'[i].kind = routine[i].kind
                 /\ routine'[i].pc = routine[i].pc /\ routine'[i].then = routine[i].then
                 /\ routine'[i].out = routine[i].out /\ routine'[i].born = routine[i].born
           /\ \A r \in Rules : Of(r) \subseteq Of(r)'
           /\ \A r \in Rules \ New(rules) : Of(r)' = Of(r)
           /\ \A r \in New(rules) : r \in Rules /\ fresh[r] \in RoutineIds /\ Of(r)' = Of(r) \cup {fresh[r]}
<1>1. \A i \in RoutineIds : routine[i].pc # "unused" =>
         /\ routine'[i].rule = routine[i].rule /\ routine'[i].kind = routine[i].kind
         /\ routine'[i].pc = routine[i].pc /\ routine'[i].then = routine[i].then
         /\ routine'[i].out = routine[i].out /\ routine'[i].born = routine[i].born
  BY DEF TickWith, Kept, Born
<1>2. \A r \in Rules : Of(r) \subseteq Of(r)'
  BY <1>1 DEF Of
<1>3. \A r \in New(rules) : r \in Rules /\ fresh[r] \in RoutineIds /\ fresh[r] \in Of(r)'
  <2> SUFFICES ASSUME NEW r \in New(rules)
               PROVE  r \in Rules /\ fresh[r] \in RoutineIds /\ fresh[r] \in Of(r)'
    OBVIOUS
  <2>1. fresh[r] \in RoutineIds /\ r \in Rules
    BY DEF TickWith, Unused, New, Restarted, Present
  <2>2. Made(fresh[r], r, rules)
    BY <2>1 DEF TickWith
  <2>3. QED
    BY <2>1, <2>2 DEF Made, Of
<1>4. ASSUME NEW r \in Rules, NEW i \in Of(r)', i \notin Of(r)
      PROVE  r \in New(rules) /\ fresh[r] = i
  <2>1. i \in RoutineIds /\ routine'[i].pc # "unused" /\ routine'[i].rule = r
    BY DEF Of
  <2>2. routine[i].pc = "unused"
    BY <1>1, <1>4, <2>1 DEF Of
  <2>3. PICK q \in New(rules) : fresh[q] = i
    BY <2>1, <2>2 DEF TickWith
  <2>4. Made(i, q, rules)
    BY <2>1, <2>3 DEF TickWith
  <2>5. q = r
    BY <2>1, <2>4 DEF Made
  <2>6. QED
    BY <2>3, <2>5
<1>5. QED
  BY <1>1, <1>2, <1>3, <1>4

\* A routine that was clean before is stopped only by the deletion of its rule.
LEMMA CleanBefore ==
    ASSUME Registered, NEW rules, NEW fresh, TickWith(rules, fresh), NEW r \in Rules, Clean(r)'
    PROVE  Clean(r)
<1> SUFFICES ASSUME NEW i \in Alerting(r)
             PROVE  routine[i].cause \in {"none", "deleted"} /\ routine[i].born = "alone"
  BY DEF Clean
<1>1. i \in RoutineIds /\ routine[i].pc # "unused" /\ i \in Alerting(r)'
  BY TickKeepsUsed DEF Alerting, Evaluates
<1>2. routine[i].born = "alone"
  BY <1>1, TickKeepsUsed DEF Clean
<1>3. CASE routine'[i] = routine[i]
  BY <1>1, <1>2, <1>3 DEF Clean
<1>4. CASE routine'[i] # routine[i]
  <2>1. PICK q \in Rules : registry[q] = i
    BY <1>1, <1>4 DEF TickWith, Stopped
  <2>2. routine[i].cause = "none"
    BY <1>1, <2>1, NotARoutine DEF Registered, Cancelled, TickWith
  <2>3. QED
    BY <1>2, <2>2
<1>5. QED
  BY <1>3, <1>4

LEMMA TickRegisters ==
    ASSUME TypeOK, Registered, NEW rules, NEW fresh, TickWith(rules, fresh)
    PROVE  Registered'
<1> SUFFICES ASSUME NEW r \in Rules, registry'[r] # NoRoutine
             PROVE  registry'[r] \in Of(r)' /\ routine'[registry'[r]].cause = "none"
  BY DEF Registered, Cancelled
<1>1. registry'[r] = IF r \in ToDelete(rules) THEN NoRoutine
                     ELSE IF r \in New(rules) THEN fresh[r] ELSE registry[r]
  BY DEF TickWith
<1>2. CASE r \in ToDelete(rules)
  BY <1>1, <1>2
<1>3. CASE r \notin ToDelete(rules) /\ r \in New(rules)
  <2>1. fresh[r] \in RoutineIds /\ fresh[r] \in Of(r)'
    BY <1>3, TickKeepsUsed
  <2>2. Made(fresh[r], r, rules)
    BY <1>3, <2>1 DEF TickWith
  <2>3. routine'[fresh[r]].cause = "none"
    BY <1>3, <2>2 DEF Made
  <2>4. QED
    BY <1>1, <1>3, <2>1, <2>3
<1>4. CASE r \notin ToDelete(rules) /\ r \notin New(rules)
  <2>1. registry'[r] = registry[r] /\ Of(r)' = Of(r)
    BY <1>1, <1>4, TickKeepsUsed
  <2>2. registry[r] \in Of(r)
    BY <2>1 DEF Registered
  <2>3. routine'[registry[r]].cause = "none"
    <3> DEFINE i == registry[r]
    <3>1. i \in Of(r) /\ i \in RoutineIds /\ routine[i].pc # "unused" /\ routine[i].rule = r
          /\ routine[i].cause = "none"
      BY <2>1, <2>2 DEF Registered, Of, TickWith, Cancelled
    <3>2. ASSUME NEW q \in Rules, registry[q] = i
          PROVE  q = r
      BY <3>1, <3>2, NotARoutine DEF Registered, Of
    <3>3. ~ \E q \in Rules : Stopped(i, q, rules)
      BY <1>4, <3>2 DEF Stopped, New
    <3>4. routine'[i] = routine[i]
      BY <3>1, <3>3 DEF TickWith
    <3>5. QED
      BY <3>1, <3>4
  <2>4. QED
    BY <2>1, <2>2, <2>3
<1>5. QED
  BY <1>2, <1>3, <1>4

\* A tick that makes no routine for r, or one of a recording rule.
LEMMA TickWithoutAlerting ==
    ASSUME NEW rules, NEW fresh, TickWith(rules, fresh), NEW r \in Rules,
           Alerting(r)' = Alerting(r), OneAtATime(r), NoneForgotten(r)
    PROVE  OneAtATime(r)' /\ NoneForgotten(r)'
<1>1. cache' = cache /\ notified' = notified
  BY DEF TickWith
<1>2. \A i \in Alerting(r) :
         /\ routine[i].rule = r /\ routine'[i].rule = r
         /\ routine'[i].pc = routine[i].pc /\ routine'[i].then = routine[i].then
         /\ routine'[i].out = routine[i].out
  BY TickKeepsUsed DEF Alerting, Evaluates
<1>3. Alive(r)' = Alive(r) /\ \A i \in Alive(r) : Tells(i) => Tells(i)'
  BY <1>1, <1>2 DEF Alive, Live, Tells
<1>4. NoneForgotten(r)'
  BY <1>1, <1>2, <1>3 DEF NoneForgotten, Told
<1>5. OneAtATime(r)'
  BY <1>3 DEF OneAtATime
<1>6. QED
  BY <1>4, <1>5

\* The first routine of r as an alerting rule, or the next one after all others
\* have exited.
LEMMA TickWithAlerting ==
    ASSUME NEW rules, NEW fresh, TickWith(rules, fresh), NEW r \in Rules, NEW j \in RoutineIds,
           Made(j, r, rules), Kind(rules[r]) = "alerting",
           Alerting(r)' = Alerting(r) \cup {j}, routine'[j].born = "alone", NoneForgotten(r)
    PROVE  OneAtATime(r)' /\ NoneForgotten(r)'
<1>1. cache' = cache /\ notified' = notified
  BY DEF TickWith
<1>2. \A i \in Alerting(r) : routine'[i].pc = routine[i].pc /\ i \in RoutineIds /\ Evaluates(i, r)
  BY TickKeepsUsed DEF Alerting, Evaluates
<1>3. Alive(r) = {}
  BY <1>2 DEF Made, Alive
<1>4. \A i \in Alerting(r) : ~Live(i)' /\ routine'[i].pc # "sending"
  BY <1>2, <1>3 DEF Alive, Live
<1>5. routine'[j].pc \in {"select", "created"} /\ routine'[j].rule = r
  BY DEF Made
<1>6. Alive(r)' = {j}
  <2>1. Live(j)'
    BY <1>5 DEF Live
  <2>2. QED
    BY <1>4, <2>1 DEF Alive
<1>7. OneAtATime(r)'
  BY <1>6 DEF OneAtATime
<1>8. ASSUME Told(r)'
      PROVE  Tells(j)'
  <2>1. Told(r)
    BY <1>1, <1>8 DEF Told
  <2>2. Alerting(r) = {}
    BY <1>3, <2>1 DEF NoneForgotten
  <2>3. Firing(cache[r])
    BY <2>1, <2>2 DEF NoneForgotten
  <2>4. QED
    BY <1>1, <1>5, <2>3 DEF Tells
<1>9. \A i \in Alerting(r)' : routine'[i].pc # "sending"
  BY <1>4, <1>5
<1>10. NoneForgotten(r)'
  BY <1>6, <1>8, <1>9 DEF NoneForgotten
<1>11. QED
  BY <1>7, <1>10

LEMMA TickDeletes ==
    ASSUME TypeOK, Registered, Deletions, NEW rules, NEW fresh, TickWith(rules, fresh)
    PROVE  Deletions'
<1>1. OnlyAlertingSends'
  <2> SUFFICES ASSUME NEW i \in RoutineIds, routine'[i].pc = "sending"
               PROVE  routine'[i].kind = "alerting"
    BY DEF OnlyAlertingSends
  <2>1. CASE routine[i].pc # "unused"
    BY <2>1, TickKeepsUsed DEF Deletions, OnlyAlertingSends
  <2>2. CASE routine[i].pc = "unused"
    <3>1. PICK r \in New(rules) : fresh[r] = i
      BY <2>2 DEF TickWith
    <3>2. Made(i, r, rules)
      BY <3>1 DEF TickWith
    <3>3. QED
      BY <3>2 DEF Made
  <2>3. QED
    BY <2>1, <2>2
<1>2. ASSUME NEW r \in Rules, Clean(r)'
      PROVE  OneAtATime(r)' /\ NoneForgotten(r)'
  <2>1. OneAtATime(r) /\ NoneForgotten(r)
    BY <1>2, CleanBefore DEF Deletions
  <2>2. \A i \in Of(r) : i \in RoutineIds /\ i \in Of(r)' /\ routine'[i].kind = routine[i].kind
    BY TickKeepsUsed DEF Of
  <2>3. CASE r \in New(rules)
    <3> DEFINE j == fresh[r]
    <3>1. j \in RoutineIds /\ Of(r)' = Of(r) \cup {j} /\ Made(j, r, rules)
      BY <2>3, TickKeepsUsed DEF TickWith
    <3>2. routine'[j].kind = Kind(rules[r]) /\ j \notin Of(r) /\ j \in Of(r)'
      BY <3>1 DEF Made, Of
    <3>a. \A i : i \in Alerting(r)' <=> i \in Of(r)' /\ routine'[i].kind = "alerting"
      BY DEF Alerting, Evaluates, Of
    <3> HIDE DEF j
    <3>3. CASE Kind(rules[r]) = "alerting"
      <4>1. Alerting(r)' = Alerting(r) \cup {j}
        BY <2>2, <3>1, <3>2, <3>3, <3>a, AlertingFacts
      <4>2. routine'[j].born = "alone"
        BY <1>2, <4>1 DEF Clean
      <4>3. QED
        BY <2>1, <3>1, <3>3, <4>1, <4>2, TickWithAlerting
    <3>4. CASE Kind(rules[r]) # "alerting"
      <4>1. Alerting(r)' = Alerting(r)
        BY <2>2, <3>1, <3>2, <3>4, <3>a, AlertingFacts
      <4>2. QED
        BY <2>1, <4>1, TickWithoutAlerting
    <3>5. QED
      BY <3>3, <3>4
  <2>4. CASE r \notin New(rules)
    <3>1. Of(r)' = Of(r)
      BY <2>4, TickKeepsUsed
    <3>2. Alerting(r)' = Alerting(r)
      BY <2>2, <3>1 DEF Alerting, Evaluates, Of
    <3>3. QED
      BY <2>1, <3>2, TickWithoutAlerting
  <2>5. QED
    BY <2>3, <2>4
<1>3. QED
  BY <1>1, <1>2 DEF Deletions

LEMMA StepDeletes ==
    ASSUME IInv, Registered, Deletions, [Next]_vars
    PROVE  Registered' /\ Deletions'
<1>0. TypeOK
  BY DEF IInv
<1>1. CASE API \/ (\E m \in evals : EvalStep(m)) \/ (\E m \in updates : UpdateStep(m)) \/ UNCHANGED vars
  <2>1. UNCHANGED <<registry, routine, cache, notified, shutdown>>
    BY <1>1 DEF API, InsertAlertRule, UpdateAlertRule, DeleteAlertRule, Unscheduled, EvalStep, EvalDrain,
       EvalBlock, EvalCancelled, UpdateStep, UpdateDrain, UpdateBlock, UpdateCancelled, vars
  <2>2. Registered'
    BY <2>1 DEF Registered, Of, Cancelled
  <2>3. OnlyAlertingSends'
    BY <2>1 DEF Deletions, OnlyAlertingSends
  <2>4. \A r \in Rules : Clean(r)' => Clean(r)
    BY <2>1 DEF Clean, Alerting, Evaluates
  <2>5. \A r \in Rules : Clean(r)' => OneAtATime(r)' /\ NoneForgotten(r)'
    BY <2>1, <2>4, UnchangedRule DEF Deletions
  <2>6. QED
    BY <2>2, <2>3, <2>5 DEF Deletions
<1>2. ASSUME NEW ok \in BOOLEAN, ProcessTick(ok)
      PROVE  Registered' /\ Deletions'
  <2>1. \E rules \in {db, schedulable} : \E fresh \in [New(rules) -> Unused] : TickWith(rules, fresh)
    BY <1>0, <1>2, TickIs
  <2>2. QED
    BY <1>0, <2>1, TickRegisters, TickDeletes
<1>3. CASE Shutdown
  BY <1>0, <1>3, ShutdownDeletes
<1>4. CASE \E i \in RoutineIds : RoutineStep(i)
  <2>1. PICK i \in RoutineIds : Step(i) /\ UNCHANGED SchedulerOnly
    BY <1>4, RoutineStepIs
  <2>2. QED
    BY <1>0, <2>1, RoutineRegistered, RoutineDeletes
<1>5. QED
  BY <1>1, <1>2, <1>3, <1>4 DEF Next, TickWithFetch, TickWithFetchError

\* However often a rule was created and deleted, as a recording rule in between
\* or not, and whatever its routines were doing: if no two of those that evaluated
\* its alerts overlapped and all have exited because the rule was deleted, the
\* Alertmanager does not believe that it fires (alert_rule.go, Run: resolved
\* notifications are sent for the firing alerts of a deleted rule).
THEOREM DeletedIsResolved == Spec => []DeletedRuleIsResolved
<1>1. Deletions => DeletedRuleIsResolved
  <2> SUFFICES ASSUME Deletions, NEW r \in Rules, Deleted(r),
                      \A i \in RoutineIds : Evaluates(i, r) => routine[i].born = "alone"
               PROVE  notified[r] # "firing"
    BY DEF DeletedRuleIsResolved
  <2>1. Alerting(r) # {} /\ Alive(r) = {} /\ Clean(r)
    BY DEF Deleted, Alerting, Clean, Alive, Live
  <2>2. QED
    BY <2>1 DEF Deletions, NoneForgotten, Told
<1>2. IInv /\ Registered /\ Deletions /\ [Next]_vars => Registered' /\ Deletions'
  BY StepDeletes
<1> HIDE DEF IInv, Registered, Deletions, DeletedRuleIsResolved
<1>3. QED
  BY <1>1, <1>2, InitDeletions, Invariance, PTL DEF Spec

=============================================================================
