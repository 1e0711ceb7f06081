---------------------------- MODULE MCAlertState ----------------------------
(* Rule settings for the instances of AlertState that TLC checks.           *)
EXTENDS AlertState

Settings(fors, keepFiringFors, evals, execErrStates, noDataStates) ==
    [for : fors, keepFiringFor : keepFiringFors, missingEvals : evals,
     execErrState : execErrStates, noDataState : noDataStates]

\* Errors and missing data have no state of their own.
MappedRules ==
    Settings({0, 2}, {0, 2}, {2}, {"Alerting"}, {"OK"})
        \cup Settings({2}, {2}, {2}, {"KeepLast"}, {"OK"})

\* They have one (the default of a new rule).
DefaultRules == Settings({0, 2}, {0, 2}, {2}, {"Error"}, {"NoData"})

AllRules == MappedRules \cup DefaultRules

\* A series may be missing for one interval more than an alert lasts for.
PatientRules == Settings({0}, {7}, {5}, {"Error"}, {"NoData"})
=============================================================================
