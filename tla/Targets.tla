------------------------------ MODULE Targets -------------------------------
(***************************************************************************)
(* Deadlines of the operator: TARGET.jsonl, the step of the tick that      *)
(* shows a toast and mails the leads when one has passed, and the requests *)
(* that add, close, remind and triage.  The step runs through without a    *)
(* pause; remind and triage read their row and then await a module and a   *)
(* body, so that what they write back may be older than the file.          *)
(***************************************************************************)
EXTENDS Naturals, FiniteSets, RowOrder

CONSTANTS
    Target,          \* the rows that may be added, each once
    Scope,           \* those added without a parent
    GoalOf,          \* their normalized goals
    TargetBudget,    \* rows fired in one tick (4 in the code)
    NoRequest,
    MaxPressed,      \* bound on the remind and triage requests
    MaxTargetFaults  \* bound on deaths and failing writes

ASSUME TargetAssumption ==
    /\ DOMAIN GoalOf = Target /\ Scope \subseteq Target
    /\ TargetBudget \in Nat \ {0}
    /\ MaxPressed \in Nat /\ MaxTargetFaults \in Nat

VARIABLES
    before,       \* the order of the rows in the file: who is written above whom
    entry,        \* the rows: status, remindedAt and triageAt
    late,         \* rows whose deadline has passed
    turn,         \* the rows the tick has still to fire; no handler runs meanwhile
    request,      \* the awaiting request of each row, with the row as it read it
    pressed,      \* history: remind and triage requests
    toasts, triages,  \* history: toasts tried, rounds of mail to the leads
    targetFaults

targetVars == <<before, entry, late, turn, request, pressed, toasts, triages, targetFaults>>

Entry == [status : {"none", "active", "done", "cancelled"},
          reminded : BOOLEAN, triaged : BOOLEAN]
Request == [action : {"remind", "triage"}, copy : Entry]

ASSUME RequestAssumption == NoRequest \notin Request

TargetInit ==
    /\ before = {} /\ late = {} /\ turn = {}
    /\ entry = [t \in Target |-> [status |-> "none", reminded |-> FALSE, triaged |-> FALSE]]
    /\ request = [t \in Target |-> NoRequest]
    /\ pressed = [t \in Target |-> 0]
    /\ toasts = pressed /\ triages = pressed
    /\ targetFaults = 0

Open(t) == entry[t].status = "active"
File == {t \in Target : entry[t].status # "none"}

(* Mutated form: a row keeps its line.                                     *)
InPlace(t) == IF t \in File THEN before ELSE before \cup (File \X {t})

(* upsertTarget takes the row out and appends it.                          *)
Upserted(t) == {pair \in before : pair[1] # t /\ pair[2] # t} \cup ((File \ {t}) \X {t})

-----------------------------------------------------------------------------
(* POST /targets: a slice needs a parent, closed or not; a target without  *)
(* one cancels the active rows of its goal.                                *)
Superseded(t) ==
    IF t \in Scope THEN {s \in Target : Open(s) /\ GoalOf[s] = GoalOf[t]} ELSE {}

Cancelling(t) ==
    [s \in Target |-> IF s \in Superseded(t) THEN [entry[s] EXCEPT !.status = "cancelled"]
                      ELSE entry[s]]

Addable(t) ==
    /\ turn = {} /\ entry[t].status = "none"
    /\ t \in Scope \/ File # {}

AddTarget(t) ==
    /\ Addable(t)
    /\ entry' = [Cancelling(t) EXCEPT ![t].status = "active"]
    /\ before' = Upserted(t)
    /\ UNCHANGED <<late, turn, request, pressed, toasts, triages, targetFaults>>

(* POST /targets/<id>/done and /cancel.                                    *)
CloseTarget(t, status) ==
    /\ turn = {} /\ Open(t)
    /\ entry' = [entry EXCEPT ![t].status = status]
    /\ before' = Upserted(t)
    /\ UNCHANGED <<late, turn, request, pressed, toasts, triages, targetFaults>>

DeadlinePasses(t) ==
    /\ t \notin late /\ late' = late \cup {t}
    /\ UNCHANGED <<before, entry, turn, request, pressed, toasts, triages, targetFaults>>

-----------------------------------------------------------------------------
(* fireOneTarget: the toast, the mail to the leads that have a pane, then  *)
(* the marks.  A desktop that refuses the toast is logged and marked like  *)
(* one that shows it, so that a toast counts when it is tried.             *)
Toasts(r, force) == force \/ ~r.reminded
Triages(r, force, reach) == reach /\ (force \/ ~r.triaged)

Shows(t, r, toast, triage, reach) ==
    /\ toasts' = IF Toasts(r, toast) THEN [toasts EXCEPT ![t] = @ + 1] ELSE toasts
    /\ triages' = IF Triages(r, triage, reach) THEN [triages EXCEPT ![t] = @ + 1] ELSE triages

(* Mutated form: no mark is set while the leads cannot be reached.         *)
MarkedTogether(r, triage, reach) ==
    IF r.triaged \/ reach THEN [r EXCEPT !.reminded = TRUE, !.triaged = TRUE] ELSE r

MarkedFor(r, triage, reach) ==
    [r EXCEPT !.reminded = TRUE, !.triaged = @ \/ Triages(r, triage, reach)]

FireOneTarget(t, r, toast, triage, reach) ==
    /\ Shows(t, r, toast, triage, reach)
    /\ entry' = [entry EXCEPT ![t] = MarkedFor(r, triage, reach)]
    /\ before' = Upserted(t)
    /\ UNCHANGED <<late, pressed, targetFaults>>

(* fireDueTargets: the first rows of the file that are due and lack a mark,*)
(* in the order of the file.                                               *)
ToFire == {t \in late : Open(t) /\ ~(entry[t].reminded /\ entry[t].triaged)}

BeginTargets ==
    /\ turn = {} /\ ToFire # {}
    /\ turn' = FirstOf(ToFire, TargetBudget, before)
    /\ UNCHANGED <<before, entry, late, request, pressed, toasts, triages, targetFaults>>

FireNext ==
    /\ \E t \in FirstOf(turn, 1, before), reach \in BOOLEAN :
          /\ turn' = turn \ {t}
          /\ FireOneTarget(t, entry[t], FALSE, FALSE, reach)
    /\ UNCHANGED request

-----------------------------------------------------------------------------
(* POST /targets/<id>/remind and /triage, before and after what they await.*)
Ask(t, action) ==
    /\ turn = {} /\ entry[t].status # "none" /\ request[t] = NoRequest
    /\ \A s \in Target : pressed[s] < MaxPressed
    /\ request' = [request EXCEPT ![t] = [action |-> action, copy |-> entry[t]]]
    /\ pressed' = [pressed EXCEPT ![t] = @ + 1]
    /\ UNCHANGED <<before, entry, late, turn, toasts, triages, targetFaults>>

FireAsked(t) ==
    /\ turn = {} /\ request[t] # NoRequest
    /\ request' = [request EXCEPT ![t] = NoRequest]
    /\ \E reach \in BOOLEAN :
          FireOneTarget(t, request[t].copy, request[t].action = "remind",
                        request[t].action = "triage", reach)
    /\ UNCHANGED turn

(* A write fails after the toast or the mail, and the rest of the tick is  *)
(* skipped; or the daemon dies there, and its requests with it.            *)
Fault ==
    /\ targetFaults < MaxTargetFaults
    /\ targetFaults' = targetFaults + 1
    /\ turn' = {}
    /\ UNCHANGED <<before, late, pressed>>

FireFails ==
    /\ Fault /\ UNCHANGED entry
    /\ request' \in {request, [t \in Target |-> NoRequest]}
    /\ \E t \in FirstOf(turn, 1, before), reach \in BOOLEAN :
          Shows(t, entry[t], FALSE, FALSE, reach)

AskedFails(t) ==
    /\ turn = {} /\ request[t] # NoRequest /\ Fault /\ UNCHANGED entry
    /\ request' \in {[request EXCEPT ![t] = NoRequest], [s \in Target |-> NoRequest]}
    /\ \E reach \in BOOLEAN :
          Shows(t, request[t].copy, request[t].action = "remind",
                request[t].action = "triage", reach)

(* The old scopes are cancelled and the new one is not written.            *)
AddFails(t) ==
    /\ Addable(t) /\ Superseded(t) # {} /\ Fault
    /\ entry' = Cancelling(t)
    /\ request' \in {request, [s \in Target |-> NoRequest]}
    /\ UNCHANGED <<toasts, triages>>

CrashTargets ==
    /\ Fault /\ request' = [t \in Target |-> NoRequest]
    /\ UNCHANGED <<entry, toasts, triages>>

-----------------------------------------------------------------------------
TargetStep(t) ==
    \/ AddTarget(t) \/ AddFails(t) \/ DeadlinePasses(t) \/ FireAsked(t) \/ AskedFails(t)
    \/ \E status \in {"done", "cancelled"} : CloseTarget(t, status)
    \/ \E action \in {"remind", "triage"} : Ask(t, action)

TargetNext ==
    \/ \E t \in Target : TargetStep(t)
    \/ BeginTargets \/ FireNext \/ FireFails \/ CrashTargets

(* The tick comes again and again.                                         *)
TargetFairness == WF_targetVars(BeginTargets) /\ WF_targetVars(FireNext)

TargetSpec == TargetInit /\ [][TargetNext]_targetVars /\ TargetFairness

(***************************************************************************)
(* Properties.                                                             *)
(***************************************************************************)
(* The type invariant of the targets.                                      *)
TargetTypeOK ==
    /\ before \subseteq Target \X Target /\ turn \subseteq Target
    /\ entry \in [Target -> Entry] /\ late \subseteq Target
    /\ request \in [Target -> Request \cup {NoRequest}]
    /\ pressed \in [Target -> Nat] /\ toasts \in [Target -> Nat]
    /\ triages \in [Target -> Nat] /\ targetFaults \in 0..MaxTargetFaults

(* "One-shot ... No renew": the toast of a deadline is tried once and the  *)
(* leads are mailed once, and once more for each request and each fault,   *)
(* also where a request writes back a row without the marks of a tick that *)
(* fired while it waited.                                                  *)
RemindedOncePerAsk ==
    \A t \in Target :
        /\ toasts[t] <= 1 + pressed[t] + targetFaults
        /\ triages[t] <= 1 + pressed[t] + targetFaults

(* The file stays one line, and every tick that has something to fire      *)
(* fires as many rows as its budget allows: none is passed over.           *)
TurnsUseBudget ==
    /\ InLine(before, File)
    /\ Cardinality(turn) <= TargetBudget
    /\ Cardinality(FirstOf(ToFire, TargetBudget, before)) =
          IF Cardinality(ToFire) < TargetBudget THEN Cardinality(ToFire) ELSE TargetBudget

(* The toast of a deadline that has passed is tried and marked, though     *)
(* rows whose leads cannot be reached are fired at every tick and use up   *)
(* its budget.                                                             *)
Overlooked(t) == t \in late /\ Open(t) /\ ~entry[t].reminded

DeadlinesShow == \A t \in Target : Overlooked(t) ~> ~Overlooked(t)
=============================================================================
