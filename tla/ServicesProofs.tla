--------------------------- MODULE ServicesProofs ----------------------------
(***************************************************************************)
(* Theorems about Targets, OcLimit and Connectivity, for any deadlines,    *)
(* daemons and panes, and about the services together.                     *)
(***************************************************************************)
EXTENDS MCServices, AckLedgerProofs, RecordProofs, RowOrderProofs

-----------------------------------------------------------------------------
(* The operator's deadlines.                                               *)

(* What makes RemindedOncePerAsk inductive: a row without a mark, and a    *)
(* request that awaits, may each show the deadline once more; a request    *)
(* that writes back an older row pays with itself for the mark it erases.  *)
Waits(t) == IF request[t] = NoRequest THEN 0 ELSE 1
ToastDebt(t) == (IF entry[t].reminded THEN 0 ELSE 1) + Waits(t)
TriageDebt(t) == (IF entry[t].triaged THEN 0 ELSE 1) + Waits(t)

DebtInv ==
    \A t \in Target :
        /\ toasts[t] + ToastDebt(t) <= 1 + pressed[t] + targetFaults
        /\ triages[t] + TriageDebt(t) <= 1 + pressed[t] + targetFaults

Sound == TargetTypeOK /\ DebtInv

(* What a firing writes into its row: marks are only added.                *)
LEMMA MarkTypes ==
    ASSUME NEW r \in Entry, NEW triage \in BOOLEAN, NEW reach \in BOOLEAN
    PROVE  /\ MarkedFor(r, triage, reach) \in Entry
           /\ MarkedFor(r, triage, reach).reminded
           /\ MarkedFor(r, triage, reach).triaged = (r.triaged \/ Triages(r, triage, reach))
  BY DEF Entry, MarkedFor, Triages

(* A row that is written again goes last, and the others keep their order. *)
LEMMA UpsertTypes ==
    ASSUME TargetTypeOK, NEW t \in Target
    PROVE  Upserted(t) \subseteq Target \X Target
  BY DEF Upserted, File, TargetTypeOK

(* One firing, by the tick or for a request.                               *)
LEMMA FireKeeps ==
    ASSUME Sound, NEW t \in Target, NEW r \in Entry, NEW toast \in BOOLEAN, NEW triage \in BOOLEAN,
           NEW reach \in BOOLEAN, FireOneTarget(t, r, toast, triage, reach), turn' \subseteq turn,
           \/ request' = request /\ r = entry[t] /\ ~toast /\ ~triage
           \/ request[t] # NoRequest /\ request' = [request EXCEPT ![t] = NoRequest]
    PROVE  Sound'
<1> DEFINE written == MarkedFor(r, triage, reach)
<1>1. /\ written \in Entry /\ written.reminded
      /\ written.triaged = (r.triaged \/ Triages(r, triage, reach))
  BY MarkTypes
<1> HIDE DEF written
<1>2. /\ entry' = [entry EXCEPT ![t] = written]
      /\ toasts' = IF Toasts(r, toast) THEN [toasts EXCEPT ![t] = @ + 1] ELSE toasts
      /\ triages' = IF Triages(r, triage, reach) THEN [triages EXCEPT ![t] = @ + 1] ELSE triages
      /\ pressed' = pressed /\ targetFaults' = targetFaults
  BY DEF FireOneTarget, Shows, written
<1>3. TargetTypeOK'
  <2>1. before' \subseteq Target \X Target /\ late' = late
    BY UpsertTypes DEF FireOneTarget, Sound
  <2> QED BY <1>1, <1>2, <2>1 DEF Sound, TargetTypeOK
<1>4. ASSUME NEW s \in Target, s # t
      PROVE  /\ entry'[s] = entry[s] /\ request'[s] = request[s]
             /\ toasts'[s] = toasts[s] /\ triages'[s] = triages[s]
  BY <1>2, <1>4 DEF Sound, TargetTypeOK
<1>5. /\ entry'[t] = written
      /\ toasts'[t] = IF Toasts(r, toast) THEN toasts[t] + 1 ELSE toasts[t]
      /\ triages'[t] = IF Triages(r, triage, reach) THEN triages[t] + 1 ELSE triages[t]
      /\ \/ request'[t] = request[t] /\ r = entry[t] /\ ~toast /\ ~triage
         \/ request[t] # NoRequest /\ request'[t] = NoRequest
  BY <1>2 DEF Sound, TargetTypeOK
<1>6. ASSUME NEW s \in Target, s # t
      PROVE  /\ toasts'[s] + ToastDebt(s)' <= 1 + pressed'[s] + targetFaults'
             /\ triages'[s] + TriageDebt(s)' <= 1 + pressed'[s] + targetFaults'
  BY <1>2, <1>4, <1>6 DEF Sound, DebtInv, ToastDebt, TriageDebt, Waits
<1>7. /\ toasts'[t] + ToastDebt(t)' <= 1 + pressed'[t] + targetFaults'
      /\ triages'[t] + TriageDebt(t)' <= 1 + pressed'[t] + targetFaults'
  <2>1. /\ toasts[t] \in Nat /\ triages[t] \in Nat /\ pressed[t] \in Nat /\ targetFaults \in Nat
        /\ entry[t].reminded \in BOOLEAN /\ entry[t].triaged \in BOOLEAN
        /\ r.reminded \in BOOLEAN /\ r.triaged \in BOOLEAN
    BY DEF Sound, TargetTypeOK, Entry
  <2>2. /\ toasts[t] + ToastDebt(t) <= 1 + pressed[t] + targetFaults
        /\ triages[t] + TriageDebt(t) <= 1 + pressed[t] + targetFaults
    BY DEF Sound, DebtInv
  <2>3. toasts'[t] + ToastDebt(t)' <= 1 + pressed'[t] + targetFaults'
    BY <1>1, <1>2, <1>5, <2>1, <2>2 DEF ToastDebt, Waits, Toasts
  <2>4. triages'[t] + TriageDebt(t)' <= 1 + pressed'[t] + targetFaults'
    BY <1>1, <1>2, <1>5, <2>1, <2>2 DEF TriageDebt, Waits, Triages
  <2>5. QED
    BY <2>3, <2>4
<1>8. QED
  BY <1>3, <1>6, <1>7 DEF Sound, DebtInv

(* A fault shows at most once more and drops requests; it writes no mark.  *)
LEMMA FaultKeeps ==
    ASSUME Sound, Fault,
           \A s \in Target : entry'[s].reminded = entry[s].reminded
                          /\ entry'[s].triaged = entry[s].triaged,
           \A s \in Target : request'[s] \in {request[s], NoRequest},
           entry' \in [Target -> Entry], request' \in [Target -> Request \cup {NoRequest}],
           toasts' \in [Target -> Nat], triages' \in [Target -> Nat],
           \A s \in Target : toasts'[s] <= toasts[s] + 1 /\ triages'[s] <= triages[s] + 1
    PROVE  Sound'
<1> USE TargetAssumption DEF Fault
<1>1. TargetTypeOK'
  BY DEF Sound, TargetTypeOK
<1>2. ASSUME NEW s \in Target
      PROVE  /\ toasts'[s] + ToastDebt(s)' <= 1 + pressed'[s] + targetFaults'
             /\ triages'[s] + TriageDebt(s)' <= 1 + pressed'[s] + targetFaults'
  <2>1. /\ toasts[s] \in Nat /\ triages[s] \in Nat /\ pressed[s] \in Nat /\ targetFaults \in Nat
        /\ toasts'[s] \in Nat /\ triages'[s] \in Nat
    BY DEF Sound, TargetTypeOK
  <2>2. /\ toasts[s] + ToastDebt(s) <= 1 + pressed[s] + targetFaults
        /\ triages[s] + TriageDebt(s) <= 1 + pressed[s] + targetFaults
    BY DEF Sound, DebtInv
  <2>3. ToastDebt(s)' <= ToastDebt(s) /\ TriageDebt(s)' <= TriageDebt(s)
    BY DEF ToastDebt, TriageDebt, Waits
  <2>4. /\ ToastDebt(s) \in Nat /\ TriageDebt(s) \in Nat
        /\ ToastDebt(s)' \in Nat /\ TriageDebt(s)' \in Nat
    BY DEF ToastDebt, TriageDebt, Waits
  <2>5. QED
    BY <2>1, <2>2, <2>3, <2>4
<1>3. QED
  BY <1>1, <1>2 DEF Sound, DebtInv

(* A firing shows, and mails, at most once.                                *)
LEMMA ShowBounds ==
    ASSUME TargetTypeOK, NEW t, NEW r, NEW toast, NEW triage, NEW reach,
           Shows(t, r, toast, triage, reach)
    PROVE  /\ toasts' \in [Target -> Nat] /\ triages' \in [Target -> Nat]
           /\ \A s \in Target : toasts'[s] <= toasts[s] + 1 /\ triages'[s] <= triages[s] + 1
<1>1. ASSUME NEW f \in [Target -> Nat]
      PROVE  /\ [f EXCEPT ![t] = @ + 1] \in [Target -> Nat]
             /\ \A s \in Target : [f EXCEPT ![t] = @ + 1][s] <= f[s] + 1
             /\ \A s \in Target : f[s] <= f[s] + 1
  <2>1. CASE t \in Target
    BY <2>1
  <2>2. CASE t \notin Target
    <3> DEFINE g == [f EXCEPT ![t] = @ + 1]
    <3>1. g = f
      BY <2>2
    <3> HIDE DEF g
    <3>2. g \in [Target -> Nat] /\ \A s \in Target : g[s] <= f[s] + 1 /\ f[s] <= f[s] + 1
      BY <3>1
    <3>3. QED
      BY <3>2 DEF g
  <2>3. QED
    BY <2>1, <2>2
<1>2. toasts \in [Target -> Nat] /\ triages \in [Target -> Nat]
  BY DEF TargetTypeOK
<1>3. toasts' \in [Target -> Nat] /\ \A s \in Target : toasts'[s] <= toasts[s] + 1
  BY <1>1, <1>2 DEF Shows
<1>4. triages' \in [Target -> Nat] /\ \A s \in Target : triages'[s] <= triages[s] + 1
  BY <1>1, <1>2 DEF Shows
<1>5. QED
  BY <1>3, <1>4

(* Rows change their status only.                                          *)
LEMMA StatusKeeps ==
    ASSUME Sound, UNCHANGED <<late, turn, request, pressed, toasts, triages, targetFaults>>,
           before' \subseteq Target \X Target,
           entry' \in [Target -> Entry],
           \A s \in Target : entry'[s].reminded = entry[s].reminded
                          /\ entry'[s].triaged = entry[s].triaged
    PROVE  Sound'
  BY DEF Sound, TargetTypeOK, DebtInv, ToastDebt, TriageDebt, Waits

(* A cancellation leaves the marks alone.                                  *)
LEMMA CancelTypes ==
    ASSUME TargetTypeOK, NEW t \in Target
    PROVE  /\ Cancelling(t) \in [Target -> Entry]
           /\ \A s \in Target : /\ Cancelling(t)[s].reminded = entry[s].reminded
                                /\ Cancelling(t)[s].triaged = entry[s].triaged
  BY DEF Cancelling, TargetTypeOK, Entry

(* Every step of the targets keeps the debts.                              *)
LEMMA TargetStepKeeps ==
    ASSUME Sound, [TargetNext]_targetVars
    PROVE  Sound'
<1> USE RequestAssumption
<1>1. ASSUME NEW t \in Target, AddTarget(t) PROVE Sound'
  <2>1. /\ Cancelling(t) \in [Target -> Entry]
        /\ \A s \in Target : /\ Cancelling(t)[s].reminded = entry[s].reminded
                             /\ Cancelling(t)[s].triaged = entry[s].triaged
    BY CancelTypes DEF Sound
  <2>2. entry' = [Cancelling(t) EXCEPT ![t].status = "active"]
    BY <1>1 DEF AddTarget
  <2> HIDE DEF Cancelling
  <2>3. /\ entry' \in [Target -> Entry]
        /\ \A s \in Target : entry'[s].reminded = entry[s].reminded /\ entry'[s].triaged = entry[s].triaged
    BY <2>1, <2>2 DEF Entry
  <2>4. QED
    BY <1>1, <2>3, StatusKeeps, UpsertTypes DEF AddTarget, Sound
<1>2. ASSUME NEW t \in Target, NEW status \in {"done", "cancelled"}, CloseTarget(t, status)
      PROVE  Sound'
  <2>1. /\ entry' \in [Target -> Entry]
        /\ \A s \in Target : entry'[s].reminded = entry[s].reminded /\ entry'[s].triaged = entry[s].triaged
    BY <1>2 DEF CloseTarget, Sound, TargetTypeOK, Entry
  <2>2. QED
    BY <1>2, <2>1, StatusKeeps, UpsertTypes DEF CloseTarget, Sound
<1>3. ASSUME NEW t \in Target, DeadlinePasses(t) PROVE Sound'
  BY <1>3 DEF DeadlinePasses, Sound, TargetTypeOK, DebtInv, ToastDebt, TriageDebt, Waits
<1>4. ASSUME NEW t \in Target, NEW action \in {"remind", "triage"}, Ask(t, action)
      PROVE  Sound'
  <2>1. /\ request' = [request EXCEPT ![t] = [action |-> action, copy |-> entry[t]]]
        /\ pressed' = [pressed EXCEPT ![t] = @ + 1]
        /\ request[t] = NoRequest
        /\ UNCHANGED <<before, entry, late, turn, toasts, triages, targetFaults>>
    BY <1>4 DEF Ask
  <2>2. [action |-> action, copy |-> entry[t]] \in Request
    BY DEF Request, Sound, TargetTypeOK
  <2>3. TargetTypeOK'
    BY <2>1, <2>2 DEF Sound, TargetTypeOK
  <2>4. ASSUME NEW s \in Target
        PROVE  /\ toasts'[s] + ToastDebt(s)' <= 1 + pressed'[s] + targetFaults'
               /\ triages'[s] + TriageDebt(s)' <= 1 + pressed'[s] + targetFaults'
    <3>1. /\ toasts[s] \in Nat /\ triages[s] \in Nat /\ pressed[s] \in Nat /\ targetFaults \in Nat
          /\ entry'[s] = entry[s]
      BY <2>1 DEF Sound, TargetTypeOK
    <3>2. /\ pressed'[s] = IF s = t THEN pressed[s] + 1 ELSE pressed[s]
          /\ s # t => request'[s] = request[s]
      BY <2>1 DEF Sound, TargetTypeOK
    <3>3. Waits(s)' = IF s = t THEN 1 ELSE Waits(s)
      BY <2>1, <2>2, <3>2 DEF Waits, Sound, TargetTypeOK
    <3>4. Waits(t) = 0 /\ Waits(s) \in {0, 1}
      BY <2>1 DEF Waits
    <3>5. QED
      BY <2>1, <3>1, <3>2, <3>3, <3>4 DEF Sound, DebtInv, ToastDebt, TriageDebt
  <2>5. QED
    BY <2>3, <2>4 DEF Sound, DebtInv
<1>5. ASSUME NEW t \in Target, FireAsked(t) PROVE Sound'
  <2>1. request[t] \in Request
    BY <1>5 DEF FireAsked, Sound, TargetTypeOK
  <2>2. request[t].copy \in Entry
    BY <2>1 DEF Request
  <2>3. QED
    BY <1>5, <2>2, FireKeeps DEF FireAsked
<1>6. ASSUME FireNext PROVE Sound'
  <2>1. PICK t \in FirstOf(turn, 1, before), reach \in BOOLEAN :
           turn' = turn \ {t} /\ FireOneTarget(t, entry[t], FALSE, FALSE, reach)
    BY <1>6 DEF FireNext
  <2>2. request' = request
    BY <1>6 DEF FireNext
  <2>3. t \in Target /\ entry[t] \in Entry
    BY DEF FirstOf, Sound, TargetTypeOK
  <2>4. QED
    BY <2>1, <2>2, <2>3, FireKeeps
<1>7. ASSUME FireFails PROVE Sound'
  <2>1. /\ Fault /\ entry' = entry
        /\ request' \in {request, [t \in Target |-> NoRequest]}
    BY <1>7 DEF FireFails
  <2>2. /\ toasts' \in [Target -> Nat] /\ triages' \in [Target -> Nat]
        /\ \A s \in Target : toasts'[s] <= toasts[s] + 1 /\ triages'[s] <= triages[s] + 1
    BY <1>7, ShowBounds DEF FireFails, Sound
  <2>3. /\ request' \in [Target -> Request \cup {NoRequest}]
        /\ \A s \in Target : request'[s] \in {request[s], NoRequest}
    BY <2>1 DEF Sound, TargetTypeOK
  <2>4. QED
    BY <2>1, <2>2, <2>3, FaultKeeps DEF Sound, TargetTypeOK
<1>8. ASSUME NEW t \in Target, AskedFails(t) PROVE Sound'
  <2>1. /\ Fault /\ entry' = entry
        /\ request' \in {[request EXCEPT ![t] = NoRequest], [s \in Target |-> NoRequest]}
    BY <1>8 DEF AskedFails
  <2>2. /\ toasts' \in [Target -> Nat] /\ triages' \in [Target -> Nat]
        /\ \A s \in Target : toasts'[s] <= toasts[s] + 1 /\ triages'[s] <= triages[s] + 1
    BY <1>8, ShowBounds DEF AskedFails, Sound
  <2>3. /\ request' \in [Target -> Request \cup {NoRequest}]
        /\ \A s \in Target : request'[s] \in {request[s], NoRequest}
    BY <2>1 DEF Sound, TargetTypeOK
  <2>4. QED
    BY <2>1, <2>2, <2>3, FaultKeeps DEF Sound, TargetTypeOK
<1>9. ASSUME NEW t \in Target, AddFails(t) PROVE Sound'
  <2>1. /\ Fault /\ entry' = Cancelling(t)
        /\ request' \in {request, [s \in Target |-> NoRequest]}
        /\ UNCHANGED <<toasts, triages>>
    BY <1>9 DEF AddFails
  <2>2. /\ Cancelling(t) \in [Target -> Entry]
        /\ \A s \in Target : /\ Cancelling(t)[s].reminded = entry[s].reminded
                             /\ Cancelling(t)[s].triaged = entry[s].triaged
    BY CancelTypes DEF Sound
  <2>3. /\ request' \in [Target -> Request \cup {NoRequest}]
        /\ \A s \in Target : request'[s] \in {request[s], NoRequest}
        /\ \A s \in Target : toasts'[s] <= toasts[s] + 1 /\ triages'[s] <= triages[s] + 1
    BY <2>1 DEF Sound, TargetTypeOK
  <2>4. QED
    BY <2>1, <2>2, <2>3, FaultKeeps DEF Sound, TargetTypeOK
<1>10. CASE CrashTargets
  <2>1. /\ Fault /\ UNCHANGED <<entry, toasts, triages>>
        /\ request' = [t \in Target |-> NoRequest]
    BY <1>10 DEF CrashTargets
  <2>2. QED
    BY <2>1, FaultKeeps DEF Sound, TargetTypeOK
<1>11. CASE BeginTargets
  BY <1>11 DEF ToFire, FirstOf, BeginTargets, Sound, TargetTypeOK, DebtInv, ToastDebt, TriageDebt, Waits
<1>12. CASE UNCHANGED targetVars
  BY <1>12 DEF targetVars, Sound, TargetTypeOK, DebtInv, ToastDebt, TriageDebt, Waits
<1>13. QED
  BY <1>1, <1>2, <1>3, <1>4, <1>5, <1>6, <1>7, <1>8, <1>9, <1>10, <1>11, <1>12
  DEF TargetNext, TargetStep

LEMMA TargetStarts == TargetInit => Sound
  BY TargetAssumption
  DEF TargetInit, Sound, TargetTypeOK, DebtInv, ToastDebt, TriageDebt, Waits, Entry

LEMMA DebtsPaid == Sound => RemindedOncePerAsk
  BY DEF Sound, TargetTypeOK, DebtInv, RemindedOncePerAsk, ToastDebt, TriageDebt, Waits

LEMMA TargetsSound == TargetSpec => []Sound
<1>1. TargetInit => Sound
  BY TargetStarts
<1>2. Sound /\ [TargetNext]_targetVars => Sound'
  BY TargetStepKeeps
<1>3. QED
  BY <1>1, <1>2, PTL DEF TargetSpec

(* The file of targets, the tick and the requests keep their types.        *)
THEOREM TargetTypes == TargetSpec => []TargetTypeOK
<1>1. Sound => TargetTypeOK
  BY DEF Sound
<1>2. QED
  BY TargetsSound, <1>1, PTL

(* The operator sees a deadline once and the leads are mailed once, and    *)
(* once more for each request and each fault (fireOneTarget, the tick,     *)
(* POST /targets/remind and /targets/triage).                              *)
THEOREM DeadlinesShownOnce == TargetSpec => []RemindedOncePerAsk
<1>1. Sound => RemindedOncePerAsk
  BY DebtsPaid
<1>2. QED
  BY TargetsSound, <1>1, PTL

(* The file is one line of the rows added, and a tick or a request is only *)
(* about rows of it.                                                       *)
LineInv ==
    /\ IsFiniteSet(File)
    /\ before \subseteq File \X File /\ InLine(before, File)
    /\ turn \subseteq File /\ Cardinality(turn) <= TargetBudget
    /\ \A t \in Target : request[t] # NoRequest =>
          t \in File /\ request[t].copy.status # "none"

(* Writing a row puts it last and leaves one line.                         *)
LEMMA UpsertLine ==
    ASSUME LineInv, NEW t \in Target, File' = File \cup {t}, before' = Upserted(t)
    PROVE  before' \subseteq File' \X File' /\ InLine(before', File')
<1>1. before \subseteq File \X File /\ InLine(before, File)
  BY DEF LineInv
<1>2. before' = {pair \in before : pair[1] # t /\ pair[2] # t} \cup ((File \ {t}) \X {t})
  BY DEF Upserted
<1> QED BY <1>1, <1>2 DEF InLine

(* A turn is emptied, cut short, or as it was.                             *)
LEMMA TurnShrinks ==
    ASSUME LineInv, turn' \subseteq turn
    PROVE  turn' \subseteq File /\ Cardinality(turn') <= TargetBudget
<1>1. IsFiniteSet(turn) /\ TargetBudget \in Nat
  BY FS_Subset, TargetAssumption DEF LineInv
<1>2. IsFiniteSet(turn') /\ Cardinality(turn') <= Cardinality(turn)
  BY <1>1, FS_Subset
<1>3. Cardinality(turn) \in Nat /\ Cardinality(turn') \in Nat
  BY <1>1, <1>2, FS_CardinalityType
<1> QED BY <1>1, <1>2, <1>3 DEF LineInv

(* A cancellation adds no row and takes none away.                         *)
LEMMA CancelKeepsFile ==
    ASSUME TargetTypeOK, NEW t \in Target
    PROVE  \A s \in Target : Cancelling(t)[s].status # "none" <=> s \in File
BY DEF Cancelling, Superseded, Open, File, TargetTypeOK, Entry

(* Steps that write no row.                                                *)
LEMMA FileRests ==
    ASSUME LineInv, File' = File, before' = before, turn' \subseteq turn,
           \A s \in Target : request'[s] \in {request[s], NoRequest}
    PROVE  LineInv'
BY TurnShrinks DEF LineInv

(* Steps that write one.                                                   *)
LEMMA FileGrows ==
    ASSUME LineInv, NEW t \in Target, File' = File \cup {t}, before' = Upserted(t),
           turn' \subseteq turn, \A s \in Target : request'[s] \in {request[s], NoRequest}
    PROVE  LineInv'
BY TurnShrinks, UpsertLine, FS_AddElement DEF LineInv

LEMMA FiredStays ==
    ASSUME TargetTypeOK, NEW t \in File, NEW r \in Entry, r.status # "none",
           NEW toast, NEW triage, NEW reach, FireOneTarget(t, r, toast, triage, reach)
    PROVE  File' = File \cup {t} /\ before' = Upserted(t) /\ t \in Target
<1>1. MarkedFor(r, triage, reach).status # "none"
  BY DEF MarkedFor, Entry
<1>2. entry' = [entry EXCEPT ![t] = MarkedFor(r, triage, reach)] /\ before' = Upserted(t)
  BY DEF FireOneTarget
<1> HIDE DEF MarkedFor
<1> QED BY <1>1, <1>2 DEF File, TargetTypeOK

LEMMA LineStep ==
    ASSUME TargetTypeOK, LineInv, [TargetNext]_targetVars
    PROVE  LineInv'
<1>1. ASSUME NEW t \in Target, AddTarget(t) PROVE LineInv'
  <2>1. entry' = [Cancelling(t) EXCEPT ![t].status = "active"]
    BY <1>1 DEF AddTarget
  <2>2. \A s \in Target : entry'[s].status # "none" <=> s \in File \cup {t}
    <3>1. Cancelling(t) \in [Target -> Entry]
      BY CancelTypes
    <3>2. \A s \in Target : Cancelling(t)[s].status # "none" <=> s \in File
      BY CancelKeepsFile
    <3> HIDE DEF Cancelling
    <3> QED BY <2>1, <3>1, <3>2 DEF Entry
  <2>3. File' = File \cup {t}
    BY <2>2 DEF File
  <2> QED BY <1>1, <2>3, FileGrows DEF AddTarget
<1>2. ASSUME NEW t \in Target, NEW status \in {"done", "cancelled"}, CloseTarget(t, status)
      PROVE  LineInv'
  <2>1. File' = File \cup {t}
    BY <1>2 DEF CloseTarget, File, Open, TargetTypeOK, Entry
  <2> QED BY <1>2, <2>1, FileGrows DEF CloseTarget
<1>3. ASSUME NEW t \in Target, DeadlinePasses(t) PROVE LineInv'
  <2>1. File' = File
    BY <1>3 DEF DeadlinePasses, File
  <2> QED BY <1>3, <2>1, FileRests DEF DeadlinePasses
<1>4. ASSUME NEW t \in Target, NEW action \in {"remind", "triage"}, Ask(t, action)
      PROVE  LineInv'
  <2>1. File' = File /\ t \in File
    BY <1>4 DEF Ask, File
  <2>2. UNCHANGED <<before, turn>>
    BY <1>4 DEF Ask
  <2>3. ASSUME NEW s \in Target, request'[s] # NoRequest
        PROVE  s \in File /\ request'[s].copy.status # "none"
    <3>1. request' = [request EXCEPT ![t] = [action |-> action, copy |-> entry[t]]]
      BY <1>4 DEF Ask
    <3>2. CASE s = t
      BY <1>4, <2>1, <3>1, <3>2 DEF Ask, TargetTypeOK
    <3>3. CASE s # t
      BY <2>3, <3>1, <3>3 DEF TargetTypeOK, LineInv
    <3> QED BY <3>2, <3>3
  <2> QED BY <2>1, <2>2, <2>3 DEF LineInv
<1>5. ASSUME NEW t \in Target, FireAsked(t) PROVE LineInv'
  <2>1. request[t] \in Request /\ t \in File /\ request[t].copy.status # "none"
    BY <1>5 DEF FireAsked, TargetTypeOK, LineInv
  <2>2. request[t].copy \in Entry
    BY <2>1 DEF Request
  <2>3. File' = File \cup {t} /\ before' = Upserted(t)
    BY <1>5, <2>1, <2>2, FiredStays DEF FireAsked
  <2>4. turn' = turn /\ \A s \in Target : request'[s] \in {request[s], NoRequest}
    BY <1>5 DEF FireAsked, TargetTypeOK
  <2> QED BY <2>3, <2>4, FileGrows
<1>6. CASE FireNext
  <2>1. PICK t \in FirstOf(turn, 1, before), reach \in BOOLEAN :
           turn' = turn \ {t} /\ FireOneTarget(t, entry[t], FALSE, FALSE, reach)
    BY <1>6 DEF FireNext
  <2>2. t \in File
    BY DEF FirstOf, LineInv
  <2>3. t \in Target /\ entry[t] \in Entry /\ entry[t].status # "none"
    BY <2>2 DEF File, TargetTypeOK
  <2>4. File' = File \cup {t} /\ before' = Upserted(t)
    BY <2>1, <2>2, <2>3, FiredStays
  <2>5. request' = request
    BY <1>6 DEF FireNext
  <2> QED BY <2>1, <2>3, <2>4, <2>5, FileGrows
<1>7. ASSUME FireFails \/ CrashTargets \/ (\E t \in Target : AskedFails(t) \/ AddFails(t))
      PROVE  LineInv'
  <2>1. before' = before /\ turn' = {}
    BY <1>7 DEF FireFails, CrashTargets, AskedFails, AddFails, Fault
  <2>2. \A s \in Target : request'[s] \in {request[s], NoRequest}
    BY <1>7 DEF FireFails, CrashTargets, AskedFails, AddFails, TargetTypeOK
  <2>3. File' = File
    <3>1. CASE entry' = entry
      BY <3>1 DEF File
    <3>2. ASSUME NEW t \in Target, AddFails(t) PROVE File' = File
      BY <3>2, CancelKeepsFile DEF AddFails, File
    <3> QED BY <1>7, <3>1, <3>2 DEF FireFails, CrashTargets, AskedFails
  <2> QED BY <2>1, <2>2, <2>3, FileRests
<1>8. CASE BeginTargets
  <2>1. ToFire \subseteq File
    BY DEF ToFire, Open, File, TargetTypeOK
  <2>2. IsFiniteSet(ToFire) /\ InLine(before, ToFire)
    <3>1. InLine(before, ToFire)
      BY <2>1 DEF LineInv, InLine
    <3> QED BY <2>1, <3>1, FS_Subset DEF LineInv
  <2>3. turn' \subseteq File /\ Cardinality(turn') <= TargetBudget
    <3>1. TargetBudget \in Nat /\ Cardinality(ToFire) \in Nat
      BY <2>2, TargetAssumption, FS_CardinalityType
    <3>2. Cardinality(turn') = IF Cardinality(ToFire) < TargetBudget
                               THEN Cardinality(ToFire) ELSE TargetBudget
      BY <1>8, <2>2, <3>1, FirstOfSize DEF BeginTargets
    <3> QED BY <1>8, <2>1, <3>1, <3>2 DEF BeginTargets, FirstOf
  <2>4. File' = File
    BY <1>8 DEF BeginTargets, File
  <2> QED BY <1>8, <2>3, <2>4 DEF BeginTargets, LineInv
<1>9. CASE UNCHANGED targetVars
  <2>1. File' = File
    BY <1>9 DEF targetVars, File
  <2> QED BY <1>9, <2>1, FileRests DEF targetVars
<1> QED
  BY <1>1, <1>2, <1>3, <1>4, <1>5, <1>6, <1>7, <1>8, <1>9 DEF TargetNext, TargetStep

(* A tick fires as many of the rows that are due as its budget allows, and *)
(* takes them from one line, whatever requests, faults and deaths do to    *)
(* the file (fireDueTargets, upsertTarget).                                *)
THEOREM TicksUseTheirBudget == TargetSpec => []TurnsUseBudget
<1>1. TargetInit => LineInv
  <2> SUFFICES ASSUME TargetInit PROVE LineInv OBVIOUS
  <2>1. File = {} /\ before = {} /\ turn = {} /\ \A t \in Target : request[t] = NoRequest
    BY DEF TargetInit, File
  <2>2. IsFiniteSet({}) /\ Cardinality({}) = 0
    BY FS_EmptySet
  <2> QED BY <2>1, <2>2, TargetAssumption DEF LineInv, InLine
<1>2. TargetTypeOK /\ LineInv => TurnsUseBudget
  <2> SUFFICES ASSUME TargetTypeOK, LineInv PROVE TurnsUseBudget OBVIOUS
  <2>1. ToFire \subseteq File
    BY DEF ToFire, Open, File, TargetTypeOK
  <2>2. InLine(before, ToFire)
    BY <2>1 DEF LineInv, InLine
  <2>3. IsFiniteSet(ToFire) /\ TargetBudget \in Nat
    BY <2>1, FS_Subset, TargetAssumption DEF LineInv
  <2> QED BY <2>2, <2>3, FirstOfSize DEF LineInv, TurnsUseBudget
<1>3. TargetTypeOK /\ LineInv /\ [TargetNext]_targetVars => LineInv'
  BY LineStep
<1> QED BY TargetTypes, <1>1, <1>2, <1>3, PTL DEF TargetSpec

-----------------------------------------------------------------------------
(* The recovery from a rate limit.                                         *)

(* The bound is not inductive: that an episode kills the seats once rests  *)
(* on an open episode not having killed them yet, and that it reboots the  *)
(* modem twice at most on each reboot after the first being paid for by a  *)
(* hit of the same address.                                                *)
OpenIsYoung(d) ==
    ep[d] = "open" => kills[d] = 0 /\ hits[d] <= 1 /\ reboots[d] <= 1 + hits[d]

EpisodeInv ==
    /\ ep \in [Daemon -> {"none", "open", "done"}]
    /\ kills \in [Daemon -> Nat] /\ reboots \in [Daemon -> Nat]
    /\ hits \in [Daemon -> Nat]
    /\ \A d \in Daemon : OpenIsYoung(d) /\ kills[d] <= 1 /\ reboots[d] <= 2

(* A new episode of a daemon is within the bound.                          *)
LEMMA BeginsBounded ==
    ASSUME EpisodeInv, NEW d \in Daemon,
           \/ \E ip \in BOOLEAN : BeginEpisode(d, ip)
           \/ BeginSkipped(d)
    PROVE  EpisodeInv'
<1>1. CASE \E ip \in BOOLEAN : BeginEpisode(d, ip)
    BY <1>1 DEF EpisodeInv, OpenIsYoung, BeginEpisode, Fresh, Set
<1>2. CASE BeginSkipped(d)
    BY <1>2 DEF EpisodeInv, OpenIsYoung, BeginSkipped, Fresh, Killing, Set
<1>3. QED
    BY <1>1, <1>2

(* The atomics of an open episode are its first.                           *)
LEMMA KillsBounded ==
    ASSUME EpisodeInv, NEW d \in Daemon, Active(d), Killing(d, kills[d] + 1),
           UNCHANGED <<reboots, hits>>
    PROVE  EpisodeInv'
    BY DEF EpisodeInv, OpenIsYoung, Active, Killing, Set

(* A step that leaves the episodes and their counters alone.               *)
LEMMA EpisodesRest ==
    EpisodeInv /\ UNCHANGED <<ep, kills, reboots, hits>> => EpisodeInv'
    BY DEF EpisodeInv, OpenIsYoung

(* The end of a script.                                                    *)
LEMMA ScriptsBounded ==
    ASSUME EpisodeInv, NEW d \in Daemon, NEW s \in Script, ScriptEnds(d, s)
    PROVE  EpisodeInv'
<1>1. CASE AgainEnds(d, s)
    BY <1>1, EpisodesRest DEF AgainEnds
<1>2. CASE FirstEnds(d, s)
  <2>1. CASE ep' = ep /\ kills' = kills
    BY <1>2, <2>1, EpisodesRest DEF FirstEnds
  <2>2. CASE Active(d) /\ Killing(d, kills[d] + 1)
    BY <1>2, <2>2, KillsBounded DEF FirstEnds
  <2>3. QED
    BY <1>2, <2>1, <2>2 DEF FirstEnds
<1>3. CASE ProxyEnds(d, s) \/ ChildExits(d, s) \/ OrphanExits(d, s)
    BY <1>3, EpisodesRest DEF ProxyEnds, ChildExits, OrphanExits, episode
<1>4. QED
    BY <1>1, <1>2, <1>3 DEF ScriptEnds

(* A tick that sees the same address five minutes after a reboot.          *)
LEMMA SameBounded ==
    ASSUME EpisodeInv, NEW d \in Daemon, TickSame(d)
    PROVE  EpisodeInv'
<1>1. CASE FirstHit(d) /\ ep' = ep /\ kills' = kills
  <2>1. Active(d) /\ hits' = [hits EXCEPT ![d] = hits[d] + 1]
    BY DEF TickSame, Ticking, Set
  <2>2. reboots' = reboots \/ reboots' = [reboots EXCEPT ![d] = reboots[d] + 1]
    BY <1>1 DEF TickSame, Set
  <2>3. QED
    BY <1>1, <2>1, <2>2 DEF EpisodeInv, OpenIsYoung, FirstHit, Active
<1>2. CASE Atomics(d) /\ UNCHANGED reboots
  <2>1. ep' = [ep EXCEPT ![d] = "done"] /\ kills' = [kills EXCEPT ![d] = kills[d] + 1]
    BY <1>2 DEF Atomics, Killing, Set
  <2>2. Active(d) /\ hits' = [hits EXCEPT ![d] = hits[d] + 1]
    BY DEF TickSame, Ticking, Set
  <2>3. QED
    BY <1>2, <2>1, <2>2 DEF EpisodeInv, OpenIsYoung, Active
<1>3. QED
    BY <1>1, <1>2 DEF TickSame

(* Every step of the recovery keeps EpisodeInv.                            *)
LEMMA OcStep ==
    EpisodeInv /\ [OcNext]_ocVars => EpisodeInv'
<1> SUFFICES ASSUME EpisodeInv, [OcNext]_ocVars PROVE EpisodeInv'
    OBVIOUS
<1>1. CASE UNCHANGED ocVars
    BY <1>1, EpisodesRest DEF ocVars, episode
<1>2. CASE Ages
    BY <1>2, EpisodesRest DEF Ages, episode
<1>3. ASSUME NEW d \in Daemon, NEW ip \in BOOLEAN, Limit(d, ip) PROVE EpisodeInv'
  <2>1. CASE BeginEpisode(d, ip)
    BY <2>1, BeginsBounded
  <2>2. CASE UNCHANGED episode
    BY <2>2, EpisodesRest DEF episode
  <2>3. QED
    BY <1>3, <2>1, <2>2 DEF Limit
<1>4. ASSUME NEW d \in Daemon, NEW ip \in BOOLEAN, NEW skip \in BOOLEAN,
             Manual(d, ip, skip)
      PROVE EpisodeInv'
  <2>1. CASE BeginEpisode(d, ip) \/ BeginSkipped(d)
    BY <2>1, BeginsBounded
  <2>2. CASE UNCHANGED episode
    BY <2>2, EpisodesRest DEF episode
  <2>3. QED
    BY <1>4, <2>1, <2>2 DEF Manual
<1>5. ASSUME NEW d \in Daemon,
             LimitClears(d) \/ ProxyUp(d) \/ Button(d) \/ FiveMinutes(d)
             \/ TickWaits(d)
      PROVE EpisodeInv'
    BY <1>5, EpisodesRest
       DEF LimitClears, ProxyUp, Button, FiveMinutes, TickWaits, episode
<1>6. ASSUME NEW d \in Daemon, TickNew(d) PROVE EpisodeInv'
    BY <1>6, KillsBounded DEF TickNew, Ticking, Atomics
<1>7. ASSUME NEW d \in Daemon, TickSame(d) PROVE EpisodeInv'
    BY <1>7, SameBounded
<1>8. ASSUME NEW d \in Daemon, NEW s \in Script, ScriptEnds(d, s) PROVE EpisodeInv'
    BY <1>8, ScriptsBounded
<1>9. ASSUME NEW d \in Daemon, DaemonDies(d) PROVE EpisodeInv'
    BY <1>9 DEF DaemonDies, EpisodeInv, OpenIsYoung, Set
<1>10. ASSUME NEW d \in Daemon, Resume(d) PROVE EpisodeInv'
  <2>1. CASE BeginSkipped(d)
    BY <2>1, BeginsBounded
  <2>2. CASE UNCHANGED episode
    BY <2>2, EpisodesRest DEF episode
  <2>3. QED
    BY <1>10, <2>1, <2>2 DEF Resume
<1>11. QED
    BY <1>1, <1>2, <1>3, <1>4, <1>5, <1>6, <1>7, <1>8, <1>9, <1>10 DEF OcNext

(* An episode kills the seats once and reboots the modem twice at most, by *)
(* itself, for any number of daemons, episodes, deaths and late callbacks  *)
(* (startOcLimitV2Episode, finishWithAtomics, tickWaitIp).                 *)
THEOREM EpisodesBounded == OcSpec => []EpisodeBounded
<1>1. OcInit => EpisodeInv
    BY DEF OcInit, EpisodeInv, OpenIsYoung
<1>2. EpisodeInv => EpisodeBounded
    BY DEF EpisodeInv, EpisodeBounded
<1>3. QED
    BY <1>1, <1>2, OcStep, PTL DEF OcSpec
-----------------------------------------------------------------------------
(* The types of the recovery.                                              *)

(* An episode that owns a poll timer has one to clear.                     *)
OwnsTimer == \A d \in Daemon : own[d] => polls[d] >= 1

OcSound == OcTypeOK /\ EpisodeInv /\ OwnsTimer

(* What the groups of variables may hold.                                  *)
SharedTypes ==
    /\ stamp \in {"none", "young", "old"} /\ pending \in {"none", "new", "stale"}
    /\ mark \in [by : Daemon, phase : {"reboot", "wait-ip"},
                 alive : BOOLEAN, beats : BOOLEAN] \cup {NoMark}

EpisodeTypes ==
    /\ ep \in [Daemon -> {"none", "open", "done"}]
    /\ known \in [Daemon -> BOOLEAN] /\ own \in [Daemon -> BOOLEAN]
    /\ since \in [Daemon -> {"unset", "recent", "waited"}]
    /\ hits \in [Daemon -> 0..2] /\ busy \in [Daemon -> BOOLEAN]
    /\ polls \in [Daemon -> Nat] /\ n \in [Daemon -> 0..MaxEpisodes]
    /\ reboots \in [Daemon -> Nat] /\ kills \in [Daemon -> Nat]

FlagTypes ==
    /\ limited \in [Daemon -> BOOLEAN] /\ started \in [Daemon -> BOOLEAN]
    /\ recovering \in [Daemon -> BOOLEAN]

RunTypes ==
    /\ up \in [Daemon -> BOOLEAN] /\ scripts \in [Daemon -> SUBSET Script]
    /\ buttons \in Nat /\ deaths \in Nat

LEMMA OcGroups == OcTypeOK <=> SharedTypes /\ EpisodeTypes /\ FlagTypes /\ RunTypes
BY DEF OcTypeOK, SharedTypes, EpisodeTypes, FlagTypes, RunTypes

LEMMA MarkType ==
    ASSUME NEW d \in Daemon, NEW phase \in {"reboot", "wait-ip"}
    PROVE  Mark(d, phase) \in [by : Daemon, phase : {"reboot", "wait-ip"},
                               alive : BOOLEAN, beats : BOOLEAN]
BY DEF Mark

LEMMA LaunchTypes ==
    ASSUME RunTypes, NEW d \in Daemon, NEW e \in 0..MaxEpisodes,
           NEW kind \in {"first", "again", "button", "proxy", "atomics", "orphan"},
           Launch(d, e, kind)
    PROVE  scripts' \in [Daemon -> SUBSET Script]
<1>1. <<e, kind>> \in Script
  BY DEF Script
<1> QED BY <1>1 DEF Launch, Set, RunTypes

LEMMA EndedTypes ==
    ASSUME RunTypes, NEW d \in Daemon, NEW s, Ended(d, s)
    PROVE  scripts' \in [Daemon -> SUBSET Script]
BY DEF Ended, Set, RunTypes

(* What every new episode does, before it reboots or kills.                *)
LEMMA FreshTypes ==
    ASSUME OcSound, NEW d \in Daemon, Fresh(d)
    PROVE  /\ n' \in [Daemon -> 0..MaxEpisodes] /\ n[d] + 1 \in 0..MaxEpisodes
           /\ stamp' \in {"none", "young", "old"}
           /\ since' \in [Daemon -> {"unset", "recent", "waited"}] /\ hits' \in [Daemon -> 0..2]
           /\ own' \in [Daemon -> BOOLEAN] /\ polls' \in [Daemon -> Nat] /\ OwnsTimer'
           /\ started' \in [Daemon -> BOOLEAN] /\ recovering' \in [Daemon -> BOOLEAN]
<1>1. MaxEpisodes \in Nat /\ n[d] \in 0..MaxEpisodes
  BY OcAssumption DEF OcSound, OcTypeOK
<1>2. n[d] + 1 \in 0..MaxEpisodes
  BY <1>1 DEF Fresh
<1> QED BY <1>2 DEF Fresh, OcSound, OcTypeOK, OwnsTimer, Set

LEMMA BeginTypes ==
    ASSUME OcSound, NEW d \in Daemon, NEW ip \in BOOLEAN,
           BeginEpisode(d, ip) \/ BeginSkipped(d),
           limited' \in [Daemon -> BOOLEAN], up' \in [Daemon -> BOOLEAN],
           UNCHANGED <<buttons, deaths>>
    PROVE  OcTypeOK' /\ OwnsTimer'
<1>1. Fresh(d)
  BY DEF BeginEpisode, BeginSkipped
<1>2. /\ n' \in [Daemon -> 0..MaxEpisodes] /\ n[d] + 1 \in 0..MaxEpisodes
      /\ stamp' \in {"none", "young", "old"}
      /\ since' \in [Daemon -> {"unset", "recent", "waited"}] /\ hits' \in [Daemon -> 0..2]
      /\ own' \in [Daemon -> BOOLEAN] /\ polls' \in [Daemon -> Nat] /\ OwnsTimer'
      /\ started' \in [Daemon -> BOOLEAN] /\ recovering' \in [Daemon -> BOOLEAN]
  BY <1>1, FreshTypes
<1>3. RunTypes /\ SharedTypes /\ EpisodeTypes
  BY OcGroups DEF OcSound
<1>4. CASE BeginEpisode(d, ip)
  <2>1. scripts' \in [Daemon -> SUBSET Script]
    BY <1>2, <1>3, <1>4, LaunchTypes DEF BeginEpisode
  <2>2. mark' = Mark(d, "reboot") /\ pending' = pending
    BY <1>4 DEF BeginEpisode
  <2>3. SharedTypes'
    BY <1>2, <1>3, <2>2, MarkType DEF SharedTypes
  <2>4. EpisodeTypes'
    BY <1>2, <1>3, <1>4 DEF EpisodeTypes, BeginEpisode, Set
  <2> QED BY <1>2, <1>3, <2>1, <2>3, <2>4
      DEF SharedTypes, EpisodeTypes, FlagTypes, RunTypes, OcTypeOK
<1>5. CASE BeginSkipped(d)
  <2>1. scripts' \in [Daemon -> SUBSET Script]
    BY <1>2, <1>3, <1>5, LaunchTypes DEF BeginSkipped
  <2>2. mark' = NoMark /\ pending' = "new"
    BY <1>5 DEF BeginSkipped, Killing
  <2>3. SharedTypes'
    BY <1>2, <2>2 DEF SharedTypes
  <2>4. EpisodeTypes'
    BY <1>2, <1>3, <1>5 DEF EpisodeTypes, BeginSkipped, Killing, Set
  <2> QED BY <1>2, <1>3, <2>1, <2>3, <2>4
      DEF SharedTypes, EpisodeTypes, FlagTypes, RunTypes, OcTypeOK
<1> QED BY <1>4, <1>5

(* finishWithAtomics clears the episode's own timer, which there is.       *)
LEMMA AtomicsTypes ==
    ASSUME OcSound, NEW d \in Daemon, Atomics(d),
           UNCHANGED <<stamp, up, known, busy, n, flags, buttons, deaths>>,
           since' \in [Daemon -> {"unset", "recent", "waited"}],
           hits' \in [Daemon -> 0..2], reboots' \in [Daemon -> Nat]
    PROVE  OcTypeOK' /\ OwnsTimer'
<1>1. RunTypes /\ SharedTypes /\ EpisodeTypes /\ FlagTypes
  BY OcGroups DEF OcSound
<1>2. scripts' \in [Daemon -> SUBSET Script]
  BY <1>1, LaunchTypes DEF Atomics, EpisodeTypes
<1>3. polls' \in [Daemon -> Nat] /\ own' \in [Daemon -> BOOLEAN] /\ OwnsTimer'
  BY <1>1 DEF Atomics, EpisodeTypes, OcSound, OwnsTimer, Set
<1>4. EpisodeTypes'
  BY <1>1, <1>3 DEF Atomics, Killing, EpisodeTypes, Set
<1>5. SharedTypes' /\ RunTypes' /\ FlagTypes'
  BY <1>1, <1>2 DEF Atomics, Killing, SharedTypes, RunTypes, FlagTypes, flags
<1> QED BY <1>3, <1>4, <1>5, OcGroups DEF OcTypeOK, SharedTypes, EpisodeTypes, FlagTypes, RunTypes

(* The end of a script.                                                    *)
LEMMA ScriptTypes ==
    ASSUME OcSound, NEW d \in Daemon, NEW s \in Script, ScriptEnds(d, s)
    PROVE  OcTypeOK' /\ OwnsTimer'
<1>1. RunTypes /\ SharedTypes /\ EpisodeTypes /\ FlagTypes
  BY OcGroups DEF OcSound
<1>2. CASE AgainEnds(d, s)
  <2>1. scripts' \in [Daemon -> SUBSET Script]
    BY <1>1, <1>2, EndedTypes DEF AgainEnds
  <2> QED BY <1>1, <1>2, <2>1
      DEF AgainEnds, Rebooted, Set, shared, flags, OcTypeOK, OcSound, OwnsTimer
<1>3. CASE FirstEnds(d, s)
  <2>1. /\ busy' \in [Daemon -> BOOLEAN]
        /\ since' \in [Daemon -> {"unset", "recent", "waited"}]
    BY <1>1, <1>3 DEF FirstEnds, Rebooted, Set, EpisodeTypes
  <2>2. scripts' \in [Daemon -> SUBSET Script]
    <3>1. CASE Ended(d, s)
      BY <1>1, <3>1, EndedTypes
    <3>2. CASE scripts' = Set(scripts, d, (scripts[d] \ {s}) \cup {<<n[d], "atomics">>})
      <4>1. <<n[d], "atomics">> \in Script
        BY <1>1 DEF Script, EpisodeTypes
      <4> QED BY <1>1, <3>2, <4>1 DEF Set, RunTypes
    <3> QED BY <1>3, <3>1, <3>2 DEF FirstEnds
  <2>3. polls' \in [Daemon -> Nat] /\ own' \in [Daemon -> BOOLEAN] /\ OwnsTimer'
    <3>1. CASE UNCHANGED <<polls, own>>
      BY <1>1, <3>1 DEF EpisodeTypes, OcSound, OwnsTimer
    <3>2. ASSUME NEW k \in 1..2, polls' = Set(polls, d, polls[d] + k), own' = Set(own, d, TRUE)
          PROVE  polls' \in [Daemon -> Nat] /\ own' \in [Daemon -> BOOLEAN] /\ OwnsTimer'
      BY <1>1, <3>2 DEF Set, EpisodeTypes, OcSound, OwnsTimer
    <3>3. \/ UNCHANGED <<polls, own>>
          \/ \E k \in 1..2 : polls' = Set(polls, d, polls[d] + k) /\ own' = Set(own, d, TRUE)
          \/ polls' = Set(polls, d, polls[d] + 1) /\ own' = Set(own, d, TRUE)
      BY <1>3 DEF FirstEnds
    <3>4. 1 \in 1..2
      OBVIOUS
    <3> QED BY <3>1, <3>2, <3>3, <3>4
  <2>4. ep' \in [Daemon -> {"none", "open", "done"}] /\ kills' \in [Daemon -> Nat]
    BY <1>1, <1>3 DEF FirstEnds, Killing, Set, EpisodeTypes
  <2>5. SharedTypes'
    <3>1. CASE UNCHANGED <<mark, pending>>
      BY <1>1, <1>3, <3>1 DEF FirstEnds, SharedTypes
    <3>2. CASE mark' = Mark(d, "wait-ip") /\ pending' = pending
      BY <1>1, <1>3, <3>2, MarkType DEF FirstEnds, SharedTypes
    <3>3. CASE mark' = NoMark /\ pending' = "new"
      BY <1>1, <1>3, <3>3 DEF FirstEnds, SharedTypes
    <3> QED BY <1>3, <3>1, <3>2, <3>3 DEF FirstEnds, Killing
  <2>6. EpisodeTypes' /\ RunTypes' /\ FlagTypes'
    BY <1>1, <1>3, <2>1, <2>2, <2>3, <2>4 DEF FirstEnds, EpisodeTypes, RunTypes, FlagTypes, flags
  <2> QED BY <2>3, <2>5, <2>6, OcGroups DEF OcTypeOK, SharedTypes, EpisodeTypes, FlagTypes, RunTypes
<1>4. CASE ProxyEnds(d, s) \/ ChildExits(d, s) \/ OrphanExits(d, s)
  <2>1. scripts' \in [Daemon -> SUBSET Script]
    BY <1>1, <1>4, EndedTypes DEF ProxyEnds, ChildExits, OrphanExits
  <2> QED BY <1>4, <2>1
      DEF ProxyEnds, ChildExits, OrphanExits, Set, shared, episode, flags, OcTypeOK, OcSound, OwnsTimer
<1> QED BY <1>2, <1>3, <1>4 DEF ScriptEnds

LEMMA DeathTypes ==
    ASSUME OcSound, NEW d \in Daemon, DaemonDies(d)
    PROVE  OcTypeOK' /\ OwnsTimer'
<1>1. RunTypes /\ SharedTypes /\ EpisodeTypes /\ FlagTypes
  BY OcGroups DEF OcSound
<1>2. scripts' \in [Daemon -> SUBSET Script]
  <2>1. {<<s[1], "orphan">> : s \in {t \in scripts[d] : t[2] \in {"atomics", "orphan"}}}
            \subseteq Script
    BY <1>1 DEF RunTypes, Script
  <2> QED BY <1>1, <2>1 DEF DaemonDies, Set, RunTypes
<1>3. SharedTypes'
  BY <1>1 DEF DaemonDies, SharedTypes
<1>4. EpisodeTypes' /\ OwnsTimer'
  BY <1>1 DEF DaemonDies, EpisodeTypes, OcSound, OwnsTimer, Set
<1>5. RunTypes' /\ FlagTypes'
  BY <1>1, <1>2 DEF DaemonDies, RunTypes, FlagTypes, Set
<1> QED BY <1>3, <1>4, <1>5, OcGroups DEF OcTypeOK, SharedTypes, EpisodeTypes, FlagTypes, RunTypes

LEMMA OcTypeStep ==
    ASSUME OcSound, [OcNext]_ocVars
    PROVE  OcTypeOK' /\ OwnsTimer'
<1>0. RunTypes /\ SharedTypes /\ EpisodeTypes /\ FlagTypes
  BY OcGroups DEF OcSound
<1>1. CASE UNCHANGED ocVars
  BY <1>1 DEF ocVars, shared, episode, flags, OcTypeOK, OcSound, OwnsTimer
<1>2. CASE Ages
  <2>1. SharedTypes'
    BY <1>0, <1>2 DEF Ages, SharedTypes
  <2> QED BY <1>2, <2>1 DEF Ages, SharedTypes, episode, flags, OcTypeOK, OcSound, OwnsTimer
<1>3. ASSUME NEW d \in Daemon, NEW ip \in BOOLEAN, Limit(d, ip) PROVE OcTypeOK' /\ OwnsTimer'
  <2>1. limited' \in [Daemon -> BOOLEAN] /\ UNCHANGED <<up, buttons, deaths>>
    BY <1>0, <1>3 DEF Limit, Set, FlagTypes
  <2>2. CASE BeginEpisode(d, ip)
    BY <1>0, <2>1, <2>2, BeginTypes DEF RunTypes
  <2>3. CASE ~BeginEpisode(d, ip)
    <3>0. UNCHANGED episode
      BY <1>3, <2>3 DEF Limit
    <3>1. SharedTypes' /\ started' \in [Daemon -> BOOLEAN] /\ recovering' \in [Daemon -> BOOLEAN]
          /\ scripts' = scripts
      <4>1. \/ UNCHANGED <<stamp, mark, pending, scripts, recovering>> /\ started' = Set(started, d, TRUE)
            \/ /\ stamp' = "none" /\ mark' \in {mark, NoMark}
               /\ UNCHANGED <<pending, scripts, started, recovering>>
        BY <1>3, <2>3 DEF Limit, shared
      <4> QED BY <1>0, <4>1 DEF Set, SharedTypes, FlagTypes
    <3> QED BY <2>1, <3>0, <3>1 DEF SharedTypes, episode, OcTypeOK, OcSound, OwnsTimer
  <2> QED BY <2>2, <2>3
<1>4. ASSUME NEW d \in Daemon, NEW ip \in BOOLEAN, NEW skip \in BOOLEAN, Manual(d, ip, skip)
      PROVE  OcTypeOK' /\ OwnsTimer'
  <2>1. UNCHANGED <<up, limited, buttons, deaths>>
    BY <1>4 DEF Manual
  <2>2. CASE BeginEpisode(d, ip) \/ BeginSkipped(d)
    BY <1>0, <2>1, <2>2, BeginTypes DEF RunTypes, FlagTypes
  <2>3. CASE /\ stamp' = "none" /\ UNCHANGED <<mark, pending, episode, scripts>>
             /\ started' = Set(started, d, FALSE) /\ recovering' = Set(recovering, d, FALSE)
    BY <2>1, <2>3 DEF Set, episode, OcTypeOK, OcSound, OwnsTimer
  <2> QED BY <1>4, <2>2, <2>3 DEF Manual
<1>5. ASSUME NEW d \in Daemon, LimitClears(d) \/ FiveMinutes(d) PROVE OcTypeOK' /\ OwnsTimer'
  BY <1>5 DEF LimitClears, FiveMinutes, Set, shared, episode, flags, OcTypeOK, OcSound, OwnsTimer
<1>6. ASSUME NEW d \in Daemon, ProxyUp(d) \/ Button(d) PROVE OcTypeOK' /\ OwnsTimer'
  <2>1. scripts' \in [Daemon -> SUBSET Script]
    BY <1>0, <1>6, LaunchTypes DEF ProxyUp, Button, EpisodeTypes
  <2>2. CASE ProxyUp(d)
    BY <2>1, <2>2 DEF ProxyUp, Set, shared, episode, OcTypeOK, OcSound, OwnsTimer
  <2>3. CASE Button(d)
    <3>1. buttons' \in Nat /\ UNCHANGED <<deaths, up>> /\ since' = Set(since, d, "unset")
          /\ busy' = Set(busy, d, TRUE)
      BY <1>0, <2>3 DEF Button, RunTypes
    <3> QED BY <2>1, <2>3, <3>1 DEF Button, Set, shared, flags, OcTypeOK, OcSound, OwnsTimer
  <2> QED BY <1>6, <2>2, <2>3
<1>7. ASSUME NEW d \in Daemon, TickNew(d) PROVE OcTypeOK' /\ OwnsTimer'
  BY <1>0, <1>7, AtomicsTypes DEF TickNew, EpisodeTypes
<1>8. ASSUME NEW d \in Daemon, TickSame(d) PROVE OcTypeOK' /\ OwnsTimer'
  <2>1. hits' \in [Daemon -> 0..2]
    <3>1. hits[d] + 1 \in 0..2
      BY <1>0, <1>8 DEF TickSame, Ticking, Active, OcSound, EpisodeInv, OpenIsYoung, EpisodeTypes
    <3> QED BY <1>0, <1>8, <3>1 DEF TickSame, Set, EpisodeTypes
  <2>2. CASE Atomics(d) /\ UNCHANGED <<since, busy, reboots>>
    BY <1>0, <1>8, <2>1, <2>2, AtomicsTypes DEF TickSame, EpisodeTypes
  <2>3. CASE FirstHit(d) /\ UNCHANGED <<pending, ep, kills, polls, own>>
    <3>1. scripts' \in [Daemon -> SUBSET Script]
      BY <1>0, <1>8, <2>3, LaunchTypes DEF TickSame, EpisodeTypes, RunTypes, FirstHit
    <3>2. /\ busy' \in [Daemon -> BOOLEAN] /\ reboots' \in [Daemon -> Nat]
          /\ since' \in [Daemon -> {"unset", "recent", "waited"}]
      <4>1. since' = Set(since, d, "unset")
        BY <1>8, <2>3 DEF TickSame
      <4>2. \/ UNCHANGED <<busy, reboots>>
            \/ busy' = Set(busy, d, TRUE) /\ reboots' = Set(reboots, d, reboots[d] + 1)
        BY <1>8, <2>3 DEF TickSame
      <4>3. /\ since \in [Daemon -> {"unset", "recent", "waited"}]
            /\ busy \in [Daemon -> BOOLEAN] /\ reboots \in [Daemon -> Nat]
        BY <1>0 DEF EpisodeTypes
      <4>4. since' \in [Daemon -> {"unset", "recent", "waited"}]
        BY <4>1, <4>3 DEF Set
      <4>5. busy' \in [Daemon -> BOOLEAN]
        <5>1. busy' = busy \/ busy' = Set(busy, d, TRUE)
          BY <4>2
        <5> QED BY <4>3, <5>1 DEF Set
      <4>6. reboots' \in [Daemon -> Nat]
        <5>1. reboots' = reboots \/ reboots' = Set(reboots, d, reboots[d] + 1)
          BY <4>2
        <5>2. reboots[d] + 1 \in Nat
          BY <4>3
        <5> QED BY <4>3, <5>1, <5>2 DEF Set
      <4> QED BY <4>4, <4>5, <4>6
    <3>3. mark' = Mark(d, "wait-ip") /\ UNCHANGED <<stamp, up, known, n, flags, buttons, deaths>>
      BY <1>8, <2>3 DEF TickSame, FirstHit
    <3> QED BY <2>1, <2>3, <3>1, <3>2, <3>3, MarkType DEF flags, OcTypeOK, OcSound, OwnsTimer
  <2> QED BY <1>8, <2>2, <2>3 DEF TickSame
<1>9. ASSUME NEW d \in Daemon, TickWaits(d) PROVE OcTypeOK' /\ OwnsTimer'
  BY <1>9, MarkType DEF TickWaits, episode, flags, OcTypeOK, OcSound, OwnsTimer
<1>10. ASSUME NEW d \in Daemon, Resume(d) PROVE OcTypeOK' /\ OwnsTimer'
  <2>1. up' \in [Daemon -> BOOLEAN] /\ UNCHANGED <<limited, buttons, deaths>>
    BY <1>0, <1>10 DEF Resume, Set, RunTypes
  <2>2. CASE BeginSkipped(d)
    BY <1>0, <2>1, <2>2, BeginTypes DEF FlagTypes
  <2>3. CASE /\ Launch(d, n[d], "orphan") /\ UNCHANGED <<shared, episode>>
             /\ started' = Set(started, d, TRUE) /\ recovering' = Set(recovering, d, TRUE)
    <3>1. scripts' \in [Daemon -> SUBSET Script]
      BY <1>0, <2>3, LaunchTypes DEF EpisodeTypes
    <3> QED BY <2>1, <2>3, <3>1 DEF Set, shared, episode, OcTypeOK, OcSound, OwnsTimer
  <2>4. CASE /\ pending' = (IF pending = "stale" /\ ~AtomicsBusy THEN "none" ELSE pending)
             /\ stamp' = (IF Orphan THEN "none" ELSE stamp)
             /\ mark' = (IF Orphan THEN NoMark ELSE mark)
             /\ UNCHANGED <<episode, scripts, started, recovering>>
    BY <2>1, <2>4 DEF episode, OcTypeOK, OcSound, OwnsTimer
  <2> QED BY <1>10, <2>2, <2>3, <2>4 DEF Resume
<1> QED
  BY <1>1, <1>2, <1>3, <1>4, <1>5, <1>6, <1>7, <1>8, <1>9, <1>10, ScriptTypes, DeathTypes DEF OcNext

(* The files the daemons share, their episodes, timers and scripts keep    *)
(* their types: no timer is cleared that is not there, no address is       *)
(* counted a third time.                                                   *)
THEOREM OcTypes == OcSpec => []OcTypeOK
<1>1. OcInit => OcSound
  BY OcAssumption DEF OcInit, OcSound, OcTypeOK, OwnsTimer, EpisodeInv, OpenIsYoung
<1>2. OcSound /\ [OcNext]_ocVars => OcSound'
  BY OcStep, OcTypeStep DEF OcSound
<1>3. OcSound => OcTypeOK
  BY DEF OcSound
<1> QED BY <1>1, <1>2, <1>3, PTL DEF OcSpec
-----------------------------------------------------------------------------
(* The watch over the proxy.                                               *)

(* A look counts up to ConnectNeed, and keeps one of three things.         *)
LEMMA LookTypes ==
    ASSUME ConnTypeOK, NEW p0 \in MPane
    PROVE  Streak(p0) \in 0..ConnectNeed /\ Cached(p0) \in {"none", "connect", "rate"}
<1>1. /\ streak[p0] \in 0..ConnectNeed /\ cache[p0] \in {"none", "connect", "rate"}
      /\ ConnectNeed \in Nat
  BY ConnectivityAssumption DEF ConnTypeOK
<1>2. Streak(p0) \in 0..ConnectNeed
  <2>1. Streak(p0) \in {streak[p0], streak[p0] + 1, ConnectNeed, 0}
        /\ (Streak(p0) = streak[p0] + 1 => streak[p0] < ConnectNeed \/ Streak(p0) = streak[p0])
    BY <1>1 DEF Streak
  <2> QED BY <1>1, <2>1
<1>3. Cached(p0) \in {cache[p0], "connect", "none", "rate"}
  BY DEF Cached
<1> QED BY <1>1, <1>2, <1>3

(* The next poll starts at a pane there is.                                *)
LEMMA ScanTypes ==
    ASSUME ConnTypeOK
    PROVE  NextScan \in 0..(Len(Panes) - 1) /\ Len(Panes) \in Nat \ {0}
<1>1. Len(Panes) \in Nat \ {0} /\ ScanBatch \in Nat /\ scanFrom \in Nat
  BY ConnectivityAssumption DEF ConnTypeOK
<1> DEFINE from == scanFrom + ScanBatch
<1>2. from \in Nat
  BY <1>1
<1> HIDE DEF from
<1>3. from % Len(Panes) \in 0..(Len(Panes) - 1)
  BY <1>1, <1>2
<1> QED BY <1>1, <1>3 DEF NextScan, from

ConnSound == ConnTypeOK /\ HoldIsConfirmed /\ WaveIsOwed

(* A look of a pane that is kept as "connect" has its full streak.         *)
LEMMA LookConfirms ==
    ASSUME ConnSound, NEW p0 \in MPane, Cached(p0) = "connect"
    PROVE  Streak(p0) = ConnectNeed
<1>1. /\ streak[p0] \in 0..ConnectNeed /\ ConnectNeed \in Nat
      /\ cache[p0] = "connect" => streak[p0] = ConnectNeed
      /\ Streak(p0) \in 0..ConnectNeed
  BY ConnectivityAssumption, LookTypes DEF ConnSound, ConnTypeOK, HoldIsConfirmed
<1>2. CASE p0 \notin Scanned
  BY <1>1, <1>2 DEF Cached, Streak
<1>3. CASE p0 \in Scanned /\ screen[p0] = "connect"
  <2>1. Streak(p0) >= ConnectNeed
    BY <1>3 DEF Cached
  <2> QED BY <1>1, <2>1
<1>4. CASE p0 \in Scanned /\ screen[p0] = "credit"
  BY <1>1, <1>4 DEF Cached, Streak
<1>5. CASE p0 \in Scanned /\ screen[p0] \notin {"connect", "credit"}
  BY <1>5 DEF Cached
<1> QED BY <1>2, <1>3, <1>4, <1>5

LEMMA PollKeeps ==
    ASSUME ConnSound, Poll
    PROVE  ConnSound'
<1>1. /\ ~looked /\ ~waveDue /\ looked' = TRUE /\ cache' = [p0 \in MPane |-> Cached(p0)]
      /\ scanFrom' = NextScan /\ UNCHANGED <<screen, unconfirmed, locks>>
  BY DEF Poll, Look
<1>2. /\ streak' = [p0 \in MPane |-> IF Clears THEN 0 ELSE Streak(p0)]
      /\ cleared' = (cleared \/ Clears) /\ waveDue' = Clears
  BY DEF Poll
<1>3. PICK carrierOk \in BOOLEAN :
         down' = ((down \/ Starts(carrierOk)) /\ ~Clears) /\ owed' = (owed \/ down')
  BY DEF Poll
<1>4. ConnTypeOK'
  <2>1. cache' \in [MPane -> {"none", "connect", "rate"}]
    BY <1>1, LookTypes DEF ConnSound
  <2>2. streak' \in [MPane -> 0..ConnectNeed]
    <3>1. 0 \in 0..ConnectNeed
      BY ConnectivityAssumption
    <3> QED BY <1>2, <3>1, LookTypes DEF ConnSound
  <2>3. Clears \in BOOLEAN
    BY DEF Clears
  <2>4. {down', cleared', waveDue', looked', owed'} \subseteq BOOLEAN
    BY <1>1, <1>2, <1>3, <2>3 DEF ConnSound, ConnTypeOK
  <2> QED BY <1>1, <2>1, <2>2, <2>4, ScanTypes DEF ConnSound, ConnTypeOK
<1>5. HoldIsConfirmed'
  <2>1. SUFFICES ASSUME NEW p0 \in MPane, cache'[p0] = "connect"
                 PROVE  streak'[p0] = ConnectNeed
    BY DEF HoldIsConfirmed
  <2>2. Cached(p0) = "connect"
    BY <1>1, <2>1
  <2>3. ~Clears
    BY <2>2 DEF Clears, Confirmed
  <2> QED BY <1>2, <2>2, <2>3, LookConfirms
<1>6. WaveIsOwed'
  <2>1. \A p0 \in MPane : cache'[p0] = "connect" <=> p0 \in Confirmed
    BY <1>1 DEF Confirmed
  <2>2. Starts(carrierOk) => Confirmed # {}
    BY DEF Starts
  <2>3. down' => Confirmed # {}
    BY <1>3, <2>2 DEF Clears
  <2>4. owed' /\ locks' = 0 => down' \/ waveDue'
    BY <1>1, <1>2, <1>3 DEF ConnSound, WaveIsOwed, ConnTypeOK
  <2>5. waveDue' => ~down' /\ Confirmed = {}
    BY <1>2, <1>3 DEF Clears
  <2>6. Confirmed \subseteq MPane
    BY DEF Confirmed
  <2> QED BY <2>1, <2>3, <2>4, <2>5, <2>6 DEF WaveIsOwed
<1> QED BY <1>4, <1>5, <1>6 DEF ConnSound

LEMMA LockKeeps ==
    ASSUME ConnSound, PollLocked
    PROVE  ConnSound'
<1>1. /\ looked' = TRUE /\ ~waveDue /\ cache' = [p0 \in MPane |-> Cached(p0)]
      /\ streak' = [p0 \in MPane |-> Streak(p0)] /\ scanFrom' = NextScan
      /\ locks < MaxLocks /\ locks' = locks + 1 /\ down' = FALSE
      /\ UNCHANGED <<screen, unconfirmed, cleared, waveDue, owed>>
  BY DEF PollLocked, Look
<1>2. locks \in Nat /\ MaxLocks \in Nat
  BY ConnectivityAssumption DEF ConnSound, ConnTypeOK
<1>3. ConnTypeOK'
  <2>1. /\ cache' \in [MPane -> {"none", "connect", "rate"}]
        /\ streak' \in [MPane -> 0..ConnectNeed]
    BY <1>1, LookTypes DEF ConnSound
  <2>2. locks' \in 0..MaxLocks
    BY <1>1, <1>2
  <2>3. {down', cleared', waveDue', looked', owed'} \subseteq BOOLEAN
    BY <1>1 DEF ConnSound, ConnTypeOK
  <2> QED BY <1>1, <2>1, <2>2, <2>3, ScanTypes DEF ConnSound, ConnTypeOK
<1>4. HoldIsConfirmed'
  BY <1>1, LookConfirms DEF HoldIsConfirmed
<1>5. WaveIsOwed'
  <2>1. locks' # 0
    BY <1>1, <1>2
  <2> QED BY <1>1, <2>1 DEF ConnSound, WaveIsOwed
<1> QED BY <1>3, <1>4, <1>5 DEF ConnSound

(* An acknowledgement takes a banner together with its streak.             *)
LEMMA AcksKeep ==
    ASSUME ConnSound, PollAcks
    PROVE  ConnSound'
<1>1. /\ looked' = FALSE /\ unconfirmed' = unconfirmed \ Acked
      /\ cache' = [p0 \in MPane |-> IF p0 \in Working THEN "none" ELSE cache[p0]]
      /\ streak' = [p0 \in MPane |-> IF p0 \in Working THEN 0 ELSE streak[p0]]
      /\ UNCHANGED <<screen, scanFrom, down, cleared, waveDue, locks, owed>>
  BY DEF PollAcks
<1>2. ConnTypeOK'
  <2>1. 0 \in 0..ConnectNeed
    BY ConnectivityAssumption
  <2>2. /\ cache' \in [MPane -> {"none", "connect", "rate"}]
        /\ streak' \in [MPane -> 0..ConnectNeed]
    BY <1>1, <2>1 DEF ConnSound, ConnTypeOK
  <2>3. {down', cleared', waveDue', looked', owed'} \subseteq BOOLEAN
    BY <1>1 DEF ConnSound, ConnTypeOK
  <2> QED BY <1>1, <2>2, <2>3 DEF ConnSound, ConnTypeOK
<1>3. \A p0 \in MPane : cache'[p0] = "connect" => cache[p0] = "connect" /\ p0 \notin Working
  BY <1>1
<1> QED BY <1>1, <1>2, <1>3 DEF ConnSound, HoldIsConfirmed, WaveIsOwed

LEMMA ResumeKeeps ==
    ASSUME ConnSound, SendResume, waveDue' \in {waveDue, FALSE}
    PROVE  ConnSound'
<1>1. /\ owed' = FALSE
      /\ UNCHANGED <<screen, cache, streak, scanFrom, down, cleared, looked, locks>>
  BY DEF SendResume
<1>2. unconfirmed' \subseteq MPane
  <2>1. PICK sent \in SUBSET {p0 \in MPane : screen[p0] \in OpenCode} :
           unconfirmed' = IF sent = {} THEN unconfirmed ELSE sent
    BY DEF SendResume
  <2> QED BY <2>1 DEF ConnSound, ConnTypeOK
<1>3. {down', cleared', waveDue', looked', owed'} \subseteq BOOLEAN
  BY <1>1 DEF ConnSound, ConnTypeOK
<1>4. ConnTypeOK'
  BY <1>1, <1>2, <1>3 DEF ConnSound, ConnTypeOK
<1>5. waveDue' => waveDue
  BY DEF ConnSound, ConnTypeOK
<1> QED BY <1>1, <1>4, <1>5 DEF ConnSound, HoldIsConfirmed, WaveIsOwed

LEMMA ConnStep ==
    ASSUME ConnSound, [ConnNext]_connVars
    PROVE  ConnSound'
<1>1. CASE UNCHANGED connVars
  BY <1>1 DEF connVars, ConnSound, ConnTypeOK, HoldIsConfirmed, WaveIsOwed
<1>2. CASE Wave
  BY <1>2, ResumeKeeps DEF Wave
<1>3. CASE RemoteResume
  BY <1>3, ResumeKeeps DEF RemoteResume
<1>4. CASE RearmEnds
  BY <1>4 DEF RearmEnds, ConnSound, ConnTypeOK, HoldIsConfirmed, WaveIsOwed
<1>5. CASE CrashConn
  <2>1. /\ cache' = [p0 \in MPane |-> "none"] /\ streak' = [p0 \in MPane |-> 0]
        /\ scanFrom' = 0 /\ down' = FALSE /\ cleared' = FALSE /\ waveDue' = FALSE
        /\ looked' = FALSE /\ unconfirmed' = {} /\ owed' = FALSE /\ UNCHANGED <<screen, locks>>
    BY <1>5 DEF CrashConn
  <2>2. 0 \in 0..ConnectNeed /\ 0 \in 0..(Len(Panes) - 1)
    BY ConnectivityAssumption, ScanTypes DEF ConnSound
  <2>3. ConnTypeOK'
    BY <2>1, <2>2 DEF ConnSound, ConnTypeOK
  <2>4. \A p0 \in MPane : cache'[p0] # "connect"
    BY <2>1
  <2> QED BY <2>1, <2>3, <2>4 DEF ConnSound, HoldIsConfirmed, WaveIsOwed
<1>6. ASSUME NEW p0 \in MPane, ScreenChanges(p0) PROVE ConnSound'
  <2>1. PICK s \in Screens : screen' = [screen EXCEPT ![p0] = s]
    BY <1>6 DEF ScreenChanges
  <2>2. UNCHANGED <<cache, streak, scanFrom, down, cleared, waveDue, looked, unconfirmed,
                    locks, owed>>
    BY <1>6 DEF ScreenChanges
  <2> QED BY <2>1, <2>2 DEF ConnSound, ConnTypeOK, HoldIsConfirmed, WaveIsOwed
<1> QED
  BY <1>1, <1>2, <1>3, <1>4, <1>5, <1>6, PollKeeps, LockKeeps, AcksKeep
  DEF ConnNext, ConnDaemon

LEMMA ConnStarts == ConnInit => ConnSound
<1> SUFFICES ASSUME ConnInit PROVE ConnSound
  OBVIOUS
<1>1. 0 \in 0..ConnectNeed /\ 0 \in 0..MaxLocks /\ 0 \in 0..(Len(Panes) - 1)
  BY ConnectivityAssumption
<1> QED BY <1>1 DEF ConnInit, ConnSound, ConnTypeOK, HoldIsConfirmed, WaveIsOwed, Screens, OpenCode

LEMMA ConnHolds == ConnSpec => []ConnSound
  BY ConnStarts, ConnStep, PTL DEF ConnSpec

(* The watch keeps its types: streaks stop at ConnectNeed, and the scan    *)
(* starts at a pane there is (pollConnectivityRecovery).                   *)
THEOREM ConnTypes == ConnSpec => []ConnTypeOK
<1>1. ConnSound => ConnTypeOK
  BY DEF ConnSound
<1> QED BY ConnHolds, <1>1, PTL

(* No mail is held as "connect" without a full streak of looks behind it.  *)
THEOREM HoldsAreConfirmed == ConnSpec => []HoldIsConfirmed
<1>1. ConnSound => HoldIsConfirmed
  BY DEF ConnSound
<1> QED BY ConnHolds, <1>1, PTL

(* An episode that ends queues its resume wave, and the wave never waits   *)
(* beside an open episode or a pane that is held for the error.            *)
THEOREM EndedEpisodesOweTheWave == ConnSpec => []WaveIsOwed
<1>1. ConnSound => WaveIsOwed
  BY DEF ConnSound
<1> QED BY ConnHolds, <1>1, PTL
-----------------------------------------------------------------------------
(* The services together.                                                  *)

(* A step of the services is a step of each of them, or leaves it alone.   *)
LEMMA ServiceSteps ==
    ASSUME [ServicesNext]_<<ServiceVars, part>>
    PROVE  /\ [AckNext]_ackvars /\ [ActNext]_actvars /\ [CallNext]_callVars
           /\ [TpNext]_tpvars /\ [StoreNext]_storeVars /\ [OcNext]_ocVars
           /\ [TargetNext]_targetVars /\ [ConnNext]_connVars
<1>1. CASE UNCHANGED <<ServiceVars, part>>
  BY <1>1 DEF ServiceVars
<1>2. CASE ServicesNext
  BY <1>2 DEF ServicesNext, AckAsks, AckPrompts, OcTimers, OcFiles, TargetScene, ProxyScene,
              AckFrozen, ActFrozen, CallFrozen, PoolFrozen, StoreFrozen, OcFrozen,
              TargetFrozen, ConnFrozen
<1> QED BY <1>1, <1>2

LEMMA ServiceStarts ==
    ServicesInit => /\ AckInit /\ ActInit /\ CallInit /\ TpInit /\ StoreInit /\ OcInit
                    /\ TargetInit /\ ConnInit
  BY DEF ServicesInit

(* What a run of the services shows of one is a behaviour of it.           *)
LEMMA ServicesBehave ==
    ServicesSpec => /\ AckSpec /\ ActSpec /\ CallSpec /\ TpSpec /\ StoreSpec /\ OcSpec
                    /\ []Sound /\ []ConnSound
<1>1. TargetInit => Sound
  BY TargetStarts
<1>2. Sound /\ [TargetNext]_targetVars => Sound'
  BY TargetStepKeeps
<1>3. [ServicesNext]_<<ServiceVars, part>>
        => /\ [AckNext]_ackvars /\ [ActNext]_actvars /\ [CallNext]_callVars
           /\ [TpNext]_tpvars /\ [StoreNext]_storeVars /\ [OcNext]_ocVars
           /\ [TargetNext]_targetVars /\ [ConnNext]_connVars
  BY ServiceSteps
<1>4. ConnSound /\ [ConnNext]_connVars => ConnSound'
  BY ConnStep
<1> QED
  BY <1>1, <1>2, <1>3, <1>4, ServiceStarts, ConnStarts, PTL
  DEF ServicesSpec, AckSpec, ActSpec, CallSpec, TpSpec, StoreSpec, OcSpec

(* The type invariants of all eight services, for every instance.          *)
THEOREM ServicesTypes == ServicesSpec => []ServicesTypeOK
<1>1. Sound /\ ConnSound => TargetTypeOK /\ ConnTypeOK
  BY DEF Sound, ConnSound
<1>2. AckTypeOK /\ ActTypeOK /\ CallTypeOK /\ TpTypeOK /\ StoreTypeOK /\ OcTypeOK
        /\ TargetTypeOK /\ ConnTypeOK => ServicesTypeOK
  BY DEF ServicesTypeOK
<1> QED
  BY ServicesBehave, AckTypes, ActTypes, CallTypes, PoolTypes, StoreTypes, OcTypes,
     <1>1, <1>2, PTL

(* What the services promise holds of them together too: asks are tracked  *)
(* once and mail is pasted once (AckLedger), links are one-shot and their  *)
(* answers on record (NotifyActs), calls have one ring and a room          *)
(* (RoomCalls), jobs run once and for good (TermPool), episodes are bounded *)
(* (OcLimit), deadlines shown once (Targets), and a pane is held and woken *)
(* for the proxy with cause (Connectivity).                                *)
THEOREM ServicesSafe ==
    ServicesSpec =>
        /\ [](OneOpenPerAsk /\ AskTracked /\ PastedOncePerDeath)
        /\ [](OneShot /\ LinksSurvive /\ AnswerOnRecord)
        /\ [](OnePendingCall /\ AcceptedHasRoom)
        /\ [](JobsOnce /\ EpisodeBounded /\ RemindedOncePerAsk)
        /\ [](HoldIsConfirmed /\ WaveIsOwed)
        /\ AckedIsFinal /\ ReplyIsLater /\ KeepsJobContract
<1>1. Sound => RemindedOncePerAsk
  BY DebtsPaid
<1>2. ConnSound => HoldIsConfirmed /\ WaveIsOwed
  BY DEF ConnSound
<1> QED
  BY ServicesBehave, OneOpenRowPerAsk, ShownAsksAreTracked, PastesArePaidFor, LinksAreOneShot,
     SavedLinksSurvive, AnswersAreOnRecord, NoSecondCall, AcceptedCallsHaveRooms, JobsRunOnce,
     PoolKeepsContract, EpisodesBounded, ClosedRowsStay, RepliesComeLater, <1>1, <1>2, PTL
=============================================================================
