--------------------------- MODULE PeerQueueProofs ---------------------------
(***************************************************************************)
(* Theorems about PeerQueue, for every set of messages, seats and panes.   *)
(***************************************************************************)
EXTENDS PeerQueue, RowOrderProofs

(* A batch is made of rows of its pane.                                     *)
LEMMA BatchOfRows ==
    ASSUME NEW p
    PROVE  Batch(p) \subseteq Rows(p) /\ Rows(p) \subseteq grouped
BY DEF Batch, FirstOf, Rows

(* What is promoted was parked.                                             *)
LEMMA PromotedWasParked == Promoted \subseteq Parked \ (Duplicates \cup Thin)
<1>1. ASSUME NEW p \in Pane PROVE Promotable(p) \subseteq StillParked(p)
  BY DEF Promotable
<1>2. ASSUME NEW p \in Pane
      PROVE  FirstOf(Promotable(p), BulkMax, earlier) \subseteq Parked \ (Duplicates \cup Thin)
  BY <1>1 DEF FirstOf, StillParked
<1> QED BY <1>2 DEF Promoted

LEMMA StatusType == \A c : StatusOf(c) \in {"idle", "BUSY", "typing"}
BY DEF StatusOf

-----------------------------------------------------------------------------
(* Type correctness.                                                        *)

LEMMA InitType == Init => TypeOK
<1> SUFFICES ASSUME Init PROVE TypeOK OBVIOUS
<1>1. composer \in [Pane -> AllComposers]
  BY DEF Init, AllComposers
<1> QED BY <1>1 DEF Init, TypeOK, RowStates, Steps

LEMMA NextType == TypeOK /\ [Next]_vars => TypeOK'
<1> SUFFICES ASSUME TypeOK, [Next]_vars PROVE TypeOK' OBVIOUS
<1> USE DEF TypeOK, files, timers, panes
<1>1. ASSUME NEW m \in Msg, Enqueue(m) PROVE TypeOK'
  <2>1. Cardinality(Arrived) \in Nat
    BY IdsAssumption, FS_Subset, FS_CardinalityType DEF Arrived
  <2>2. home[SeatOf[m]] \in Pane
    BY <1>1, RowAssumption DEF Enqueue
  <2> QED BY <1>1, <2>1, <2>2 DEF Enqueue, RowStates
<1>2. CASE BeginDrain
  BY <1>2 DEF BeginDrain, Steps
<1>3. CASE Reconcile
  BY <1>3 DEF Reconcile, Steps, Parked, Orphans
<1>4. CASE PromoteWritePeer
  BY <1>4 DEF PromoteWritePeer, Steps, RowStates, Parked
<1>5. CASE PromoteWriteBacklog
  BY <1>5 DEF PromoteWriteBacklog, Steps
<1>6. CASE RefreshAndGroup
  <2>1. \A m \in Reached : home[SeatOf[m]] \in Pane /\ m \in Msg
    BY RowAssumption DEF Reached, Live
  <2> QED BY <1>6, <2>1 DEF RefreshAndGroup, Steps, RowStates
<1>7. CASE FinishPanes
  BY <1>7 DEF FinishPanes, Steps
<1>8. CASE Paint
  BY <1>8, StatusType DEF Paint, Steps
<1>9. ASSUME NEW p \in Pane,
             PaneOnHold(p) \/ PaneGated(p) \/ PastePane(p) \/ DropOnCaptureRace(p) \/ HoldPane(p)
      PROVE  TypeOK'
  <2>1. Batch(p) \subseteq Msg
    BY BatchOfRows
  <2>2. CASE PaneOnHold(p)
    BY <2>2 DEF PaneOnHold, Visit
  <2>3. CASE PaneGated(p)
    BY <2>3 DEF PaneGated, Visit, RowStates
  <2>4. CASE PastePane(p)
    BY <2>1, <2>4 DEF PastePane, Visit, Steps
  <2>5. CASE DropOnCaptureRace(p)
    BY <2>5 DEF DropOnCaptureRace, Visit, RowStates
  <2>6. CASE HoldPane(p)
    BY <2>1, <2>6 DEF HoldPane, Visit, Steps
  <2> QED BY <1>9, <2>2, <2>3, <2>4, <2>5, <2>6
<1>10. ASSUME NEW m \in Msg,
              MarkDelivered(m) \/ SkipThinRow(m) \/ ParkWritePeer(m) \/ ParkWriteBacklog(m)
       PROVE  TypeOK'
  <2>1. CASE MarkDelivered(m)
    BY <2>1, StatusType DEF MarkDelivered, Written, Steps, RowStates
  <2>2. CASE SkipThinRow(m)
    BY <2>2 DEF SkipThinRow, Written, Steps, RowStates
  <2>3. CASE ParkWritePeer(m)
    BY <2>3 DEF ParkWritePeer, Steps, RowStates
  <2>4. CASE ParkWriteBacklog(m)
    BY <2>4 DEF ParkWriteBacklog, Written, Steps, Parked
  <2> QED BY <1>10, <2>1, <2>2, <2>3, <2>4
<1>11. CASE Crash \/ StepThrows
  BY <1>11 DEF Crash, StepThrows, Abandon, Steps
<1>12. ASSUME NEW p \in Pane, \/ ComposerMoves(p) \/ LimitMoves(p)
                               \/ HoldExpires(p) \/ CoolingEnds(p) \/ OtherGate(p)
       PROVE  TypeOK'
  BY <1>12, ComposersAssumption DEF ComposerMoves, LimitMoves, HoldExpires, CoolingEnds, OtherGate,
                                     AllComposers
<1>13. ASSUME NEW s \in Seat, PaneLost(s) PROVE TypeOK'
  BY <1>13 DEF PaneLost, AllComposers
<1>14. ASSUME NEW s \in Seat, NEW p \in Pane, PaneOpened(s, p) PROVE TypeOK'
  BY <1>14, ComposersAssumption DEF PaneOpened, AllComposers
<1>15. CASE UNCHANGED vars
  BY <1>15 DEF vars
<1> QED
  BY <1>1, <1>2, <1>3, <1>4, <1>5, <1>6, <1>7, <1>8, <1>9, <1>10, <1>11, <1>12, <1>13, <1>14,
     <1>15 DEF Next, Daemon, Environment

(* Every state of the queue is well formed.                                 *)
THEOREM TypeCorrect == Spec => []TypeOK
BY InitType, NextType, PTL DEF Spec

-----------------------------------------------------------------------------
(* The shape of the tick.                                                   *)

(* The panes, the holds and the banners move without the queue.             *)
LEMMA PanesMoveAlone ==
    ASSUME \/ \E p \in Pane : \/ ComposerMoves(p) \/ LimitMoves(p)
                            \/ HoldExpires(p) \/ CoolingEnds(p) \/ OtherGate(p)
           \/ \E s \in Seat : PaneLost(s) \/ \E p \in Pane : PaneOpened(s, p)
           \/ UNCHANGED vars
    PROVE  UNCHANGED <<files, pc, kept, grouped, batch, pasted, faults>>
BY DEF ComposerMoves, LimitMoves, HoldExpires, CoolingEnds, OtherGate, PaneLost, PaneOpened, vars,
       files, panes

LEMMA InitShape == Init => Shape
BY DEF Init, Shape, Parked, Live

LEMMA NextShape == TypeOK /\ Shape /\ [Next]_vars => Shape'
<1> SUFFICES ASSUME TypeOK, Shape, [Next]_vars PROVE Shape' OBVIOUS
<1> USE DEF Shape, files, Parked, Live
<1>1. ASSUME NEW m \in Msg, Enqueue(m) PROVE Shape'
  BY <1>1 DEF Enqueue, TypeOK
<1>2. CASE BeginDrain
  BY <1>2 DEF BeginDrain
<1>3. CASE Reconcile
  BY <1>3 DEF Reconcile, Orphans, TypeOK
<1>4. CASE PromoteWritePeer
  <2>1. \A m \in Msg : st'[m] = "absent" => st[m] = "absent"
    BY <1>4 DEF PromoteWritePeer
  <2>2. \A m \in Msg : st'[m] # "absent" => target'[m] # NoPane
    BY <1>4, PromotedWasParked DEF PromoteWritePeer, Duplicates
  <2> QED BY <1>4, <2>1, <2>2 DEF PromoteWritePeer
<1>5. CASE PromoteWriteBacklog
  BY <1>5 DEF PromoteWriteBacklog, TypeOK
<1>6. CASE RefreshAndGroup
  <2>1. \A m \in Msg : st'[m] # "absent" => st[m] # "absent" /\ target'[m] # NoPane
    BY <1>6 DEF RefreshAndGroup, Reached
  <2>2. grouped' \subseteq {m \in Msg : st'[m] = "live"}
    BY <1>6 DEF RefreshAndGroup, Reached
  <2>3. \A m \in Msg : st'[m] = "absent" => st[m] = "absent"
    BY <1>6 DEF RefreshAndGroup
  <2>4. pc' = "panes" /\ batch' = batch /\ batch = {} /\ kept' = kept /\ backlog' = backlog /\ pasted' = pasted
    BY <1>6 DEF RefreshAndGroup
  <2> QED BY <2>1, <2>2, <2>3, <2>4
<1>7. CASE FinishPanes
  BY <1>7 DEF FinishPanes
<1>8. CASE Paint
  BY <1>8 DEF Paint
<1>9. ASSUME NEW p \in Pane,
             PaneOnHold(p) \/ PaneGated(p) \/ PastePane(p) \/ DropOnCaptureRace(p) \/ HoldPane(p)
      PROVE  Shape'
  <2>1. Batch(p) \subseteq Rows(p) /\ Rows(p) \subseteq grouped
    BY BatchOfRows
  <2>2. CASE PaneOnHold(p)
    BY <2>2 DEF PaneOnHold, Visit
  <2>3. CASE PaneGated(p)
    BY <2>1, <2>3 DEF PaneGated, Visit, TypeOK
  <2>4. CASE PastePane(p)
    BY <2>1, <2>4 DEF PastePane, Visit, TypeOK
  <2>5. CASE DropOnCaptureRace(p)
    BY <2>1, <2>5 DEF DropOnCaptureRace, Visit, TypeOK
  <2>6. CASE HoldPane(p)
    BY <2>1, <2>6 DEF HoldPane, Visit, TypeOK
  <2> QED BY <1>9, <2>2, <2>3, <2>4, <2>5, <2>6
<1>10. ASSUME NEW m \in Msg,
              MarkDelivered(m) \/ SkipThinRow(m) \/ ParkWritePeer(m) \/ ParkWriteBacklog(m)
       PROVE  Shape'
  <2>1. CASE MarkDelivered(m)
    BY <2>1 DEF MarkDelivered, NextOfBatch, Written, TypeOK
  <2>2. CASE SkipThinRow(m)
    BY <2>2 DEF SkipThinRow, NextOfBatch, Written, TypeOK
  <2>3. CASE ParkWritePeer(m)
    BY <2>3 DEF ParkWritePeer, NextOfBatch, TypeOK
  <2>4. CASE ParkWriteBacklog(m)
    BY <2>4 DEF ParkWriteBacklog, Written, TypeOK
  <2> QED BY <1>10, <2>1, <2>2, <2>3, <2>4
<1>11. CASE Crash \/ StepThrows
  BY <1>11 DEF Crash, StepThrows, Abandon
<1>12. CASE UNCHANGED <<files, pc, kept, grouped, batch, pasted, faults>>
  BY <1>12
<1> QED
  BY <1>1, <1>2, <1>3, <1>4, <1>5, <1>6, <1>7, <1>8, <1>9, <1>10, <1>11, <1>12, PanesMoveAlone
  DEF Next, Daemon, Environment

-----------------------------------------------------------------------------
(* At most one paste per message and failure.                               *)

(* What a message weighs: its pastes and those still ahead of it.           *)
Weight(m) == pasted[m] + LiveDebt(m) + FileDebt(m)

LEMMA WeightType ==
    ASSUME TypeOK, NEW m \in Msg
    PROVE  Weight(m) \in Nat /\ LiveDebt(m) \in {0, 1} /\ FileDebt(m) \in {0, 1}
BY DEF TypeOK, Weight, LiveDebt, FileDebt

LEMMA InitDebt == Init => Debt
BY DEF Init, Debt, LiveDebt, FileDebt, InFile, Parked, Unstamped

LEMMA NextDebt == TypeOK /\ Shape /\ Debt /\ [Next]_vars => Debt'
<1> SUFFICES ASSUME TypeOK, Shape, Debt, [Next]_vars, NEW n \in Msg
             PROVE  Weight(n)' <= 1 + faults'
  BY DEF Debt, Weight
<1> USE DEF files
<1>a. Weight(n) <= 1 + faults /\ faults \in Nat
  BY DEF Debt, Weight, TypeOK
<1>b. TypeOK'
  BY NextType
<1>c. ASSUME Weight(n)' <= Weight(n), faults' = faults PROVE Weight(n)' <= 1 + faults'
  BY <1>a, <1>b, <1>c, WeightType DEF TypeOK, Weight, LiveDebt, FileDebt
<1>1. ASSUME NEW m \in Msg, Enqueue(m) PROVE Weight(n)' <= 1 + faults'
  <2>1. CASE n = m
    BY <1>1, <2>1, <1>a DEF Enqueue, Weight, LiveDebt, FileDebt, InFile, Parked, Unstamped, Shape, TypeOK
  <2>2. CASE n # m
    BY <1>1, <2>2, <1>a DEF Enqueue, Weight, LiveDebt, FileDebt, InFile, Parked, Unstamped, Shape, TypeOK
  <2> QED BY <2>1, <2>2
<1>2. CASE BeginDrain \/ FinishPanes \/ Paint
  BY <1>2, <1>a DEF BeginDrain, FinishPanes, Paint, Weight, LiveDebt, FileDebt, InFile, Parked, Unstamped
<1>3. CASE Reconcile
  BY <1>3, <1>a DEF Reconcile, Orphans, Weight, LiveDebt, FileDebt, InFile, Parked, Unstamped, TypeOK
<1>4. CASE PromoteWritePeer
  <2>1. CASE n \in Duplicates \/ n \in Parked \cap Thin
    BY <1>4, <2>1, <1>a DEF PromoteWritePeer, Weight, LiveDebt, FileDebt, InFile, Unstamped, TypeOK, Duplicates
  <2>2. CASE n \in Promoted
    BY <1>4, <2>2, <1>a, PromotedWasParked
    DEF PromoteWritePeer, Weight, LiveDebt, FileDebt, InFile, Unstamped, TypeOK
  <2>3. CASE ~(n \in Duplicates \/ n \in Parked \cap Thin \/ n \in Promoted)
    BY <1>4, <2>3, <1>a DEF PromoteWritePeer, Weight, LiveDebt, FileDebt, InFile, Unstamped, TypeOK
  <2> QED BY <2>1, <2>2, <2>3
<1>5. CASE PromoteWriteBacklog
  BY <1>5, <1>a DEF PromoteWriteBacklog, Weight, LiveDebt, FileDebt, InFile, Parked, Unstamped, Shape, TypeOK
<1>6. CASE RefreshAndGroup
  BY <1>6, <1>a DEF RefreshAndGroup, Reached, Live, Weight, LiveDebt, FileDebt, InFile, Parked, Unstamped, TypeOK
<1>7. ASSUME NEW p \in Pane,
             PaneOnHold(p) \/ PaneGated(p) \/ PastePane(p) \/ DropOnCaptureRace(p) \/ HoldPane(p)
      PROVE  Weight(n)' <= 1 + faults'
  <2>1. Batch(p) \subseteq grouped /\ grouped \subseteq Live
    BY BatchOfRows DEF Shape
  <2>2. CASE PaneOnHold(p)
    BY <2>2, <1>a DEF PaneOnHold, Visit, Weight, LiveDebt, FileDebt, InFile, Parked, Unstamped
  <2>3. CASE PaneGated(p)
    BY <2>1, <2>3, <1>a
    DEF PaneGated, Visit, Live, Weight, LiveDebt, FileDebt, InFile, Parked, Unstamped, TypeOK
  <2>4. CASE PastePane(p)
    <3>1. CASE n \in Batch(p)
      BY <2>1, <2>4, <3>1, <1>a
      DEF PastePane, Visit, Live, Weight, LiveDebt, FileDebt, InFile, Parked, Unstamped, TypeOK
    <3>2. CASE n \notin Batch(p)
      BY <2>4, <3>2, <1>a
      DEF PastePane, Visit, Weight, LiveDebt, FileDebt, InFile, Parked, Unstamped, TypeOK
    <3> QED BY <3>1, <3>2
  <2>5. CASE DropOnCaptureRace(p)
    BY <2>1, <2>5, <1>a
    DEF DropOnCaptureRace, Visit, Live, Weight, LiveDebt, FileDebt, InFile, Parked, Unstamped, TypeOK
  <2>6. CASE HoldPane(p)
    BY <2>6, <1>a DEF HoldPane, Visit, Weight, LiveDebt, FileDebt, InFile, Parked, Unstamped
  <2> QED BY <1>7, <2>2, <2>3, <2>4, <2>5, <2>6
<1>8. ASSUME NEW m \in Msg,
             MarkDelivered(m) \/ SkipThinRow(m) \/ ParkWritePeer(m) \/ ParkWriteBacklog(m)
      PROVE  Weight(n)' <= 1 + faults'
  <2>1. CASE MarkDelivered(m)
    BY <2>1, <1>a DEF MarkDelivered, NextOfBatch, Written, Weight, LiveDebt, FileDebt, InFile, Parked,
                      Unstamped, TypeOK
  <2>2. CASE SkipThinRow(m)
    BY <2>2, <1>a DEF SkipThinRow, NextOfBatch, Written, Weight, LiveDebt, FileDebt, InFile, Parked,
                      Unstamped, TypeOK
  <2>3. CASE ParkWritePeer(m)
    BY <2>3, <1>a DEF ParkWritePeer, NextOfBatch, Live, Shape, Weight, LiveDebt, FileDebt, InFile, Parked,
                      Unstamped, TypeOK
  <2>4. CASE ParkWriteBacklog(m)
    BY <2>4, <1>a DEF ParkWriteBacklog, Written, Weight, LiveDebt, FileDebt, InFile, Parked,
                      Unstamped, TypeOK
  <2> QED BY <1>8, <2>1, <2>2, <2>3, <2>4
<1>9. CASE Crash \/ StepThrows
  <2>1. faults' = faults + 1 /\ pc' \in {"idle", "paint"}
    BY <1>9 DEF Crash, StepThrows, Abandon
  <2>2. Weight(n)' <= Weight(n) + 1
    (* The rows of an unstamped batch are live again, those promoted are    *)
    (* back in the file; no row is both.                                    *)
    BY <1>9, <2>1 DEF Crash, StepThrows, Abandon, Weight, LiveDebt, FileDebt, InFile, Parked,
                      Unstamped, TypeOK
  <2> QED BY <2>1, <2>2, <1>a, <1>b, WeightType DEF TypeOK, Weight, LiveDebt, FileDebt
<1>10. CASE UNCHANGED <<files, pc, kept, grouped, batch, pasted, faults>>
  BY <1>10, <1>a DEF Weight, LiveDebt, FileDebt, InFile, Parked, Unstamped
<1> QED
  BY <1>1, <1>2, <1>3, <1>4, <1>5, <1>6, <1>7, <1>8, <1>9, <1>10, PanesMoveAlone
  DEF Next, Daemon, Environment

(* A message is pasted at most once more than the daemon has failed, for    *)
(* any messages, seats, panes and number of failures.                       *)
THEOREM AtMostOncePaste == Spec => []AtMostOncePerFault
<1>1. Init => TypeOK /\ Shape /\ Debt
  BY InitType, InitShape, InitDebt
<1>2. TypeOK /\ Shape /\ Debt /\ [Next]_vars => (TypeOK /\ Shape /\ Debt)'
  BY NextType, NextShape, NextDebt
<1>3. TypeOK /\ Debt => AtMostOncePerFault
  BY DEF TypeOK, Debt, LiveDebt, FileDebt, AtMostOncePerFault
<1> QED BY <1>1, <1>2, <1>3, PTL DEF Spec

-----------------------------------------------------------------------------
(* The two files agree.                                                     *)

LEMMA InitFiles == Init => FilesAgree
BY DEF Init, FilesAgree, InFile, Parked

LEMMA NextFiles == TypeOK /\ Shape /\ FilesAgree /\ [Next]_vars => FilesAgree'
<1> SUFFICES ASSUME TypeOK, Shape, FilesAgree, [Next]_vars PROVE FilesAgree' OBVIOUS
<1> USE DEF files
<1>1. ASSUME NEW m \in Msg, Enqueue(m) PROVE FilesAgree'
  BY <1>1 DEF Enqueue, FilesAgree, InFile, Parked, Shape, TypeOK
<1>2. CASE BeginDrain \/ FinishPanes \/ Paint
  BY <1>2 DEF BeginDrain, FinishPanes, Paint, FilesAgree, InFile, Parked, Shape
<1>3. CASE Reconcile
  BY <1>3 DEF Reconcile, Orphans, FilesAgree, InFile, Parked, Shape, TypeOK
<1>4. CASE PromoteWritePeer
  <2>1. Promoted \subseteq Parked \ (Duplicates \cup Thin)
    BY PromotedWasParked
  <2> QED BY <1>4, <2>1 DEF PromoteWritePeer, FilesAgree, InFile, Parked, TypeOK
<1>5. CASE PromoteWriteBacklog
  BY <1>5 DEF PromoteWriteBacklog, FilesAgree, InFile, Parked, Shape, TypeOK
<1>6. CASE RefreshAndGroup
  BY <1>6 DEF RefreshAndGroup, Reached, Live, FilesAgree, InFile, Parked, TypeOK
<1>7. ASSUME NEW p \in Pane,
             PaneOnHold(p) \/ PaneGated(p) \/ PastePane(p) \/ DropOnCaptureRace(p) \/ HoldPane(p)
      PROVE  FilesAgree'
  <2>1. Batch(p) \subseteq Live
    BY BatchOfRows DEF Shape
  <2>2. CASE PaneOnHold(p) \/ PastePane(p) \/ HoldPane(p)
    BY <2>2 DEF PaneOnHold, PastePane, HoldPane, Visit, FilesAgree, InFile, Parked
  <2>3. CASE PaneGated(p) \/ DropOnCaptureRace(p)
    BY <2>1, <2>3 DEF PaneGated, DropOnCaptureRace, Visit, Live, FilesAgree, InFile, Parked, TypeOK
  <2> QED BY <1>7, <2>2, <2>3
<1>8. ASSUME NEW m \in Msg,
             MarkDelivered(m) \/ SkipThinRow(m) \/ ParkWritePeer(m) \/ ParkWriteBacklog(m)
      PROVE  FilesAgree'
  <2>1. CASE MarkDelivered(m)
    BY <2>1 DEF MarkDelivered, NextOfBatch, Written, Shape, Live, FilesAgree, InFile, Parked, TypeOK
  <2>2. CASE SkipThinRow(m)
    BY <2>2 DEF SkipThinRow, NextOfBatch, Written, Shape, Live, FilesAgree, InFile, Parked, TypeOK
  <2>3. CASE ParkWritePeer(m)
    BY <2>3 DEF ParkWritePeer, NextOfBatch, FilesAgree, InFile, Parked, TypeOK
  <2>4. CASE ParkWriteBacklog(m)
    <3>1. \A k \in batch \ {m} : st[k] = "live"
      BY <2>4 DEF ParkWriteBacklog, Shape, Live
    <3>2. target[m] # NoPane /\ st[m] = "backlog"
      BY <2>4 DEF ParkWriteBacklog, Shape
    <3> QED BY <2>4, <3>1, <3>2 DEF ParkWriteBacklog, Written, FilesAgree, InFile, Parked, TypeOK
  <2> QED BY <1>8, <2>1, <2>2, <2>3, <2>4
<1>9. CASE Crash \/ StepThrows
  BY <1>9 DEF Crash, StepThrows, Abandon, FilesAgree, InFile, Parked, TypeOK
<1>10. CASE UNCHANGED <<files, pc, kept, grouped, batch, pasted, faults>>
  BY <1>10 DEF FilesAgree, InFile, Parked
<1> QED
  BY <1>1, <1>2, <1>3, <1>4, <1>5, <1>6, <1>7, <1>8, <1>9, <1>10, PanesMoveAlone
  DEF Next, Daemon, Environment

(* Whatever the daemon is interrupted in, no parked row is lost from the    *)
(* backlog file beyond its next reconcile, and without failures the file    *)
(* holds parked rows only.                                                  *)
THEOREM FilesStayInAgreement == Spec => []FilesAgree
<1>1. Init => TypeOK /\ Shape /\ FilesAgree
  BY InitType, InitShape, InitFiles
<1>2. TypeOK /\ Shape /\ FilesAgree /\ [Next]_vars => (TypeOK /\ Shape /\ FilesAgree)'
  BY NextType, NextShape, NextFiles
<1> QED BY <1>1, <1>2, PTL DEF Spec

-----------------------------------------------------------------------------
(* Settled rows stay settled.                                               *)

LEMMA NextSettled ==
    TypeOK /\ Shape /\ FilesAgree /\ [Next]_vars /\ faults = 0 =>
        \A m \in Terminal : st'[m] = st[m]
<1> SUFFICES ASSUME TypeOK, Shape, FilesAgree, [Next]_vars, faults = 0, NEW n \in Terminal
             PROVE  st'[n] = st[n]
  OBVIOUS
<1> USE DEF files
<1>0. n \in Msg /\ st[n] \in {"skipped", "delivered"}
  BY DEF Terminal
<1>1. ASSUME NEW m \in Msg, Enqueue(m) PROVE st'[n] = st[n]
  BY <1>0, <1>1 DEF Enqueue, TypeOK
<1>2. CASE PromoteWritePeer
  <2>1. n \notin Parked
    BY <1>0, <1>2 DEF PromoteWritePeer, FilesAgree, InFile
  <2> QED BY <1>0, <1>2, <2>1, PromotedWasParked DEF PromoteWritePeer, Duplicates
<1>3. CASE RefreshAndGroup
  BY <1>0, <1>3 DEF RefreshAndGroup, Reached, Live
<1>4. ASSUME NEW p \in Pane, PaneGated(p) \/ DropOnCaptureRace(p) PROVE st'[n] = st[n]
  <2>1. Batch(p) \subseteq Live
    BY BatchOfRows DEF Shape
  <2> QED BY <1>0, <1>4, <2>1 DEF PaneGated, DropOnCaptureRace, Live
<1>5. ASSUME NEW m \in Msg, MarkDelivered(m) \/ SkipThinRow(m) \/ ParkWritePeer(m)
      PROVE  st'[n] = st[n]
  <2>1. m \in Live
    BY <1>5 DEF MarkDelivered, SkipThinRow, ParkWritePeer, NextOfBatch, Shape
  <2> QED BY <1>0, <1>5, <2>1 DEF MarkDelivered, SkipThinRow, ParkWritePeer, Live, TypeOK
<1>6. CASE st' = st
  BY <1>6
<1>7. ASSUME NEW p \in Pane, PaneOnHold(p) \/ PastePane(p) \/ HoldPane(p) PROVE st' = st
  BY <1>7 DEF PaneOnHold, PastePane, HoldPane
<1>8. ASSUME \/ BeginDrain \/ Reconcile \/ PromoteWriteBacklog \/ FinishPanes \/ Paint
             \/ Crash \/ StepThrows
      PROVE  st' = st
  BY <1>8 DEF BeginDrain, Reconcile, PromoteWriteBacklog, FinishPanes, Paint, Crash, StepThrows, Abandon
<1>9. ASSUME NEW m \in Msg, ParkWriteBacklog(m) PROVE st' = st
  BY <1>9 DEF ParkWriteBacklog
<1> QED
  BY <1>1, <1>2, <1>3, <1>4, <1>5, <1>6, <1>7, <1>8, <1>9, PanesMoveAlone DEF Next, Daemon, Environment

(* Until the daemon first fails, delivered and skipped are final.           *)
THEOREM SettledStaysSettled == Spec => SettledIsFinal
<1>1. Init => TypeOK /\ Shape /\ FilesAgree
  BY InitType, InitShape, InitFiles
<1>2. TypeOK /\ Shape /\ FilesAgree /\ [Next]_vars => (TypeOK /\ Shape /\ FilesAgree)'
  BY NextType, NextShape, NextFiles
<1>3. TypeOK /\ Shape /\ FilesAgree /\ [Next]_vars
        => [faults = 0 => \A m \in Terminal : st'[m] = st[m]]_vars
  BY NextSettled
<1> QED BY <1>1, <1>2, <1>3, PTL DEF Spec, SettledIsFinal

-----------------------------------------------------------------------------
(* Delivered means shown.                                                   *)

(* Neither history runs backwards.                                          *)
LEMMA HistoryGrows ==
    TypeOK /\ [Next]_vars => faults' >= faults /\ \A n \in Msg : pasted'[n] >= pasted[n]
<1> SUFFICES ASSUME TypeOK, [Next]_vars
             PROVE  faults' >= faults /\ \A n \in Msg : pasted'[n] >= pasted[n]
  OBVIOUS
<1> USE DEF TypeOK
<1>1. CASE UNCHANGED <<pasted, faults>>
  BY <1>1
<1>2. ASSUME \/ BeginDrain \/ Reconcile \/ PromoteWritePeer \/ PromoteWriteBacklog
             \/ RefreshAndGroup \/ FinishPanes \/ Paint
      PROVE  UNCHANGED <<pasted, faults>>
  BY <1>2 DEF BeginDrain, Reconcile, PromoteWritePeer, PromoteWriteBacklog, RefreshAndGroup, FinishPanes, Paint
<1>3. ASSUME NEW p \in Pane, PaneOnHold(p) \/ PaneGated(p) \/ DropOnCaptureRace(p) \/ HoldPane(p)
      PROVE  UNCHANGED <<pasted, faults>>
  BY <1>3 DEF PaneOnHold, PaneGated, DropOnCaptureRace, HoldPane
<1>4. ASSUME NEW m \in Msg, \/ Enqueue(m) \/ MarkDelivered(m) \/ SkipThinRow(m)
                            \/ ParkWritePeer(m) \/ ParkWriteBacklog(m)
      PROVE  UNCHANGED <<pasted, faults>>
  BY <1>4 DEF Enqueue, MarkDelivered, SkipThinRow, ParkWritePeer, ParkWriteBacklog
<1>5. ASSUME NEW p \in Pane, PastePane(p)
      PROVE  faults' >= faults /\ \A n \in Msg : pasted'[n] >= pasted[n]
  BY <1>5 DEF PastePane
<1>6. CASE Crash \/ StepThrows
  BY <1>6 DEF Crash, StepThrows, Abandon
<1> QED
  BY <1>1, <1>2, <1>3, <1>4, <1>5, <1>6, PanesMoveAlone DEF Next, Daemon, Environment

LEMMA NextShown ==
    TypeOK /\ Shape /\ FilesAgree /\ DeliveredWasPasted /\ [Next]_vars => DeliveredWasPasted'
<1> SUFFICES ASSUME TypeOK, Shape, FilesAgree, DeliveredWasPasted, [Next]_vars, faults' = 0,
                    NEW n \in Msg, st'[n] = "delivered"
             PROVE  \/ pasted'[n] >= 1
                    \/ Token[n] # NoToken /\ \E k \in Terminal' \ {n} : Token[k] = Token[n]
  BY DEF DeliveredWasPasted
<1>1. faults = 0
  BY HistoryGrows DEF TypeOK
<1>2. Terminal \subseteq Terminal'
  BY <1>1, NextSettled DEF Terminal
<1>3. pasted[n] >= 1 => pasted'[n] >= 1
  BY HistoryGrows, NextType DEF TypeOK
<1>4. CASE st[n] = "delivered"
  <2>1. \/ pasted[n] >= 1
        \/ Token[n] # NoToken /\ \E k \in Terminal \ {n} : Token[k] = Token[n]
    BY <1>1, <1>4 DEF DeliveredWasPasted
  <2> QED BY <1>2, <1>3, <2>1
<1>5. CASE st[n] # "delivered" /\ PromoteWritePeer
  <2>1. n \in Duplicates
    BY <1>5 DEF PromoteWritePeer
  <2>2. st[n] = "backlog"
    BY <1>1, <1>5, <2>1 DEF PromoteWritePeer, Duplicates, FilesAgree, InFile
  <2>3. PICK k \in Terminal : Token[k] = Token[n] /\ Token[n] # NoToken
    BY <2>1 DEF Duplicates
  <2>4. k # n
    BY <2>2, <2>3 DEF Terminal
  <2> QED BY <1>2, <2>3, <2>4
<1>6. ASSUME NEW m \in Msg, MarkDelivered(m), st[n] # "delivered" PROVE pasted'[n] >= 1
  <2>1. n = m
    BY <1>6 DEF MarkDelivered, TypeOK
  <2> QED BY <1>6, <2>1 DEF MarkDelivered, NextOfBatch, Shape
<1>7. CASE st[n] # "delivered" /\ ~PromoteWritePeer /\ \A m \in Msg : ~MarkDelivered(m)
  <2>1. st'[n] # "delivered"
    BY <1>7, PanesMoveAlone
    DEF Next, Daemon, Environment, Enqueue, BeginDrain, Reconcile, PromoteWriteBacklog, RefreshAndGroup,
        FinishPanes, Paint, PaneOnHold, PaneGated, PastePane, DropOnCaptureRace, HoldPane, SkipThinRow,
        ParkWritePeer, ParkWriteBacklog, Crash, StepThrows, Abandon, TypeOK, files
  <2> QED BY <2>1
<1> QED BY <1>4, <1>5, <1>6, <1>7

(* Until the daemon first fails, no message counts as delivered unless its  *)
(* text, or a message with its footer that is settled, was dealt with.      *)
THEOREM DeliveredIsShown == Spec => []DeliveredWasPasted
<1>1. Init => TypeOK /\ Shape /\ FilesAgree /\ DeliveredWasPasted
  BY InitType, InitShape, InitFiles DEF Init, DeliveredWasPasted
<1>2. TypeOK /\ Shape /\ FilesAgree /\ DeliveredWasPasted /\ [Next]_vars
        => (TypeOK /\ Shape /\ FilesAgree /\ DeliveredWasPasted)'
  BY NextType, NextShape, NextFiles, NextShown
<1> QED BY <1>1, <1>2, PTL DEF Spec

-----------------------------------------------------------------------------
(* The queue implements the contract.                                       *)

LEMMA StepSettles ==
    ASSUME TypeOK, TypeOK', UNCHANGED <<pasted, faults>>,
           \A m \in Msg : Box'[m] = Box[m] \/ Contract!Moves(m)
    PROVE  Contract!Settle
<1>1. Box' \in [Msg -> {"none", "queued", "delivered", "dropped"}]
  <2>1. \A m \in Msg : Box'[m] \in {"none", "queued", "delivered", "dropped"}
    BY DEF TypeOK, RowStates, Box
  <2> QED BY <2>1 DEF Box
<1> QED BY <1>1 DEF Contract!Settle

LEMMA SameBox ==
    ASSUME UNCHANGED <<st, pasted, faults>>
    PROVE  UNCHANGED <<Box, pasted, faults>>
BY DEF Box

LEMMA NextContract ==
    TypeOK /\ Shape /\ Debt /\ FilesAgree /\ [Next]_vars => [Contract!Next]_(Contract!vars)
<1> SUFFICES ASSUME TypeOK, Shape, Debt, FilesAgree, [Next]_vars
             PROVE  Contract!Next \/ UNCHANGED <<Box, pasted, faults>>
  BY DEF Contract!vars
<1> USE DEF files
<1>a. TypeOK'
  BY NextType
<1>b. ASSUME UNCHANGED <<pasted, faults>>, \A m \in Msg : Box'[m] = Box[m] \/ Contract!Moves(m)
      PROVE  Contract!Next
  BY <1>a, <1>b, StepSettles DEF Contract!Next
<1>c. ASSUME NEW m \in Msg, st'[m] = st[m] PROVE Box'[m] = Box[m]
  BY <1>c DEF Box
<1>d. ASSUME NEW m \in Msg, st[m] = "live", st'[m] = "skipped" PROVE Contract!Moves(m)
  BY <1>a, <1>d DEF Contract!Moves, Box
<1>1. ASSUME NEW m \in Msg, Enqueue(m) PROVE Contract!Next
  <2>1. Box[m] = "none"
    BY <1>1 DEF Enqueue, Box
  <2>2. Box' = [Box EXCEPT ![m] = "queued"]
    BY <1>1 DEF Enqueue, Box, TypeOK
  <2>3. UNCHANGED <<pasted, faults>>
    BY <1>1 DEF Enqueue
  <2> QED BY <2>1, <2>2, <2>3 DEF Contract!Accept, Contract!Next
<1>2. CASE PromoteWritePeer
  <2>1. UNCHANGED <<pasted, faults>>
    BY <1>2 DEF PromoteWritePeer
  <2>2. ASSUME NEW m \in Msg PROVE Box'[m] = Box[m] \/ Contract!Moves(m)
    <3>1. CASE m \notin Parked
      BY <1>2, <1>c, <3>1, PromotedWasParked DEF PromoteWritePeer, Duplicates
    <3>2. CASE m \in Parked /\ st[m] \in {"live", "backlog"}
      <4>1. CASE m \in Duplicates
        <5>1. PICK k \in Terminal : Token[k] = Token[m] /\ Token[m] # NoToken
          BY <4>1 DEF Duplicates
        <5>2. k \in Contract!Twins(m) \ {m} /\ Box[k] \in {"delivered", "dropped"}
          BY <3>2, <5>1 DEF Terminal, Contract!Twins, Box
        <5>3. Box[m] = "queued" /\ Box'[m] = "delivered"
          BY <1>2, <3>2, <4>1 DEF PromoteWritePeer, Box
        <5> QED BY <5>2, <5>3 DEF Contract!Moves, Contract!Shown
      <4>2. CASE m \notin Duplicates /\ m \in Thin
        BY <1>2, <3>2, <4>2 DEF PromoteWritePeer, Box, Contract!Moves
      <4>3. CASE m \notin Duplicates /\ m \notin Thin
        BY <1>2, <3>2, <4>3 DEF PromoteWritePeer, Box
      <4> QED BY <4>1, <4>2, <4>3
    <3>3. CASE m \in Parked /\ st[m] \notin {"live", "backlog"}
      <4>1. faults > 0
        BY <1>2, <3>3 DEF PromoteWritePeer, FilesAgree, InFile, TypeOK
      <4>2. st[m] \in {"delivered", "skipped"}
        BY <3>3 DEF Shape, Parked, TypeOK, RowStates
      <4>3. Box[m] \in {"delivered", "dropped"}
        BY <4>2 DEF Box
      <4>4. Box'[m] \in {"queued", "delivered", "dropped"}
        BY <1>2, <4>2 DEF PromoteWritePeer, Box
      <4> QED BY <4>1, <4>3, <4>4 DEF Contract!Moves
    <3> QED BY <3>1, <3>2, <3>3
  <2> QED BY <1>b, <2>1, <2>2
<1>3. CASE RefreshAndGroup
  <2>1. UNCHANGED <<pasted, faults>>
    BY <1>3 DEF RefreshAndGroup
  <2>2. ASSUME NEW m \in Msg PROVE st'[m] = st[m] \/ (st[m] = "live" /\ st'[m] = "skipped")
    BY <1>3 DEF RefreshAndGroup, Reached, Live
  <2> QED BY <1>b, <1>c, <1>d, <2>1, <2>2
<1>4. ASSUME NEW p \in Pane, PaneGated(p) \/ DropOnCaptureRace(p) PROVE Contract!Next
  <2>1. UNCHANGED <<pasted, faults>>
    BY <1>4 DEF PaneGated, DropOnCaptureRace
  <2>2. ASSUME NEW m \in Msg PROVE st'[m] = st[m] \/ (st[m] = "live" /\ st'[m] = "skipped")
    <3>1. Batch(p) \subseteq Live
      BY BatchOfRows DEF Shape
    <3> QED BY <1>4, <3>1 DEF PaneGated, DropOnCaptureRace, Live
  <2> QED BY <1>b, <1>c, <1>d, <2>1, <2>2
<1>5. ASSUME NEW p \in Pane, PastePane(p) PROVE Contract!Next
  <2>1. Batch(p) \subseteq Live /\ pc = "panes"
    BY <1>5, BatchOfRows DEF Shape, PastePane, Visit
  <2>2. \A m \in Batch(p) : m \in Msg /\ Box[m] = "queued" /\ pasted[m] <= faults
    BY <2>1 DEF Live, Box, Debt, LiveDebt, FileDebt, Unstamped, TypeOK
  <2>3. /\ pasted' = [m \in Msg |-> pasted[m] + (IF m \in Batch(p) THEN 1 ELSE 0)]
        /\ UNCHANGED <<Box, faults>>
    BY <1>5 DEF PastePane, Box
  <2>4. Batch(p) \in SUBSET {m \in Msg : Box[m] = "queued" /\ pasted[m] <= faults}
    BY <2>2
  <2>5. Contract!Paste
    BY <2>3, <2>4 DEF Contract!Paste
  <2> QED BY <2>5 DEF Contract!Next
<1>6. ASSUME NEW n \in Msg, MarkDelivered(n) PROVE Contract!Next
  <2>1. UNCHANGED <<pasted, faults>> /\ n \in Live /\ pasted[n] >= 1
    BY <1>6 DEF MarkDelivered, NextOfBatch, Shape
  <2>2. Box[n] = "queued" /\ Box'[n] = "delivered"
    BY <1>6, <2>1 DEF MarkDelivered, Live, Box, TypeOK
  <2>3. Contract!Moves(n)
    BY <2>1, <2>2 DEF Contract!Moves, Contract!Shown
  <2>4. \A m \in Msg \ {n} : st'[m] = st[m]
    BY <1>6 DEF MarkDelivered, TypeOK
  <2> QED BY <1>b, <1>c, <2>1, <2>3, <2>4
<1>7. ASSUME NEW n \in Msg, SkipThinRow(n) PROVE Contract!Next
  <2>1. UNCHANGED <<pasted, faults>> /\ st[n] = "live" /\ st'[n] = "skipped"
    BY <1>7 DEF SkipThinRow, NextOfBatch, Shape, Live, TypeOK
  <2>2. \A m \in Msg \ {n} : st'[m] = st[m]
    BY <1>7 DEF SkipThinRow, TypeOK
  <2> QED BY <1>b, <1>c, <1>d, <2>1, <2>2
<1>8. ASSUME NEW n \in Msg, ParkWritePeer(n) PROVE Contract!Next
  <2>1. UNCHANGED <<pasted, faults>> /\ st[n] = "live"
    BY <1>8 DEF ParkWritePeer, NextOfBatch, Shape, Live
  <2>2. ASSUME NEW m \in Msg PROVE Box'[m] = Box[m]
    BY <1>8, <2>1 DEF ParkWritePeer, TypeOK, Box
  <2> QED BY <1>b, <2>1, <2>2
<1>9. CASE Crash \/ StepThrows
  BY <1>9 DEF Crash, StepThrows, Abandon, Box, Contract!Fault, Contract!Next
<1>10. ASSUME \/ BeginDrain \/ Reconcile \/ PromoteWriteBacklog \/ FinishPanes \/ Paint
       PROVE  UNCHANGED <<st, pasted, faults>>
  BY <1>10 DEF BeginDrain, Reconcile, PromoteWriteBacklog, FinishPanes, Paint
<1>11. ASSUME NEW p \in Pane, PaneOnHold(p) \/ HoldPane(p) PROVE UNCHANGED <<st, pasted, faults>>
  BY <1>11 DEF PaneOnHold, HoldPane
<1>12. ASSUME NEW m \in Msg, ParkWriteBacklog(m) PROVE UNCHANGED <<st, pasted, faults>>
  BY <1>12 DEF ParkWriteBacklog
<1> QED
  BY <1>1, <1>2, <1>3, <1>4, <1>5, <1>6, <1>7, <1>8, <1>9, <1>10, <1>11, <1>12, SameBox, PanesMoveAlone
  DEF Next, Daemon, Environment

(* Peer mail keeps its contract, whatever the messages, panes and failures. *)
THEOREM MailKeepsContract == Spec => KeepsContract
<1>1. Init => TypeOK /\ Shape /\ Debt /\ FilesAgree
  BY InitType, InitShape, InitDebt, InitFiles
<1>2. TypeOK /\ Shape /\ Debt /\ FilesAgree /\ [Next]_vars
        => (TypeOK /\ Shape /\ Debt /\ FilesAgree)'
  BY NextType, NextShape, NextDebt, NextFiles
<1>3. Init => Contract!Init
  BY DEF Init, Contract!Init, Box
<1> QED BY <1>1, <1>2, <1>3, NextContract, PTL DEF Spec, KeepsContract, Contract!Spec

-----------------------------------------------------------------------------
(* Summons first.                                                           *)

(* While a summons is among the rows of a pane, its batch is summonses.     *)
LEMMA SummonsGoAlone ==
    ASSUME TypeOK, Shape, NEW p, NEW c \in Rows(p) \cap Cold
    PROVE  Batch(p) \subseteq Cold
<1> DEFINE first == FirstOf(Rows(p), 1, DrainOrder)
<1>1. Rows(p) \subseteq Msg /\ IsFiniteSet(Msg)
  BY IdsAssumption DEF Rows, TypeOK
<1>2. ASSUME NEW m \in first PROVE m \in Cold
  <2> SUFFICES ASSUME m \notin Cold PROVE FALSE OBVIOUS
  <2> DEFINE ahead == Ahead(Rows(p), m, DrainOrder)
  <2>1. m \in Rows(p) /\ Cardinality(ahead) < 1
    BY DEF FirstOf
  <2>2. IsFiniteSet(ahead)
    BY <1>1, FS_Subset DEF Ahead
  <2>3. Cardinality(ahead) \in Nat
    BY <2>2, FS_CardinalityType
  <2>4. ahead = {}
    BY <2>1, <2>2, <2>3, FS_EmptySet
  <2>5. Prio[m] \in Nat
    BY <1>1, <2>1, RowAssumption
  <2>6. Rank(c) = 0 /\ Rank(m) = 1 + Prio[m]
    BY DEF Rank
  <2>7. Rank(c) < Rank(m)
    BY <2>5, <2>6
  <2>8. <<c, m>> \in DrainOrder
    BY <1>1, <2>1, <2>7 DEF DrainOrder
  <2> QED BY <2>4, <2>8 DEF Ahead
<1>3. first \subseteq Cold
  BY <1>2
<1>4. Batch(p) = first
  BY <1>3 DEF Batch
<1> QED BY <1>3, <1>4

(* Only a paste is counted as one.                                          *)
LEMMA PastesAlone ==
    ASSUME TypeOK, [Next]_vars, NEW m \in Msg, PastedNow(m)
    PROVE  \E p \in Pane : PastePane(p)
<1>1. pasted'[m] > pasted[m] /\ pasted[m] \in Nat
  BY DEF PastedNow, TypeOK
<1>2. UNCHANGED pasted => FALSE
  BY <1>1
<1> QED
  BY <1>2, PanesMoveAlone
  DEF Next, Daemon, Environment, Enqueue, BeginDrain, Reconcile, PromoteWritePeer, PromoteWriteBacklog,
      RefreshAndGroup, FinishPanes, Paint, PaneOnHold, PaneGated, DropOnCaptureRace, HoldPane,
      MarkDelivered, SkipThinRow, ParkWritePeer, ParkWriteBacklog, Crash, StepThrows, Abandon

LEMMA NextSummons ==
    TypeOK /\ Shape /\ [Next]_vars =>
        [\A m \in Msg \ Cold, k \in Cold :
            PastedNow(m) => ~(st[k] = "live" /\ target[k] = target[m])]_vars
<1> SUFFICES ASSUME TypeOK, Shape, [Next]_vars, NEW m \in Msg \ Cold, NEW k \in Cold,
                    PastedNow(m), st[k] = "live", target[k] = target[m]
             PROVE  FALSE
  OBVIOUS
<1>1. pasted'[m] > pasted[m] /\ pasted[m] \in Nat
  BY DEF PastedNow, TypeOK
<1>2. PICK p \in Pane : PastePane(p)
  BY PastesAlone
<1>3. m \in Batch(p)
  BY <1>1, <1>2 DEF PastePane
<1>4. target[m] = p
  BY <1>3, BatchOfRows DEF Rows
<1>5. Batch(p) \cap Cold # {}
  BY <1>2, <1>4 DEF PastePane, Gated, Held
<1>6. PICK c \in Rows(p) : c \in Cold
  BY <1>5, BatchOfRows
<1>7. Batch(p) \subseteq Cold
  BY <1>6, SummonsGoAlone
<1> QED BY <1>3, <1>7

(* No mail is pasted into a pane while a summons for it is in the live      *)
(* queue, whatever the kinds, the limits and the failures.                  *)
THEOREM SummonsFirst == Spec => ColdStartBlocksMail
<1>1. Init => TypeOK /\ Shape
  BY InitType, InitShape
<1>2. TypeOK /\ Shape /\ [Next]_vars => (TypeOK /\ Shape)'
  BY NextType, NextShape
<1> QED BY <1>1, <1>2, NextSummons, PTL DEF Spec, ColdStartBlocksMail

-----------------------------------------------------------------------------
(* Lines and turns.                                                         *)

(* Rows that have arrived sort into one line: no two of them tie.           *)
LEMMA ArrivedSort ==
    ASSUME TypeOK, InOrder, NEW S \in SUBSET Arrived
    PROVE  IsFiniteSet(S) /\ InLine(DrainOrder, S)
<1>1. S \subseteq Msg /\ IsFiniteSet(S)
  BY IdsAssumption, FS_Subset DEF Arrived
<1>2. \A m \in S : Rank(m) \in Nat /\ at[m] \in Nat
  BY <1>1, RowAssumption DEF Rank, TypeOK
<1>3. \A m, k \in S : at[m] = at[k] => m = k
  BY DEF InOrder
<1>4. \A m, k \in S : <<k, m>> \in DrainOrder <=>
        (Rank(k) < Rank(m) \/ (Rank(k) = Rank(m) /\ at[k] < at[m]))
  BY <1>1 DEF DrainOrder
<1>5. ASSUME NEW a \in S PROVE <<a, a>> \notin DrainOrder
  BY <1>2, <1>4
<1>6. ASSUME NEW a \in S, NEW b \in S, NEW c \in S,
             <<a, b>> \in DrainOrder, <<b, c>> \in DrainOrder
      PROVE  <<a, c>> \in DrainOrder
  <2>1. /\ Rank(a) \in Nat /\ Rank(b) \in Nat /\ Rank(c) \in Nat
        /\ at[a] \in Nat /\ at[b] \in Nat /\ at[c] \in Nat
    BY <1>2
  <2>2. /\ Rank(a) < Rank(b) \/ (Rank(a) = Rank(b) /\ at[a] < at[b])
        /\ Rank(b) < Rank(c) \/ (Rank(b) = Rank(c) /\ at[b] < at[c])
    BY <1>4, <1>6
  <2>3. Rank(a) < Rank(c) \/ (Rank(a) = Rank(c) /\ at[a] < at[c])
    BY <2>1, <2>2
  <2> QED BY <1>4, <2>3
<1>7. ASSUME NEW a \in S, NEW b \in S
      PROVE  a = b \/ <<a, b>> \in DrainOrder \/ <<b, a>> \in DrainOrder
  BY <1>2, <1>3, <1>4
<1> QED BY <1>1, <1>5, <1>6, <1>7 DEF InLine

LEMMA InitOrder == Init => InOrder
BY DEF Init, InOrder, InLine, Arrived, Parked, Orphans

(* A step that brings no row, and touches no row of the backlog file nor    *)
(* the state of one it has lost, leaves the lines as they are.              *)
LEMMA SameLines ==
    ASSUME InOrder, UNCHANGED <<at, backlog, earlier>>, Arrived' = Arrived, Orphans' \subseteq Orphans,
           pc' \notin {"idle", "paint", "reconcile", "parkSave"} => Orphans' = {},
           pc' = "parkSave" => Orphans' \subseteq batch'
    PROVE  InOrder'
BY DEF InOrder, InLine, Parked

LEMMA NextOrder == TypeOK /\ Shape /\ FilesAgree /\ InOrder /\ [Next]_vars => InOrder'
<1> SUFFICES ASSUME TypeOK, Shape, FilesAgree, InOrder, [Next]_vars PROVE InOrder' OBVIOUS
<1> USE DEF files
<1>a. IsFiniteSet(Arrived) /\ Arrived \subseteq Msg /\ Cardinality(Arrived) \in Nat
  BY IdsAssumption, FS_Subset, FS_CardinalityType DEF Arrived
<1>b. Parked \subseteq Arrived /\ Orphans \subseteq Arrived
  BY DEF Shape, Parked, Orphans, Arrived
<1>1. ASSUME NEW m \in Msg, Enqueue(m) PROVE InOrder'
  <2>1. Arrived' = Arrived \cup {m} /\ m \notin Arrived
    BY <1>1 DEF Enqueue, Arrived, TypeOK
  <2>2. Cardinality(Arrived') = Cardinality(Arrived) + 1
    BY <1>a, <2>1, FS_AddElement
  <2>3. at'[m] = Cardinality(Arrived) /\ \A k \in Arrived : at'[k] = at[k]
    BY <1>1, <1>a, <2>1 DEF Enqueue, TypeOK
  <2>4. \A k \in Arrived : at[k] < Cardinality(Arrived) /\ at[k] \in Nat
    BY <1>a DEF InOrder, TypeOK
  <2>5. \A k \in Arrived' : at'[k] < Cardinality(Arrived')
    BY <1>a, <2>1, <2>2, <2>3, <2>4
  <2>6. \A k, n \in Arrived' : at'[k] = at'[n] => k = n
    <3> SUFFICES ASSUME NEW k \in Arrived', NEW n \in Arrived', at'[k] = at'[n] PROVE k = n
      OBVIOUS
    <3>1. CASE k = m /\ n \in Arrived
      BY <1>a, <2>3, <2>4, <3>1
    <3>2. CASE n = m /\ k \in Arrived
      BY <1>a, <2>3, <2>4, <3>2
    <3>3. CASE k \in Arrived /\ n \in Arrived
      BY <2>3, <3>3 DEF InOrder
    <3> QED BY <2>1, <3>1, <3>2, <3>3
  <2>7. Parked' = Parked /\ earlier' = earlier /\ Orphans' = Orphans /\ pc' = pc /\ batch' = batch
    BY <1>1 DEF Enqueue, Parked, Orphans, TypeOK
  <2> QED BY <2>5, <2>6, <2>7 DEF InOrder, InLine
<1>2. CASE Reconcile
  <2>1. Arrived' = Arrived /\ at' = at /\ pc' = "promote"
    BY <1>2 DEF Reconcile, Arrived
  <2>2. Orphans' = {}
    BY <1>2 DEF Reconcile, Orphans, Shape, TypeOK
  <2>3. Parked' = Parked \cup Orphans /\ Parked \cap Orphans = {} /\ Parked' \subseteq Msg
    BY <1>2 DEF Reconcile, Parked, Orphans, Shape, TypeOK
  <2>4. earlier' = earlier \cup (Parked \X Orphans)
    BY <1>2 DEF Reconcile
  <2>5. earlier \subseteq Parked \X Parked /\ InLine(earlier, Parked) /\ \A m, k \in Orphans : m = k
    BY DEF InOrder
  <2>6. earlier' \subseteq Parked' \X Parked'
    BY <2>3, <2>4, <2>5
  <2>7. InLine(earlier', Parked')
    BY <2>3, <2>4, <2>5 DEF InLine
  <2> QED BY <2>1, <2>2, <2>6, <2>7 DEF InOrder
<1>3. CASE PromoteWritePeer
  <2>1. Arrived' = Arrived
    BY <1>3, <1>b, PromotedWasParked DEF PromoteWritePeer, Arrived, Duplicates
  <2>2. Orphans' = {} /\ pc' = "saveBacklog"
    BY <1>3 DEF PromoteWritePeer, Orphans, InOrder
  <2>3. UNCHANGED <<at, backlog, earlier>>
    BY <1>3 DEF PromoteWritePeer
  <2> QED BY <2>1, <2>2, <2>3, SameLines
<1>4. CASE PromoteWriteBacklog
  <2>1. Arrived' = Arrived /\ at' = at /\ pc' = "collect"
    BY <1>4 DEF PromoteWriteBacklog, Arrived
  <2>2. Parked' = kept /\ kept \subseteq Parked
    BY <1>4 DEF PromoteWriteBacklog, Parked, Shape
  <2>3. earlier' = earlier \cap (kept \X kept)
    BY <1>4 DEF PromoteWriteBacklog
  <2>4. InLine(earlier', Parked') /\ earlier' \subseteq Parked' \X Parked'
    BY <2>2, <2>3 DEF InOrder, InLine
  <2>5. Orphans' = {}
    <3>1. \A m \in Msg : st[m] = "backlog" => m \in kept
      BY <1>4 DEF PromoteWriteBacklog, FilesAgree, InFile
    <3> QED BY <1>4, <3>1 DEF PromoteWriteBacklog, Orphans, Shape, Parked
  <2> QED BY <2>1, <2>4, <2>5 DEF InOrder
<1>5. ASSUME NEW m \in Msg, ParkWriteBacklog(m) PROVE InOrder'
  <2>1. Arrived' = Arrived /\ at' = at /\ m \in batch /\ st[m] = "backlog"
    BY <1>5 DEF ParkWriteBacklog, Arrived
  <2>2. target[m] # NoPane
    BY <2>1 DEF Shape
  <2>3. Parked' = Parked \cup {m}
    BY <1>5, <2>2 DEF ParkWriteBacklog, Parked, TypeOK
  <2>4. earlier' = {pair \in earlier : pair[1] # m /\ pair[2] # m} \cup ((Parked \ {m}) \X {m})
    BY <1>5 DEF ParkWriteBacklog
  <2>5. earlier \subseteq Parked \X Parked /\ InLine(earlier, Parked)
    BY DEF InOrder
  <2>6. earlier' \subseteq Parked' \X Parked'
    BY <2>3, <2>4, <2>5
  <2>7. InLine(earlier', Parked')
    BY <2>3, <2>4, <2>5 DEF InLine
  <2>8. Orphans' = {}
    <3>1. pc = "parkSave" /\ \A k \in batch : st[k] = "backlog" => k = m
      BY <1>5, <2>1 DEF ParkWriteBacklog, Shape, Live
    <3>2. \A k \in Orphans : k = m
      BY <3>1 DEF InOrder, Orphans
    <3> QED BY <1>5, <2>2, <3>2 DEF ParkWriteBacklog, Orphans, TypeOK
  <2> QED BY <2>1, <2>6, <2>7, <2>8 DEF InOrder
<1>6. ASSUME NEW m \in Msg, ParkWritePeer(m) PROVE InOrder'
  <2>1. Orphans' \subseteq {m} /\ m \in batch /\ Arrived' = Arrived
    BY <1>6 DEF ParkWritePeer, NextOfBatch, Orphans, InOrder, Arrived, Shape, Live, TypeOK
  <2>2. Parked' = Parked /\ UNCHANGED <<at, earlier, batch>> /\ pc' = "parkSave"
    BY <1>6 DEF ParkWritePeer, Parked
  <2> QED BY <2>1, <2>2 DEF InOrder, InLine
<1>7. CASE RefreshAndGroup
  <2>1. Arrived' = Arrived /\ Orphans' = Orphans
    BY <1>7 DEF RefreshAndGroup, Arrived, Orphans, Reached, Live
  <2>2. UNCHANGED <<at, backlog, earlier>> /\ pc' = "panes" /\ Orphans = {}
    BY <1>7 DEF RefreshAndGroup, InOrder
  <2> QED BY <2>1, <2>2, SameLines
<1>8. ASSUME NEW p \in Pane,
             PaneOnHold(p) \/ PaneGated(p) \/ PastePane(p) \/ DropOnCaptureRace(p) \/ HoldPane(p)
      PROVE  InOrder'
  <2>1. Batch(p) \subseteq Live /\ pc = "panes" /\ Orphans = {}
    BY <1>8, BatchOfRows
    DEF Shape, InOrder, PaneOnHold, PaneGated, PastePane, DropOnCaptureRace, HoldPane, Visit
  <2>2. Arrived' = Arrived /\ Orphans' = Orphans
    BY <1>8, <2>1
    DEF PaneOnHold, PaneGated, PastePane, DropOnCaptureRace, HoldPane, Arrived, Orphans, Live
  <2>3. UNCHANGED <<at, backlog, earlier>> /\ pc' \in {"panes", "mark", "park"}
    BY <1>8, <2>1 DEF PaneOnHold, PaneGated, PastePane, DropOnCaptureRace, HoldPane
  <2> QED BY <2>1, <2>2, <2>3, SameLines
<1>9. ASSUME NEW m \in Msg, MarkDelivered(m) \/ SkipThinRow(m) PROVE InOrder'
  <2>1. m \in Live /\ Orphans = {}
    BY <1>9 DEF MarkDelivered, SkipThinRow, NextOfBatch, Shape, InOrder
  <2>2. Arrived' = Arrived /\ Orphans' = Orphans
    BY <1>9, <2>1 DEF MarkDelivered, SkipThinRow, Arrived, Orphans, Live, TypeOK
  <2>3. UNCHANGED <<at, backlog, earlier>> /\ pc' \in {"panes", "mark", "park"}
    BY <1>9 DEF MarkDelivered, SkipThinRow, Written
  <2> QED BY <2>1, <2>2, <2>3, SameLines
<1>10. ASSUME BeginDrain \/ FinishPanes \/ Paint \/ Crash \/ StepThrows PROVE InOrder'
  <2>1. UNCHANGED <<st, at, backlog, earlier>> /\ pc' \in {"reconcile", "paint", "idle"}
    BY <1>10 DEF BeginDrain, FinishPanes, Paint, Crash, StepThrows, Abandon
  <2>2. Arrived' = Arrived /\ Orphans' = Orphans
    BY <2>1 DEF Arrived, Orphans
  <2> QED BY <2>1, <2>2, SameLines
<1>11. CASE UNCHANGED <<files, pc, kept, grouped, batch, pasted, faults>>
  <2>1. Arrived' = Arrived /\ Orphans' = Orphans
    BY <1>11 DEF Arrived, Orphans
  <2> QED BY <1>11, <2>1, SameLines DEF InOrder
<1> QED
  BY <1>1, <1>2, <1>3, <1>4, <1>5, <1>6, <1>7, <1>8, <1>9, <1>10, <1>11, PanesMoveAlone
  DEF Next, Daemon, Environment

LEMMA LinesHold == Spec => [](TypeOK /\ Shape /\ InOrder)
<1>1. Init => TypeOK /\ Shape /\ FilesAgree /\ InOrder
  BY InitType, InitShape, InitFiles, InitOrder
<1>2. TypeOK /\ Shape /\ FilesAgree /\ InOrder /\ [Next]_vars
        => (TypeOK /\ Shape /\ FilesAgree /\ InOrder)'
  BY NextType, NextShape, NextFiles, NextOrder
<1> QED BY <1>1, <1>2, PTL DEF Spec

(* Arrivals never tie, the backlog file is one line at every moment, and no *)
(* failure makes it lose more than one row.                                 *)
THEOREM LinesNeverFork == Spec => []InOrder
BY LinesHold, PTL

LEMMA RowsArrived ==
    ASSUME TypeOK, Shape, NEW p
    PROVE  Rows(p) \in SUBSET Arrived
BY DEF Rows, Shape, Live, Arrived

(* The first n of a line are somebody, and n at most.                       *)
LEMMA SomeFirst ==
    ASSUME NEW S, IsFiniteSet(S), NEW order, InLine(order, S), NEW n \in Nat \ {0}
    PROVE  /\ S # {} => FirstOf(S, n, order) # {}
           /\ Cardinality(FirstOf(S, n, order)) \in Nat
           /\ Cardinality(FirstOf(S, n, order)) <= n
<1>1. Cardinality(S) \in Nat /\ (S # {} => Cardinality(S) # 0)
  BY FS_CardinalityType, FS_EmptySet
<1>2. Cardinality(FirstOf(S, n, order)) = IF Cardinality(S) < n THEN Cardinality(S) ELSE n
  BY FirstOfSize
<1>3. Cardinality({}) = 0
  BY FS_EmptySet
<1>4. S # {} => FirstOf(S, n, order) # {}
  <2> SUFFICES ASSUME S # {}, FirstOf(S, n, order) = {} PROVE FALSE OBVIOUS
  <2>1. Cardinality(FirstOf(S, n, order)) = 0
    BY <1>3
  <2> QED BY <1>1, <1>2, <2>1
<1> QED BY <1>1, <1>2, <1>4

LEMMA TurnsFromLines == TypeOK /\ Shape /\ InOrder => TurnsTakeRows
<1> SUFFICES ASSUME TypeOK, Shape, InOrder, NEW p \in Pane
             PROVE  /\ Rows(p) # {} => Batch(p) # {}
                    /\ Cardinality(Batch(p)) <= BulkMax
                    /\ Promotable(p) # {} => FirstOf(Promotable(p), BulkMax, earlier) # {}
                    /\ Cardinality(FirstOf(Promotable(p), BulkMax, earlier)) <= BulkMax
  BY DEF TurnsTakeRows
<1>1. IsFiniteSet(Rows(p)) /\ InLine(DrainOrder, Rows(p))
  BY ArrivedSort, RowsArrived
<1>2. BulkMax \in Nat \ {0} /\ 1 \in Nat \ {0} /\ 1 <= BulkMax
  BY RowAssumption
<1>3. ASSUME NEW n \in {1, BulkMax}
      PROVE  /\ Rows(p) # {} => FirstOf(Rows(p), n, DrainOrder) # {}
             /\ Cardinality(FirstOf(Rows(p), n, DrainOrder)) \in Nat
             /\ Cardinality(FirstOf(Rows(p), n, DrainOrder)) <= n
  BY <1>1, <1>2, SomeFirst
<1>4. PICK n \in {1, BulkMax} : Batch(p) = FirstOf(Rows(p), n, DrainOrder)
  BY DEF Batch
<1>5. (Rows(p) # {} => Batch(p) # {}) /\ Cardinality(Batch(p)) <= BulkMax
  BY <1>2, <1>3, <1>4
<1>6. Promotable(p) \subseteq Parked /\ Parked \subseteq Msg
  BY DEF Promotable, StillParked, Parked
<1>7. IsFiniteSet(Promotable(p)) /\ InLine(earlier, Promotable(p))
  <2>1. InLine(earlier, Promotable(p))
    BY <1>6 DEF InOrder, InLine
  <2> QED BY <1>6, <2>1, IdsAssumption, FS_Subset
<1> QED BY <1>2, <1>5, <1>7, SomeFirst

(* Whatever the kinds and the arrivals, a pane with rows is never passed    *)
(* over and no digest is longer than PEER_BULK_MAX.                         *)
THEOREM TurnsAreUsed == Spec => []TurnsTakeRows
BY LinesHold, TurnsFromLines, PTL

LEMMA NextPasted ==
    TypeOK /\ Shape /\ InOrder /\ [Next]_vars =>
        [\A m \in Msg : PastedNow(m) =>
            \A k \in Rows(target[m]) : <<k, m>> \in DrainOrder => PastedNow(k)]_vars
<1> SUFFICES ASSUME TypeOK, Shape, InOrder, [Next]_vars, NEW m \in Msg, PastedNow(m),
                    NEW k \in Rows(target[m]), <<k, m>> \in DrainOrder
             PROVE  PastedNow(k)
  OBVIOUS
<1>1. PICK p \in Pane : PastePane(p)
  BY PastesAlone
<1>2. m \in Batch(p)
  BY <1>1 DEF PastePane, PastedNow, TypeOK
<1>3. target[m] = p
  BY <1>2, BatchOfRows DEF Rows
<1>4. IsFiniteSet(Rows(p)) /\ InLine(DrainOrder, Rows(p))
  BY ArrivedSort, RowsArrived
<1>5. PICK n \in {1, BulkMax} : Batch(p) = FirstOf(Rows(p), n, DrainOrder)
  BY DEF Batch
<1>6. n \in Nat
  BY RowAssumption
<1>7. k \in Batch(p)
  BY <1>2, <1>3, <1>4, <1>5, <1>6, FirstOfIsAhead
<1>8. k \in Msg
  BY <1>7, BatchOfRows DEF TypeOK
<1> QED BY <1>1, <1>7, <1>8 DEF PastePane, PastedNow, TypeOK

(* A drain pastes the rows of a pane in their order: summons, then by kind  *)
(* and by arrival.                                                          *)
THEOREM DrainsInOrder == Spec => PastedInOrder
BY LinesHold, NextPasted, PTL DEF PastedInOrder, Spec
=============================================================================
