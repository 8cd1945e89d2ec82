--------------------------- MODULE CheckbackProofs ---------------------------
(***************************************************************************)
(* Theorems about Checkback, for any check-backs, kinds, budget and bounds. *)
(***************************************************************************)
EXTENDS Checkback, TLAPS

-----------------------------------------------------------------------------
(* Typing.                                                                  *)

LEMMA RowUpdates ==
    ASSUME NEW rows \in [Check -> Row], NEW S, NEW c \in Check
    PROVE  /\ CancelIn(rows, S) \in [Check -> Row]
           /\ Imported(rows) \in [Check -> Row]
           /\ [rows EXCEPT ![c] = Armed] \in [Check -> Row]
           /\ [rows EXCEPT ![c].status = "cancelled"] \in [Check -> Row]
           /\ [rows EXCEPT ![c].due = FALSE] \in [Check -> Row]
           /\ [rows EXCEPT ![c].due = TRUE] \in [Check -> Row]
           /\ [rows EXCEPT ![c].status = "active", ![c].due = FALSE] \in [Check -> Row]
           /\ [k \in Check |-> Blank] \in [Check -> Row]
<1>1. \A k \in Check : rows[k] \in Row
  OBVIOUS
<1>2. ASSUME NEW r \in Row
      PROVE  /\ [r EXCEPT !.status = "cancelled"] \in Row
             /\ [r EXCEPT !.due = FALSE] \in Row /\ [r EXCEPT !.due = TRUE] \in Row
             /\ [r EXCEPT !.status = "active", !.due = FALSE] \in Row
  BY DEF Row
<1>3. CancelIn(rows, S) \in [Check -> Row]
  BY <1>1, <1>2 DEF CancelIn
<1>4. Imported(rows) \in [Check -> Row]
  <2>1. [status |-> "active", due |-> TRUE, fires |-> 0] \in Row
    BY DEF Row
  <2>2. QED
    BY <1>1, <2>1 DEF Imported
<1>5. Armed \in Row /\ Blank \in Row
  BY DEF Armed, Blank, Row
<1>6. QED
  BY <1>1, <1>2, <1>3, <1>4, <1>5

(* What a firing leaves of its row.                                         *)
LEMMA CopyUpdates ==
    ASSUME snap \in [Check -> Row], NEW c \in Check
    PROVE  /\ Closed(c) \in [Check -> Row]
           /\ Deferred(c) \in [Check -> Row]
           /\ Renewed(c) \in [Check -> Row]
           /\ Finished(c) \subseteq {Closed(c), Renewed(c)}
<1>1. snap[c].fires \in Nat /\ snap[c].fires + 1 \in Nat
  BY DEF Row
<1>2. Closed(c) \in [Check -> Row] /\ Deferred(c) \in [Check -> Row]
  BY RowUpdates DEF Closed, Deferred
<1>3. Renewed(c) \in [Check -> Row]
  BY <1>1 DEF Renewed, Row
<1>4. QED
  BY <1>2, <1>3 DEF Finished

(* Every firing takes the same turn: one row of the copy is closed, pushed  *)
(* back or renewed, or none, and the store is kept, gets the copy as it     *)
(* was, or loses its legacy rows.                                           *)
Outcomes(c) == {snap, Closed(c), Deferred(c), Renewed(c)}
Stores == {disk, snap} \cup {CancelIn(disk, Legacy), CancelIn(snap, Legacy)}

LEMMA FireShape ==
    ASSUME TypeOK, NEW c \in Check, Fire(c)
    PROVE  /\ Turn(c)
           /\ snap' \in Outcomes(c)
           /\ disk' \in Stores
           /\ Supervise = {} => disk' \in {disk, snap}
           /\ echo' \in SUBSET Coord
           /\ \/ shown' = shown
              \/ /\ Showing(c)
                 /\ c \in OneShot => snap' = Closed(c)
<1>1. CASE Unreachable(c)
  BY <1>1 DEF Unreachable, Saved, Silent, Outcomes, Stores, TypeOK
<1>2. CASE Orphaned(c)
  BY <1>2 DEF Orphaned, Saved, Silent, Outcomes, Stores, TypeOK
<1>3. CASE FireRetired(c)
  BY <1>3 DEF FireRetired, Saved, Silent, Outcomes, Stores, TypeOK
<1>4. CASE FireWatch(c)
  BY <1>4, CopyUpdates DEF FireWatch, Reached, Saved, Silent, Outcomes, Stores, TypeOK
<1>5. CASE FireNudge(c)
  BY <1>5, CopyUpdates DEF FireNudge, Reached, Saved, Silent, Outcomes, Stores, TypeOK
<1>6. CASE FireTick(c)
  BY <1>6, CopyUpdates DEF FireTick, Reached, Saved, Silent, Outcomes, Stores, TypeOK
<1>7. CASE FireRetry(c)
  BY <1>7 DEF FireRetry, Reached, Saved, Outcomes, Stores, TypeOK
<1>8. CASE FireCoord(c)
  <2>1. Follow[c] \in Coord /\ c \notin OneShot
    BY <1>8, KindAssumption DEF FireCoord, OneShot
  <2>2. echo' \in SUBSET Coord
    BY <1>8, <2>1 DEF FireCoord, Silent, TypeOK
  <2>3. snap' \in Outcomes(c) /\ (shown' = shown \/ Showing(c))
    BY <1>8, CopyUpdates DEF FireCoord, Silent, Outcomes, TypeOK
  <2>4. Turn(c) /\ disk' \in {disk, snap}
    BY <1>8 DEF FireCoord, Reached, Saved
  <2>5. QED
    BY <2>1, <2>2, <2>3, <2>4 DEF Stores
<1>9. CASE FirePlain(c)
  BY <1>9 DEF FirePlain, Reached, Saved, Outcomes, Stores, TypeOK
<1>10. QED
  BY <1>1, <1>2, <1>3, <1>4, <1>5, <1>6, <1>7, <1>8, <1>9 DEF Fire

LEMMA FireTyped ==
    ASSUME TypeOK, NEW c \in Check, Fire(c)
    PROVE  TypeOK'
<1>1. snap' \in [Check -> Row] /\ disk' \in [Check -> Row]
  <2>1. /\ snap' \in {snap, Closed(c), Deferred(c), Renewed(c)}
        /\ disk' \in {disk, snap, CancelIn(disk, Legacy), CancelIn(snap, Legacy)}
    BY FireShape DEF Outcomes, Stores
  <2>2. disk \in [Check -> Row] /\ snap \in [Check -> Row]
    BY DEF TypeOK
  <2>3. CancelIn(disk, Legacy) \in [Check -> Row] /\ CancelIn(snap, Legacy) \in [Check -> Row]
    BY <2>2, RowUpdates
  <2>4. Closed(c) \in [Check -> Row] /\ Deferred(c) \in [Check -> Row] /\ Renewed(c) \in [Check -> Row]
    BY <2>2, CopyUpdates
  <2>5. QED
    BY <2>1, <2>2, <2>3, <2>4
<1>2. shown' \in [Check -> Nat]
  BY FireShape DEF Showing, TypeOK
<1>3. QED
  BY <1>1, <1>2, FireShape DEF Turn, TypeOK

LEMMA PostTyped ==
    ASSUME TypeOK, NEW c \in Check, Post(c), disk' \in [Check -> Row]
    PROVE  TypeOK'
<1>1. asked' \in Nat /\ posts' \in [Check -> Nat]
  BY DEF Post, TypeOK
<1>2. UNCHANGED <<snap, todo, pc, pane, echo, shown, served, faults>>
  BY DEF Post, fire
<1>3. QED
  BY <1>1, <1>2 DEF TypeOK

LEMMA NextType ==
    ASSUME TypeOK, [Next]_vars
    PROVE  TypeOK'
<1>1. ASSUME NEW c \in Check, Arm(c)
      PROVE  TypeOK'
  BY <1>1, RowUpdates, PostTyped DEF Arm, TypeOK
<1>2. ASSUME NEW c \in Check, ArmAfterPeer(c)
      PROVE  TypeOK'
  BY <1>2, RowUpdates, PostTyped DEF ArmAfterPeer, TypeOK
<1>3. ASSUME NEW c \in Check, Reset(c)
      PROVE  TypeOK'
  BY <1>3, RowUpdates, PostTyped DEF Reset, TypeOK
<1>4. ASSUME NEW c \in Check, ArmRefused(c)
      PROVE  TypeOK'
  BY <1>4, RowUpdates DEF ArmRefused, TypeOK, fire, history
<1>5. ASSUME NEW S \in SUBSET Check, Cancel(S)
      PROVE  TypeOK'
  <2>1. disk' \in [Check -> Row]
    <3>1. CASE Check = {}
      BY <1>5, <3>1 DEF Cancel, CancelIn, TypeOK
    <3>2. CASE Check # {}
      BY <1>5, <3>2, RowUpdates DEF Cancel, TypeOK
    <3>3. QED
      BY <3>1, <3>2
  <2>2. QED
    BY <1>5, <2>1 DEF Cancel, TypeOK, fire, history
<1>6. ASSUME NEW c \in Check, Serve(c)
      PROVE  TypeOK'
  <2>1. disk' \in [Check -> Row]
    BY <1>6, RowUpdates DEF Serve, TypeOK
  <2>2. QED
    BY <1>6, <2>1 DEF Serve, TypeOK, fire
<1>7. ASSUME NEW c \in Check, LoseEcho(c)
      PROVE  TypeOK'
  BY <1>7 DEF LoseEcho, TypeOK, fire, history
<1>8. CASE BeginFire
  BY <1>8 DEF BeginFire, Taken, Due, Active, TypeOK, history
<1>9. CASE EndFire
  BY <1>9 DEF EndFire, TypeOK, history, Row, Blank
<1>10. ASSUME NEW c \in Check, Fire(c)
       PROVE  TypeOK'
  BY <1>10, FireTyped
<1>11. CASE StepThrows
  BY <1>11 DEF StepThrows, Fault, DropCopy, TypeOK, Row, Blank
<1>12. CASE Crash
  <2>1. disk' \in [Check -> Row]
    BY <1>12 DEF Crash, Imported, TypeOK, Row
  <2>2. QED
    BY <1>12, <2>1 DEF Crash, Fault, DropCopy, TypeOK, Row, Blank
<1>13. CASE Restart
  BY <1>13 DEF Restart, Imported, TypeOK, Row, fire, history
<1>14. ASSUME NEW c \in Check, Expire(c)
       PROVE  TypeOK'
  BY <1>14, RowUpdates DEF Expire, TypeOK, fire, history
<1>15. ASSUME NEW c \in Check, PaneChanges(c)
       PROVE  TypeOK'
  BY <1>15, BoundAssumption DEF PaneChanges, TypeOK, fire, history
<1>16. CASE UNCHANGED vars
  BY <1>16 DEF vars, fire, history, TypeOK
<1>17. QED
  BY <1>1, <1>2, <1>3, <1>4, <1>5, <1>6, <1>7, <1>8, <1>9, <1>10, <1>11, <1>12, <1>13,
     <1>14, <1>15, <1>16 DEF Next, Tick, Http

LEMMA InitType == Init => TypeOK
BY DEF Init, TypeOK, Row, Blank, PaneStates

(* Every reachable state is well typed.                                     *)
THEOREM CheckbackTyped == Spec => []TypeOK
BY InitType, NextType, PTL DEF Spec

-----------------------------------------------------------------------------
(* How updates of the rows change what is armed.                            *)

LEMMA StatusUpdates ==
    ASSUME NEW rows \in [Check -> Row], NEW S, NEW c \in Check, NEW k \in Check
    PROVE  /\ CancelIn(rows, S)[k].status \in {rows[k].status, "cancelled"}
           /\ [CancelIn(rows, S) EXCEPT ![c] = Armed][k].status \in
                 {rows[k].status, "cancelled"} \cup (IF k = c THEN {"active"} ELSE {})
           /\ [rows EXCEPT ![c] = Armed][k].status \in
                 {rows[k].status} \cup (IF k = c THEN {"active"} ELSE {})
           /\ [rows EXCEPT ![c].status = "active", ![c].due = FALSE][k].status \in
                 {rows[k].status} \cup (IF k = c THEN {"active"} ELSE {})
           /\ [rows EXCEPT ![c].due = TRUE][k].status = rows[k].status
           /\ Frozen = {} => Imported(rows)[k].status = rows[k].status
<1>1. CancelIn(rows, S) \in [Check -> Row] /\ rows[k] \in Row /\ rows[c] \in Row
  BY RowUpdates
<1>2. CancelIn(rows, S)[k].status \in {rows[k].status, "cancelled"}
  <2>1. ASSUME NEW r \in Row
        PROVE  [r EXCEPT !.status = "cancelled"].status = "cancelled"
    BY DEF Row
  <2>2. QED
    BY <1>1, <2>1 DEF CancelIn
<1>3. Armed.status = "active"
  BY DEF Armed
<1>4. ASSUME NEW r \in Row
      PROVE  /\ [r EXCEPT !.status = "active", !.due = FALSE].status = "active"
             /\ [r EXCEPT !.due = TRUE].status = r.status
  BY DEF Row
<1>5. Frozen = {} => Imported(rows)[k].status = rows[k].status
  BY <1>1 DEF Imported
<1>6. QED
  BY <1>1, <1>2, <1>3, <1>4, <1>5

(* What the handlers do to the status of a row.                             *)
LEMMA HandlersStatus ==
    ASSUME TypeOK, NEW k \in Check
    PROVE  /\ \A c \in Check :
                 /\ Arm(c) \/ ArmAfterPeer(c) \/ Reset(c) \/ Serve(c) =>
                       k = c \/ disk'[k].status \in {disk[k].status, "cancelled"}
                 /\ ArmRefused(c) \/ Expire(c) => disk'[k].status \in {disk[k].status, "cancelled"}
           /\ \A S \in SUBSET Check : Cancel(S) => disk'[k].status \in {disk[k].status, "cancelled"}
<1>1. disk \in [Check -> Row]
  BY DEF TypeOK
<1>2. ASSUME NEW c \in Check
      PROVE  /\ [CancelIn(disk, SameKey(c)) EXCEPT ![c] = Armed][k].status \in
                   {disk[k].status, "cancelled"} \cup (IF k = c THEN {"active"} ELSE {})
             /\ CancelIn(disk, SameKey(c))[k].status \in {disk[k].status, "cancelled"}
             /\ [disk EXCEPT ![c] = Armed][k].status \in
                   {disk[k].status} \cup (IF k = c THEN {"active"} ELSE {})
             /\ [disk EXCEPT ![c].status = "active", ![c].due = FALSE][k].status \in
                   {disk[k].status} \cup (IF k = c THEN {"active"} ELSE {})
             /\ [disk EXCEPT ![c].due = TRUE][k].status = disk[k].status
  BY <1>1, StatusUpdates
<1>3. ASSUME NEW c \in Check, Arm(c) \/ Serve(c), k # c
      PROVE  disk'[k].status \in {disk[k].status, "cancelled"}
  BY <1>2, <1>3 DEF Arm, Serve
<1>4. ASSUME NEW c \in Check, ArmAfterPeer(c), k # c
      PROVE  disk'[k].status \in {disk[k].status, "cancelled"}
  BY <1>2, <1>4 DEF ArmAfterPeer
<1>5. ASSUME NEW c \in Check, Reset(c), k # c
      PROVE  disk'[k].status \in {disk[k].status, "cancelled"}
  <2>1. disk' = [disk EXCEPT ![c].status = "active", ![c].due = FALSE]
    BY <1>5 DEF Reset
  <2>2. [disk EXCEPT ![c].status = "active", ![c].due = FALSE][k] = disk[k]
    BY <1>1, <1>5
  <2>3. QED
    BY <2>1, <2>2
<1>6. ASSUME NEW c \in Check, ArmRefused(c) \/ Expire(c)
      PROVE  disk'[k].status \in {disk[k].status, "cancelled"}
  BY <1>2, <1>6 DEF ArmRefused, Expire
<1>7. ASSUME NEW S \in SUBSET Check, Cancel(S)
      PROVE  disk'[k].status \in {disk[k].status, "cancelled"}
  <2>1. disk' = CancelIn(disk, S)
    BY <1>7 DEF Cancel
  <2>2. CancelIn(disk, S)[k].status \in {disk[k].status, "cancelled"}
    BY <1>1, StatusUpdates
  <2>3. QED
    BY <2>1, <2>2
<1>8. QED
  BY <1>3, <1>4, <1>5, <1>6, <1>7

(* A row of the copy after its firing.                                      *)
LEMMA StatusOutcomes ==
    ASSUME snap \in [Check -> Row], NEW c \in Check, NEW k \in Check
    PROVE  /\ Closed(c)[k].status = (IF k = c THEN "cancelled" ELSE snap[k].status)
           /\ Deferred(c)[k].status = snap[k].status
           /\ Renewed(c)[k].status = snap[k].status
<1>1. ASSUME NEW r \in Row, NEW n \in Nat
      PROVE  /\ [r EXCEPT !.status = "cancelled"].status = "cancelled"
             /\ [r EXCEPT !.due = FALSE].status = r.status
             /\ [r EXCEPT !.due = FALSE, !.fires = n].status = r.status
  BY DEF Row
<1>2. snap[k] \in Row /\ snap[c] \in Row /\ snap[c].fires \in Nat /\ snap[c].fires + 1 \in Nat
  BY DEF Row
<1>3. Closed(c)[k].status = (IF k = c THEN "cancelled" ELSE snap[k].status)
  BY <1>1, <1>2 DEF Closed
<1>4. Deferred(c)[k].status = snap[k].status
  BY <1>1, <1>2 DEF Deferred
<1>5. Renewed(c)[k].status = snap[k].status
  BY <1>1, <1>2 DEF Renewed
<1>6. QED
  BY <1>3, <1>4, <1>5

-----------------------------------------------------------------------------
(* A showing is paid for by the POST that armed the check-back, or by the   *)
(* fault that lost the copy in which it was closed.                         *)

LEMMA LeftBit ==
    ASSUME NEW rows, NEW c
    PROVE  Left(rows, c) \in {0, 1} /\ (c \notin Active(rows) => Left(rows, c) = 0)
BY DEF Left

(* Between two ticks, what no POST arms is not armed.                       *)
LEMMA AccountsQuiet ==
    ASSUME TypeOK, TypeOK', Accounts, Quiet, UNCHANGED <<pc, todo, shown>>, faults' >= faults,
           \A c \in OneShot : \/ c \in Active(disk)
                              \/ c \notin Active(disk')
                              \/ posts'[c] = posts[c] + 1,
           \A c \in OneShot : posts'[c] >= posts[c]
    PROVE  Accounts'
<1>1. ASSUME NEW c \in OneShot
      PROVE  shown'[c] + Left(disk', c) <= posts'[c] + faults'
  <2>1. shown[c] + Left(disk, c) <= posts[c] + faults
    BY DEF Accounts, Quiet
  <2>2. c \in Check
    BY DEF OneShot
  <2>3. /\ shown[c] \in Nat /\ posts[c] \in Nat /\ posts'[c] \in Nat /\ faults \in Nat /\ faults' \in Nat
    BY <2>2 DEF TypeOK
  <2>4. Left(disk, c) \in {0, 1} /\ Left(disk', c) \in {0, 1}
    BY LeftBit
  <2>5. \/ Left(disk, c) = 1 \/ Left(disk', c) = 0 \/ posts'[c] = posts[c] + 1
    BY DEF Left
  <2>6. QED
    BY <2>1, <2>3, <2>4, <2>5
<1>2. pc' = "idle" /\ todo' = {}
  BY DEF Accounts, Quiet
<1>3. QED
  BY <1>1, <1>2 DEF Accounts

LEMMA AccountsFire ==
    ASSUME TypeOK, TypeOK', Accounts, NEW c \in Check, Fire(c)
    PROVE  Accounts'
<1>1. /\ pc = "fire" /\ pc' = "fire" /\ c \in todo /\ todo' = todo \ {c}
      /\ posts' = posts /\ faults' = faults
  BY FireShape DEF Turn
<1>2. todo \subseteq Active(snap) /\ c \in Active(snap)
  BY <1>1 DEF Accounts
<1>3. snap \in [Check -> Row] /\ disk \in [Check -> Row]
  BY DEF TypeOK
<1>4. \A k \in Check : snap'[k].status \in {snap[k].status} \cup (IF k = c THEN {"cancelled"} ELSE {})
  BY <1>3, FireShape, StatusOutcomes DEF Outcomes
<1>5. \A k \in Check : disk'[k].status \in {disk[k].status, snap[k].status, "cancelled"}
  <2>1. disk' \in {disk, snap, CancelIn(disk, Legacy), CancelIn(snap, Legacy)}
    BY FireShape DEF Stores
  <2>2. ASSUME NEW k \in Check
        PROVE  /\ CancelIn(disk, Legacy)[k].status \in {disk[k].status, "cancelled"}
               /\ CancelIn(snap, Legacy)[k].status \in {snap[k].status, "cancelled"}
    BY <1>3, StatusUpdates
  <2>3. QED
    BY <2>1, <2>2
<1>6. todo' \subseteq Active(snap')
  BY <1>1, <1>2, <1>4 DEF Active
<1>7. ASSUME NEW k \in OneShot
      PROVE  /\ shown'[k] + Left(snap', k) <= posts[k] + faults
             /\ shown'[k] + Left(disk', k) <= posts[k] + faults + 1
  <2>1. k \in Check
    BY DEF OneShot
  <2>2. /\ shown[k] \in Nat /\ shown'[k] \in Nat /\ posts[k] \in Nat /\ faults \in Nat
    BY <2>1 DEF TypeOK
  <2>3. /\ shown[k] + Left(snap, k) <= posts[k] + faults
        /\ shown[k] + Left(disk, k) <= posts[k] + faults + 1
    BY <1>1 DEF Accounts
  <2>4. /\ Left(snap, k) \in {0, 1} /\ Left(snap', k) \in {0, 1}
        /\ Left(disk, k) \in {0, 1} /\ Left(disk', k) \in {0, 1}
    BY LeftBit
  <2>5. /\ Left(snap, k) = 0 => Left(snap', k) = 0
        /\ Left(snap, k) = 0 /\ Left(disk, k) = 0 => Left(disk', k) = 0
    BY <2>1, <1>4, <1>5 DEF Left, Active
  <2>6. CASE shown'[k] = shown[k]
    BY <2>2, <2>3, <2>4, <2>5, <2>6
  <2>7. CASE shown'[k] # shown[k]
    <3>1. Showing(c)
      BY <2>7, FireShape
    <3>2. k = c
      BY <3>1, <2>1, <2>7 DEF Showing, TypeOK
    <3>3. shown'[k] = shown[k] + 1
      BY <3>1, <3>2, <2>1 DEF Showing, OneShot, TypeOK
    <3>4. Left(snap, k) = 1
      BY <1>2, <3>2 DEF Left
    <3>5. snap' = Closed(c)
      BY <2>7, <3>2, FireShape
    <3>6. snap'[k].status = "cancelled"
      BY <1>3, <2>1, <3>2, <3>5, StatusOutcomes
    <3>7. Left(snap', k) = 0
      BY <3>6 DEF Left, Active
    <3>8. QED
      BY <2>2, <2>3, <2>4, <3>3, <3>4, <3>7
  <2>8. QED
    BY <2>6, <2>7
<1>8. QED
  BY <1>1, <1>6, <1>7 DEF Accounts

(* A tick that throws or dies leaves a store that may be one showing        *)
(* behind; the fault pays for it.                                           *)
LEMMA AccountsFault ==
    ASSUME TypeOK, TypeOK', Accounts, Fault, \A c \in Check : disk'[c].status = disk[c].status
    PROVE  Accounts'
<1>1. pc = "fire" /\ pc' = "idle" /\ todo' = {} /\ faults' = faults + 1 /\ UNCHANGED <<shown, posts>>
  BY DEF Fault, DropCopy
<1>2. ASSUME NEW c \in OneShot
      PROVE  shown'[c] + Left(disk', c) <= posts'[c] + faults'
  <2>1. c \in Check
    BY DEF OneShot
  <2>2. Left(disk', c) = Left(disk, c)
    BY <2>1 DEF Left, Active
  <2>3. shown[c] + Left(disk, c) <= posts[c] + faults + 1
    BY <1>1 DEF Accounts
  <2>4. shown[c] \in Nat /\ posts[c] \in Nat /\ faults \in Nat /\ Left(disk, c) \in {0, 1}
    BY <2>1, LeftBit DEF TypeOK
  <2>5. QED
    BY <1>1, <2>2, <2>3, <2>4
<1>3. QED
  BY <1>1, <1>2 DEF Accounts

LEMMA NextAccounts ==
    ASSUME Frozen = {}, TypeOK, TypeOK', Accounts, [Next]_vars
    PROVE  Accounts'
<1> OneShot \subseteq Check
  BY DEF OneShot
<1>1. disk \in [Check -> Row] /\ posts \in [Check -> Nat] /\ faults \in Nat
  BY DEF TypeOK
<1>2. ASSUME NEW c \in Check, Post(c), Quiet,
             \A k \in Check : k # c => disk'[k].status \in {disk[k].status, "cancelled"}
      PROVE  Accounts'
  <2>1. posts' = [posts EXCEPT ![c] = @ + 1] /\ UNCHANGED <<pc, todo, shown, faults>>
    BY <1>2 DEF Post, fire
  <2>2. \A k \in Check : posts'[k] >= posts[k] /\ (k = c => posts'[k] = posts[k] + 1)
    BY <1>1, <2>1
  <2>3. \A k \in Check : k # c => k \in Active(disk) \/ k \notin Active(disk')
    BY <1>2 DEF Active
  <2>4. QED
    BY <1>1, <1>2, <2>1, <2>2, <2>3, AccountsQuiet
<1>3. ASSUME NEW c \in Check, Arm(c) \/ ArmAfterPeer(c) \/ Reset(c)
      PROVE  Accounts'
  <2>1. \A k \in Check : k # c => disk'[k].status \in {disk[k].status, "cancelled"}
    BY <1>3, HandlersStatus
  <2>2. Post(c) /\ Quiet
    BY <1>3 DEF Arm, ArmAfterPeer, Reset
  <2>3. QED
    BY <1>2, <2>1, <2>2
<1>4. ASSUME NEW c \in Check, Serve(c)
      PROVE  Accounts'
  <2>1. posts' = [posts EXCEPT ![c] = @ + 1] /\ UNCHANGED <<pc, todo, shown, faults>>
    BY <1>4 DEF Serve, fire
  <2>2. \A k \in Check : posts'[k] >= posts[k] /\ (k = c => posts'[k] = posts[k] + 1)
    BY <1>1, <2>1
  <2>3. \A k \in Check : k # c => disk'[k].status \in {disk[k].status, "cancelled"}
    BY <1>4, HandlersStatus
  <2>4. \A k \in Check : k # c => k \in Active(disk) \/ k \notin Active(disk')
    BY <2>3 DEF Active
  <2>5. Quiet /\ faults' >= faults
    BY <1>1, <1>4, <2>1 DEF Serve
  <2>6. /\ \A k \in OneShot : \/ k \in Active(disk) \/ k \notin Active(disk')
                             \/ posts'[k] = posts[k] + 1
        /\ \A k \in OneShot : posts'[k] >= posts[k]
    BY <2>2, <2>4
  <2>7. QED
    BY <2>1, <2>5, <2>6, AccountsQuiet
<1>5. ASSUME Quiet, UNCHANGED <<pc, todo, shown, posts, faults>>,
             \A k \in Check : disk'[k].status \in {disk[k].status, "cancelled"}
      PROVE  Accounts'
  BY <1>1, <1>5, AccountsQuiet DEF Active
<1>6. ASSUME NEW c \in Check, ArmRefused(c) \/ Expire(c)
      PROVE  Accounts'
  <2>1. \A k \in Check : disk'[k].status \in {disk[k].status, "cancelled"}
    BY <1>6, HandlersStatus
  <2>2. QED
    BY <1>5, <1>6, <2>1 DEF ArmRefused, Expire, fire, history
<1>7. ASSUME NEW S \in SUBSET Check, Cancel(S)
      PROVE  Accounts'
  <2>1. \A k \in Check : disk'[k].status \in {disk[k].status, "cancelled"}
    BY <1>7, HandlersStatus
  <2>2. QED
    BY <1>5, <1>7, <2>1 DEF Cancel, fire, history
<1>8. CASE Restart
  <2>1. \A k \in Check : disk'[k].status \in {disk[k].status, "cancelled"}
    BY <1>1, <1>8, StatusUpdates DEF Restart
  <2>2. QED
    BY <1>5, <1>8, <2>1 DEF Restart, fire, history
<1>9. ASSUME UNCHANGED <<disk, fire, history>>
      PROVE  Accounts'
  BY <1>9 DEF Accounts, Left, Active, fire, history
<1>10. ASSUME NEW c \in Check, LoseEcho(c) \/ PaneChanges(c)
       PROVE  Accounts'
  BY <1>9, <1>10 DEF LoseEcho, PaneChanges
<1>11. CASE BeginFire
  <2>1. pc = "idle" /\ pc' = "fire" /\ snap' = disk /\ disk' = disk /\ todo' \subseteq Active(disk)
    BY <1>11 DEF BeginFire, Quiet, Taken, Due
  <2>2. UNCHANGED <<shown, posts, faults>>
    BY <1>11 DEF BeginFire, history
  <2>3. ASSUME NEW c \in OneShot
        PROVE  /\ shown[c] + Left(disk, c) <= posts[c] + faults
               /\ shown[c] + Left(disk, c) <= posts[c] + faults + 1
    <3>1. shown[c] \in Nat /\ posts[c] \in Nat /\ faults \in Nat /\ Left(disk, c) \in {0, 1}
      BY LeftBit DEF TypeOK
    <3>2. QED
      BY <2>1, <3>1 DEF Accounts
  <2>4. QED
    BY <2>1, <2>2, <2>3 DEF Accounts
<1>12. CASE EndFire
  BY <1>12 DEF EndFire, Accounts, history
<1>13. ASSUME NEW c \in Check, Fire(c)
       PROVE  Accounts'
  BY <1>13, AccountsFire
<1>14. CASE StepThrows
  BY <1>14, AccountsFault DEF StepThrows
<1>15. CASE Crash
  BY <1>1, <1>15, AccountsFault, StatusUpdates DEF Crash
<1>16. CASE UNCHANGED vars
  BY <1>9, <1>16 DEF vars
<1>17. QED
  BY <1>3, <1>4, <1>6, <1>7, <1>8, <1>10, <1>11, <1>12, <1>13, <1>14, <1>15, <1>16
     DEF Next, Tick, Http

LEMMA InitAccounts == Init => Accounts
BY DEF Init, Accounts, Left, Active, Blank, OneShot

LEMMA AccountsGive ==
    ASSUME TypeOK, Accounts
    PROVE  ShownOncePerPost
<1>1. ASSUME NEW c \in OneShot
      PROVE  shown[c] <= posts[c] + faults
  <2>1. \E n \in {0, 1} : shown[c] + n <= posts[c] + faults
    BY LeftBit DEF Accounts, TypeOK
  <2>2. shown[c] \in Nat /\ posts[c] \in Nat /\ faults \in Nat
    BY DEF TypeOK, OneShot
  <2>3. QED
    BY <2>1, <2>2
<1>2. QED
  BY <1>1 DEF ShownOncePerPost

(* A one-shot check-back ("never renew") is shown at most once for each     *)
(* time it was armed, and once more for each tick that failed after the     *)
(* showing, as long as no older file is imported at a start.                *)
THEOREM CheckbackShownOnce ==
    ASSUME Frozen = {}
    PROVE  Spec => []ShownOncePerPost
<1>1. Init => TypeOK /\ Accounts
  BY InitType, InitAccounts
<1>2. TypeOK /\ Accounts /\ [Next]_vars => (TypeOK /\ Accounts)'
  BY NextType, NextAccounts
<1>3. TypeOK /\ Accounts => ShownOncePerPost
  BY AccountsGive
<1>4. QED
  BY <1>1, <1>2, <1>3, PTL DEF Spec

-----------------------------------------------------------------------------
(* No tick undoes a cancellation.                                           *)

LEMMA LegacyNone ==
    ASSUME Legacy = {}, TypeOK, NEW c \in Check, Fire(c)
    PROVE  disk' \in {disk, snap}
<1>1. ASSUME NEW rows \in [Check -> Row]
      PROVE  CancelIn(rows, Legacy) = rows
  BY DEF CancelIn
<1>2. CancelIn(disk, Legacy) = disk /\ CancelIn(snap, Legacy) = snap
  BY <1>1 DEF TypeOK
<1>3. QED
  BY <1>2, FireShape DEF Stores

LEMMA NextCopyKnows ==
    ASSUME Frozen = {}, Legacy = {}, TypeOK, Accounts, CopyKnows, [Next]_vars
    PROVE  CopyKnows'
<1>1. ASSUME pc' = "idle"
      PROVE  CopyKnows'
  BY <1>1 DEF CopyKnows
<1>2. CASE BeginFire
  BY <1>2 DEF BeginFire, CopyKnows
<1>3. ASSUME NEW c \in Check, Fire(c)
      PROVE  CopyKnows'
  <2>1. /\ pc = "fire" /\ c \in Active(snap) /\ snap \in [Check -> Row]
    BY <1>3, FireShape DEF Turn, Accounts, TypeOK
  <2>2. \A k \in Check : snap[k].status = "cancelled" => snap'[k].status = "cancelled"
    BY <1>3, <2>1, FireShape, StatusOutcomes DEF Outcomes
  <2>3. disk' \in {disk, snap}
    BY <1>3, LegacyNone
  <2>4. QED
    BY <2>1, <2>2, <2>3 DEF CopyKnows
<1>4. ASSUME UNCHANGED <<disk, fire>>
      PROVE  CopyKnows'
  BY <1>4 DEF CopyKnows, fire
<1>5. ASSUME NEW c \in Check, Arm(c) \/ ArmRefused(c) \/ ArmAfterPeer(c) \/ Reset(c) \/ Serve(c) \/ Expire(c)
      PROVE  CopyKnows'
  BY <1>1, <1>5 DEF Arm, ArmRefused, ArmAfterPeer, Reset, Serve, Expire, Post, Quiet, fire
<1>6. ASSUME NEW S \in SUBSET Check, Cancel(S)
      PROVE  CopyKnows'
  BY <1>1, <1>6 DEF Cancel, Quiet, fire
<1>7. ASSUME NEW c \in Check, LoseEcho(c) \/ PaneChanges(c)
      PROVE  CopyKnows'
  BY <1>4, <1>7 DEF LoseEcho, PaneChanges
<1>8. CASE EndFire \/ StepThrows \/ Crash \/ Restart
  BY <1>1, <1>8 DEF EndFire, StepThrows, Crash, Restart, Fault, DropCopy, Quiet, fire
<1>9. CASE UNCHANGED vars
  BY <1>4, <1>9 DEF vars
<1>10. QED
  BY <1>2, <1>3, <1>5, <1>6, <1>7, <1>8, <1>9 DEF Next, Tick, Http

(* The step itself.                                                         *)
LEMMA NextKeepsCancelled ==
    ASSUME Frozen = {}, Legacy = {}, TypeOK, CopyKnows, Next,
           NEW k \in Check, disk[k].status = "cancelled", disk'[k].status = "active"
    PROVE  posts'[k] > posts[k]
<1>1. disk \in [Check -> Row] /\ posts \in [Check -> Nat]
  BY DEF TypeOK
<1>2. ASSUME disk' \in {disk, snap}, pc = "fire" \/ disk' = disk
      PROVE  FALSE
  BY <1>2 DEF CopyKnows
<1>3. ASSUME NEW c \in Check, Arm(c) \/ ArmAfterPeer(c) \/ Reset(c) \/ Serve(c)
      PROVE  posts'[k] > posts[k]
  <2>1. k = c
    BY <1>3, HandlersStatus
  <2>2. posts' = [posts EXCEPT ![c] = @ + 1]
    BY <1>3 DEF Arm, ArmAfterPeer, Reset, Serve, Post
  <2>3. QED
    BY <1>1, <2>1, <2>2
<1>4. ASSUME NEW c \in Check, ArmRefused(c) \/ Expire(c)
      PROVE  FALSE
  BY <1>4, HandlersStatus
<1>5. ASSUME NEW S \in SUBSET Check, Cancel(S)
      PROVE  FALSE
  BY <1>5, HandlersStatus
<1>6. ASSUME NEW c \in Check, LoseEcho(c) \/ PaneChanges(c)
      PROVE  FALSE
  BY <1>6 DEF LoseEcho, PaneChanges
<1>7. CASE BeginFire \/ EndFire \/ StepThrows
  BY <1>2, <1>7 DEF BeginFire, EndFire, StepThrows
<1>8. CASE Crash \/ Restart
  BY <1>1, <1>8, StatusUpdates DEF Crash, Restart
<1>9. ASSUME NEW c \in Check, Fire(c)
      PROVE  FALSE
  <2>1. disk' \in {disk, snap} /\ pc = "fire"
    BY <1>9, LegacyNone, FireShape DEF Turn
  <2>2. QED
    BY <1>2, <2>1
<1>10. QED
  BY <1>3, <1>4, <1>5, <1>6, <1>7, <1>8, <1>9 DEF Next, Tick, Http

(* What was cancelled, by an agent or by its own firing, stays cancelled    *)
(* until it is armed again: the copy a tick writes back never undoes it, as *)
(* long as no older file is imported and no legacy row is left.             *)
THEOREM CheckbackCancelSticks ==
    ASSUME Frozen = {}, Legacy = {}
    PROVE  Spec => CancelSticks
<1>1. Init => TypeOK /\ Accounts /\ CopyKnows
  BY InitType, InitAccounts DEF Init, CopyKnows
<1>2. TypeOK /\ Accounts /\ CopyKnows /\ [Next]_vars => (TypeOK /\ Accounts /\ CopyKnows)'
  BY NextType, NextAccounts, NextCopyKnows
<1>3. TypeOK /\ CopyKnows /\ [Next]_vars
        => [\A c \in Check : disk[c].status = "cancelled" /\ disk'[c].status = "active"
                                => posts'[c] > posts[c]]_vars
  BY NextKeepsCancelled
<1>4. QED
  BY <1>1, <1>2, <1>3, PTL DEF Spec, CancelSticks
=============================================================================
