------------------------------ MODULE Checkback ------------------------------
(***************************************************************************)
(* Check-backs: timers that make the daemon remind a pane to look after     *)
(* something.  Each tick reads the store once, fires the rows that are due  *)
(* on that copy, and writes the whole copy back at the end.  HTTP handlers  *)
(* never run in between, but what a firing does can write the store itself, *)
(* an exception or a death drops the copy, and what a firing posts to the   *)
(* daemon's own port is served only after the tick.                         *)
(***************************************************************************)
EXTENDS Naturals, FiniteSets

CONSTANTS
    Check,        \* ids of check-backs
    KeyOf,        \* the pane and the expectation a check-back is about
    Supervise,    \* kind secretary-supervise ...
    Lead,         \* ... balance-lead-tick ...
    Watch,        \* ... mesh-watch ...
    Nudge,        \* ... coord-nudge and other x-nudges but manager-nudge ...
    Retired,      \* ... manager-nudge, which only cancels itself ...
    Coord,        \* ... coord-expect ...
    Retry,        \* ... cc-limit-retry ...
    Legacy,       \* ... supervise-status, which fires like the plain kinds
    Roleless,     \* nudges that name no recipient, on a pane without a role
    Renewing,     \* armed with a renewSec
    Follow,       \* the check-back that the re-assignment of a Coord one arms
    Frozen,       \* active in a CHECKBACK.jsonl the SQLite store was filled from
    Panes,        \* what the owner panes can be
    Budget,       \* CHECKBACK_FIRE_BUDGET
    MaxFires,     \* CHECKBACK_MAX_FIRES
    MaxPosts,     \* bound on POSTs of agents
    MaxServed,    \* bound on POSTs of the daemon to itself
    MaxFaults     \* bound on crashes and exceptions

Unbounded == Supervise \cup Lead \cup Watch \cup Nudge
OneShot == Check \ (Unbounded \cup Coord \cup Retired)

ASSUME KindAssumption ==
    /\ UNION {Unbounded, Retired, Coord, Retry, Legacy, Renewing, Frozen} \subseteq Check
    /\ Roleless \subseteq Nudge
    /\ Coord \cap Unbounded = {} /\ Retired \cap (Unbounded \cup Coord) = {}
    /\ Retry \cap (Unbounded \cup Coord \cup Retired) = {}
    /\ Follow \in [Coord -> Coord]

(* gated: rate limit, proxy-down, overload or a pane waiting for its cold   *)
(* start; busy: deliverToPane refuses; foreign: no longer of this mesh.     *)
PaneStates == {"ready", "busy", "gated", "gone", "foreign"}

ASSUME BoundAssumption ==
    /\ Panes \subseteq PaneStates
    /\ {Budget, MaxFires} \subseteq Nat \ {0}
    /\ {MaxPosts, MaxServed, MaxFaults} \subseteq Nat

VARIABLES
    disk,       \* the store
    snap,       \* fireDueCheckbacks: the copy it works on
    todo,       \* fireDueCheckbacks: due rows still to be fired in this tick
    pc,         \* "fire" during the step, "idle" otherwise
    pane,       \* what becomes of mail to the owner pane of a check-back
    echo,       \* POSTs of the daemon to itself, not served yet
    shown,      \* history: reminders put before a pane, per bounded check-back
    posts,      \* history: how often each check-back was armed
    asked,      \* history: POSTs of agents
    served,     \* history: POSTs of the daemon to itself that were served
    faults      \* history: crashes and exceptions

fire == <<snap, todo, pc>>
history == <<shown, posts, asked, served, faults>>
vars == <<disk, fire, pane, echo, history>>

Row == [status : {"none", "active", "cancelled"}, due : BOOLEAN, fires : Nat]
Blank == [status |-> "none", due |-> FALSE, fires |-> 0]
Armed == [status |-> "active", due |-> FALSE, fires |-> 0]

TypeOK ==
    /\ disk \in [Check -> Row] /\ snap \in [Check -> Row]
    /\ todo \subseteq Check
    /\ pc \in {"idle", "fire"}
    /\ pane \in [Check -> PaneStates]
    /\ echo \subseteq Coord
    /\ shown \in [Check -> Nat] /\ posts \in [Check -> Nat]
    /\ {asked, served, faults} \subseteq Nat

Init ==
    /\ disk = [c \in Check |-> Blank]
    /\ snap = disk
    /\ todo = {}
    /\ pc = "idle"
    /\ pane = [c \in Check |-> "ready"]
    /\ echo = {}
    /\ shown = [c \in Check |-> 0] /\ posts = shown
    /\ asked = 0 /\ served = 0 /\ faults = 0

-----------------------------------------------------------------------------
(* The HTTP interface: POST /patience and its sub-paths.  A handler runs    *)
(* between two steps of the tick, never inside one.                         *)

(* Mutated form: handlers that run while the tick awaits something.         *)
AnyTime == TRUE

Quiet == pc = "idle"

Active(rows) == {c \in Check : rows[c].status = "active"}
Due(rows) == {c \in Active(rows) : rows[c].due}

CancelIn(rows, S) ==
    [c \in Check |-> IF c \in S \cap Active(rows) THEN [rows[c] EXCEPT !.status = "cancelled"]
                     ELSE rows[c]]

SameKey(c) == {k \in Check : KeyOf[k] = KeyOf[c]}

Post(c) ==
    /\ asked < MaxPosts
    /\ asked' = asked + 1
    /\ posts' = [posts EXCEPT ![c] = @ + 1]
    /\ UNCHANGED <<fire, pane, echo, shown, served, faults>>

(* What is armed for the same pane and expectation is cancelled first ...   *)
Arm(c) ==
    /\ Quiet
    /\ pane[c] # "foreign"
    /\ Post(c)
    /\ disk' = [CancelIn(disk, SameKey(c)) EXCEPT ![c] = Armed]

(* ... also when the pane turns out to be another mesh's and nothing is     *)
(* armed.                                                                   *)
ArmRefused(c) ==
    /\ Quiet
    /\ pane[c] = "foreign"
    /\ disk' = CancelIn(disk, SameKey(c))
    /\ UNCHANGED <<fire, pane, echo, history>>

(* armRecipientCheckbackAfterPeer: unless one is armed and not yet due.     *)
ArmAfterPeer(c) ==
    /\ Quiet
    /\ c \in OneShot /\ c \notin Active(disk)
    /\ SameKey(c) \cap Active(disk) \subseteq Due(disk)
    /\ Post(c)
    /\ disk' = [disk EXCEPT ![c] = Armed]

(* By id, by a prefix that several ids share, or all.                       *)
Cancel(S) ==
    /\ Quiet
    /\ S # {}
    /\ disk' = CancelIn(disk, S)
    /\ UNCHANGED <<fire, pane, echo, history>>

Reset(c) ==
    /\ Quiet
    /\ disk[c].status # "none"
    /\ Post(c)
    /\ disk' = [disk EXCEPT ![c].status = "active", ![c].due = FALSE]

(* The daemon's own POST, made from inside a tick: curl has given up on it  *)
(* and the request is read afterwards, or never.                            *)
Serve(c) ==
    /\ Quiet
    /\ c \in echo
    /\ served < MaxServed
    /\ served' = served + 1
    /\ echo' = echo \ {c}
    /\ posts' = [posts EXCEPT ![c] = @ + 1]
    /\ disk' = [CancelIn(disk, SameKey(c)) EXCEPT ![c] = Armed]
    /\ UNCHANGED <<fire, pane, shown, asked, faults>>

LoseEcho(c) ==
    /\ c \in echo
    /\ echo' = echo \ {c}
    /\ UNCHANGED <<disk, fire, pane, history>>

-----------------------------------------------------------------------------
(* fireDueCheckbacks                                                        *)

(* Mutated form: no lane of its own for the supervise tick.                 *)
FlatPriority(c) == 10

Priority(c) == CASE c \in Supervise              -> 0
                 [] c \in Lead                   -> 1
                 [] c \in Coord \cup Retry \cup Watch -> 2
                 [] c \in Nudge                  -> 3
                 [] OTHER                        -> 10

Before(S, T) == \A c \in S, k \in T : Priority(c) <= Priority(k)

(* The first Budget due rows, by priority; expiry orders the rest.          *)
Taken(due, S) ==
    /\ S \subseteq due
    /\ Before(S, due \ S)
    /\ IF Cardinality(due) <= Budget THEN S = due ELSE Cardinality(S) = Budget

BeginFire ==
    /\ Quiet
    /\ pc' = "fire"
    /\ snap' = disk
    /\ \E S \in SUBSET Due(disk) : Taken(Due(disk), S) /\ todo' = S
    /\ UNCHANGED <<disk, pane, echo, history>>

(* Mutated forms: a fired row that is only pushed back, or closed under a   *)
(* status no one reads.                                                     *)
PushedBack(c) == [snap EXCEPT ![c].due = FALSE]
ClosedAsDone(c) == [snap EXCEPT ![c].status = "done"]

Closed(c) == [snap EXCEPT ![c].status = "cancelled"]
Deferred(c) == [snap EXCEPT ![c].due = FALSE]
Renewed(c) == [snap EXCEPT ![c].due = FALSE,
                           ![c].fires = IF c \in Unbounded THEN @ ELSE @ + 1]

(* shouldRenewCheckback, after a fire: the check-backs of campaigns renew   *)
(* for ever, others until they have fired too often or live too long.       *)
Finished(c) ==
    IF c \notin Renewing THEN {Closed(c)}
    ELSE IF c \in Unbounded THEN {Renewed(c)}
    ELSE IF snap[c].fires + 1 >= MaxFires THEN {Closed(c)}
    ELSE {Renewed(c), Closed(c)}

(* One row of the tick; a row that follows its owner to another pane is     *)
(* saved with the copy as it stands.                                        *)
Turn(c) ==
    /\ pc = "fire"
    /\ c \in todo
    /\ Before({c}, todo)
    /\ todo' = todo \ {c}
    /\ UNCHANGED <<pc, pane, posts, asked, served, faults>>

Saved == disk' \in {disk, snap}
Showing(c) == shown' = [shown EXCEPT ![c] = IF c \in Unbounded THEN @ ELSE @ + 1]
Silent == UNCHANGED <<echo, shown>>

Unreachable(c) ==
    /\ Turn(c)
    /\ \/ pane[c] = "gone" /\ UNCHANGED disk
       \/ pane[c] = "gated" /\ c \notin Retired /\ Saved
    /\ snap' = Deferred(c)
    /\ Silent

Orphaned(c) ==
    /\ Turn(c)
    /\ pane[c] = "foreign"
    /\ snap' = Closed(c)
    /\ UNCHANGED disk /\ Silent

Reached(c) == Turn(c) /\ pane[c] \in {"ready", "busy"}

FireRetired(c) ==
    /\ Turn(c)
    /\ c \in Retired /\ pane[c] \notin {"gone", "foreign"}
    /\ snap' = Closed(c)
    /\ Saved /\ Silent

(* The campaign is over, or its digest is sent and renewed, landed or not.  *)
FireWatch(c) ==
    /\ Reached(c)
    /\ c \in Watch
    /\ snap' \in {Closed(c)} \cup Finished(c)
    /\ Saved /\ Silent

(* Without a recipient the row is left as it is, due; a lead with no open   *)
(* task or at work is left alone until the next round.                      *)
FireNudge(c) ==
    /\ Reached(c)
    /\ c \in Nudge
    /\ IF c \in Roleless THEN snap' = snap
       ELSE snap' \in {Deferred(c)} \cup Finished(c)
    /\ Saved /\ Silent

(* cancelSuperviseStatusCheckbacks cancels the legacy rows in the store,    *)
(* not in the copy.                                                         *)
FireTick(c) ==
    /\ Reached(c)
    /\ c \in Supervise \cup Lead
    /\ snap' \in {Deferred(c)} \cup Finished(c)
    /\ IF c \in Supervise THEN \E d \in {disk, snap} : disk' = CancelIn(d, Legacy)
       ELSE Saved
    /\ Silent

FireRetry(c) ==
    /\ Reached(c)
    /\ c \in Retry
    /\ \/ snap' = Closed(c) /\ UNCHANGED shown
       \/ pane[c] = "busy" /\ snap' = Deferred(c) /\ UNCHANGED shown
       \/ pane[c] = "ready" /\ snap' = Closed(c) /\ Showing(c)
    /\ Saved /\ UNCHANGED echo

(* handleCoordExpectDue: met, or assigned once more, which POSTs a          *)
(* check-back of its own.  A refused reminder is deferred and then renewed  *)
(* all the same.                                                            *)
FireCoord(c) ==
    /\ Reached(c)
    /\ c \in Coord
    /\ \/ snap' = Closed(c) /\ Silent
       \/ /\ echo' \in {echo, echo \cup {Follow[c]}}
          /\ \/ pane[c] = "ready" /\ snap' = Closed(c) /\ Showing(c)
             \/ pane[c] = "busy" /\ snap' \in Finished(c) /\ UNCHANGED shown
    /\ Saved

(* room-call, room-comms, peer and plain check-backs: "never renew".        *)
FirePlain(c) ==
    /\ Reached(c)
    /\ c \in OneShot \ Retry
    /\ \/ pane[c] = "busy" /\ snap' = Deferred(c) /\ UNCHANGED shown
       \/ pane[c] = "ready" /\ snap' = Closed(c) /\ Showing(c)
    /\ Saved /\ UNCHANGED echo

EndFire ==
    /\ pc = "fire"
    /\ todo = {}
    /\ pc' = "idle"
    /\ disk' = snap
    /\ snap' = [c \in Check |-> Blank]
    /\ UNCHANGED <<todo, pane, echo, history>>

-----------------------------------------------------------------------------
(* Failures, restarts and time.                                             *)

DropCopy ==
    /\ pc' = "idle"
    /\ todo' = {}
    /\ snap' = [c \in Check |-> Blank]

Fault ==
    /\ pc = "fire"
    /\ faults < MaxFaults
    /\ faults' = faults + 1
    /\ DropCopy
    /\ UNCHANGED <<pane, echo, shown, posts, asked, served>>

StepThrows == Fault /\ UNCHANGED disk

(* reconcileCheckbacksFromJsonl, at start and for POST /repair: the rows of *)
(* the old file are armed again, as they were then, unless they are armed.  *)
Imported(rows) ==
    [c \in Check |-> IF c \in Frozen \ Active(rows)
                     THEN [status |-> "active", due |-> TRUE, fires |-> 0] ELSE rows[c]]

Crash == Fault /\ disk' = Imported(disk)

Restart ==
    /\ Quiet
    /\ disk' = Imported(disk)
    /\ UNCHANGED <<fire, pane, echo, history>>

(* The tick takes the time once, at its start, so that nothing falls due    *)
(* inside it.                                                               *)
Expire(c) ==
    /\ Quiet
    /\ c \in Active(disk) \ Due(disk)
    /\ disk' = [disk EXCEPT ![c].due = TRUE]
    /\ UNCHANGED <<fire, pane, echo, history>>

PaneChanges(c) ==
    /\ \E p \in Panes : pane' = [pane EXCEPT ![c] = p]
    /\ UNCHANGED <<disk, fire, echo, history>>

-----------------------------------------------------------------------------
Fire(c) ==
    \/ Unreachable(c) \/ Orphaned(c) \/ FireRetired(c) \/ FireWatch(c) \/ FireNudge(c)
    \/ FireTick(c) \/ FireRetry(c) \/ FireCoord(c) \/ FirePlain(c)

Tick == BeginFire \/ EndFire \/ \E c \in Check : Fire(c)

Http ==
    \/ \E c \in Check : \/ Arm(c) \/ ArmRefused(c) \/ ArmAfterPeer(c)
                        \/ Reset(c) \/ Serve(c) \/ LoseEcho(c)
    \/ \E S \in SUBSET Check : Cancel(S)

Next == Tick \/ Http \/ StepThrows \/ Crash \/ Restart \/ \E c \in Check : Expire(c) \/ PaneChanges(c)

Spec == Init /\ [][Next]_vars

(* The poll timer runs the tick for ever.  An expiry is an instant of the   *)
(* clock, which comes whatever the tick does and is seen by the next one:   *)
(* strong fairness, since Expire waits for the gaps between ticks.          *)
FairSpec == Spec /\ WF_vars(Tick) /\ \A c \in Check : SF_vars(Expire(c))
-----------------------------------------------------------------------------
(* Properties.                                                              *)

(* A one-shot check-back is shown once each time it is armed, and once more *)
(* for every tick that failed after showing it.                             *)
ShownOncePerPost == \A c \in OneShot : shown[c] <= posts[c] + faults

(* What was cancelled stays cancelled until someone arms it: no tick writes *)
(* back an older copy over a cancellation.                                  *)
CancelSticks ==
    [][\A c \in Check : disk[c].status = "cancelled" /\ disk'[c].status = "active"
                            => posts'[c] > posts[c]]_vars

(* A check-back that can renew only so often is closed in the end, when its *)
(* pane stays within reach: none stays armed for ever.                      *)
AllReady == \A c \in Check : pane[c] = "ready"

ChecksSettle ==
    <>[]AllReady => \A c \in Check \ Unbounded : c \in Active(disk) ~> c \notin Active(disk)

(* The supervise tick comes first whatever else is due: it is not starved.  *)
SuperviseRuns == \A c \in Supervise : c \in Due(disk) ~> c \notin Due(disk)

-----------------------------------------------------------------------------
(* The inductive invariants behind the theorems of CheckbackProofs.         *)

(* A one-shot check-back that is still armed has a showing left to give; in *)
(* the store, which a tick reads only once, possibly one too many.          *)
Left(rows, c) == IF c \in Active(rows) THEN 1 ELSE 0

Accounts ==
    /\ pc = "idle" => /\ todo = {}
                      /\ \A c \in OneShot : shown[c] + Left(disk, c) <= posts[c] + faults
    /\ pc = "fire" => /\ todo \subseteq Active(snap)
                      /\ \A c \in OneShot :
                            /\ shown[c] + Left(snap, c) <= posts[c] + faults
                            /\ shown[c] + Left(disk, c) <= posts[c] + faults + 1

(* The copy knows of every cancellation in the store.                       *)
CopyKnows ==
    pc = "fire" => \A c \in Check : disk[c].status = "cancelled" => snap[c].status = "cancelled"

=============================================================================
