------------------------------ MODULE PaneOps ------------------------------
(***************************************************************************)
(* Pane operations: launching, switching and re-arranging the agents'      *)
(* panes.  A command posts the operation to the daemon, which keeps a row  *)
(* for it in PANE_OPS.jsonl and runs one row after the other.  An          *)
(* operation is synchronous and takes seconds to minutes, and the daemon   *)
(* answers nobody meanwhile: the command that posted gives up after eight  *)
(* seconds and runs the operation itself, the next command takes the       *)
(* daemon for wedged and kills it, and so does an operation that calls     *)
(* the daemon.  A supervisor starts it again, or a second one beside it.   *)
(***************************************************************************)
EXTENDS Naturals, FiniteSets

CONSTANTS
    Op,           \* pane operations, each posted by a command of its own
    Urgent,       \* kind secretary-restart
    Probing,      \* kinds that come to call ensureMeshInbox themselves
    None,
    Chain,        \* rows one POST drains at most, 12 in the code
    MaxFaults,    \* bound on deaths of the daemon and on failed writes
    MaxDups       \* bound on daemons started beside one that is busy

ASSUME OpAssumption == Urgent \subseteq Op /\ Probing \subseteq Op /\ None \notin Op
ASSUME BoundAssumption == Chain \in Nat \ {0} /\ MaxFaults \in Nat /\ MaxDups \in Nat

VARIABLES
    row,       \* PANE_OPS.jsonl
    appended,  \* history: rows appended so far
    daemon,    \* what the daemon that owns the port is doing
    cur,       \* row it executes
    left,      \* rows the drain under way may still take
    serving,   \* operation whose POST the drain belongs to
    blocked,   \* paneOpBusy, left set by a step that threw
    client,    \* the command that posts an operation
    inbox,     \* POSTs on the daemon's socket that it has not read
    boot,      \* a daemon that is starting: what it has done
    stale,     \* rows it found running
    copy,      \* the file as it read it
    ran,       \* history: how often a daemon began an operation
    faults, dups  \* history

server == <<daemon, cur, left, serving, blocked>>
starting == <<boot, stale, copy>>
history == <<appended, ran, faults, dups>>
vars == <<row, server, client, inbox, starting, history>>

Status == {"none", "pending", "running", "done", "failed"}
Row == [status : Status, at : Nat]
NoRow == [status |-> "none", at |-> 0]

TypeOK ==
    /\ row \in [Op -> Row] /\ copy \in [Op -> Row]
    /\ daemon \in {"down", "idle", "drain", "run"}
    /\ cur \in Op \cup {None} /\ serving \in Op \cup {None}
    /\ left \in 0 .. Chain /\ blocked \in BOOLEAN
    /\ client \in [Op -> {"new", "ensured", "sent", "local", "over"}]
    /\ inbox \subseteq Op
    /\ boot \in {"none", "found", "read", "bind"} /\ stale \subseteq Op
    /\ ran \in [Op -> Nat]
    /\ appended \in Nat /\ faults \in Nat /\ dups \in Nat

Init ==
    /\ row = [o \in Op |-> NoRow] /\ copy = row
    /\ daemon = "idle" /\ cur = None /\ left = 0 /\ serving = None
    /\ blocked = FALSE /\ client = [o \in Op |-> "new"] /\ inbox = {}
    /\ boot = "none" /\ stale = {}
    /\ ran = [o \in Op |-> 0] /\ appended = 0 /\ faults = 0 /\ dups = 0

In(rows, s) == {o \in Op : rows[o].status = s}
Pending == In(row, "pending")
Running == In(row, "running")
Marked(rows, S, s) == [o \in Op |-> IF o \in S THEN [rows[o] EXCEPT !.status = s] ELSE rows[o]]

---------------------------------------------------------------------------
(* Commands                                                                *)

(* The daemon is gone: whoever waits for an answer has a reset connection, *)
(* takes the queue for unavailable and runs the operation itself.          *)
Hung(st) == [o \in Op |-> IF st[o] = "sent" THEN "local" ELSE st[o]]
Gone(st) ==
    /\ daemon' = "down" /\ cur' = None /\ left' = 0 /\ serving' = None
    /\ blocked' = FALSE /\ inbox' = {} /\ client' = Hung(st)
    /\ UNCHANGED <<row, starting>>

(* A daemon that is executing misses the two seconds of /health, and its   *)
(* port is open.                                                           *)
LooksWedged == daemon = "run"

(* submitPaneOp, first call: ensureMeshInbox.                              *)
Ensure(o) ==
    LET st == [client EXCEPT ![o] = "ensured"] IN
    /\ client[o] = "new" /\ daemon # "drain"
    /\ \/ LooksWedged /\ Gone(st)
       \/ ~LooksWedged /\ client' = st /\ UNCHANGED <<row, server, inbox, starting>>
    /\ UNCHANGED history

(* submitPaneOp, second call: postPaneOp.                                  *)
Post(o) ==
    /\ client[o] = "ensured"
    /\ client' = [client EXCEPT ![o] = IF daemon = "down" THEN "local" ELSE "sent"]
    /\ inbox' = IF daemon = "down" THEN inbox ELSE inbox \cup {o}
    /\ UNCHANGED <<row, server, starting, history>>

(* curl gives up after eight seconds.                                      *)
GiveUp(o) ==
    /\ client[o] = "sent" /\ daemon = "run"
    /\ client' = [client EXCEPT ![o] = "local"]
    /\ UNCHANGED <<row, server, inbox, starting, history>>

(* The command has run the operation, and called ensureMeshInbox if the    *)
(* operation is of that kind.                                              *)
LocalRun(o) ==
    LET st == [client EXCEPT ![o] = "over"] IN
    /\ client[o] = "local"
    /\ \/ o \in Probing /\ LooksWedged /\ Gone(st)
       \/ (o \notin Probing \/ ~LooksWedged) /\ client' = st
          /\ UNCHANGED <<row, server, inbox, starting>>
    /\ UNCHANGED history

---------------------------------------------------------------------------
(* The daemon                                                              *)

(* POST /pane-ops: a row, then a drain of up to Chain rows.                *)
Enqueue(o) ==
    /\ daemon = "idle" /\ o \in inbox
    /\ inbox' = inbox \ {o}
    /\ row' = [row EXCEPT ![o] = [status |-> "pending", at |-> appended + 1]]
    /\ appended' = appended + 1
    /\ daemon' = "drain" /\ left' = Chain /\ serving' = o
    /\ UNCHANGED <<cur, blocked, client, starting, ran, faults, dups>>

(* Mutated form, used by a mutant of PROJECT.json only: the tick looks for *)
(* pending rows before it fails the old ones.                              *)
TickWhenPending ==
    /\ daemon = "idle" /\ ~blocked /\ Pending # {}
    /\ daemon' = "drain" /\ left' = 1 /\ serving' = None
    /\ UNCHANGED <<row, cur, blocked, client, inbox, starting, history>>

(* The pane-ops-drain step of a tick: one row.                             *)
Tick ==
    /\ daemon = "idle" /\ ~blocked /\ Pending \cup Running # {}
    /\ daemon' = "drain" /\ left' = 1 /\ serving' = None
    /\ UNCHANGED <<row, cur, blocked, client, inbox, starting, history>>

(* The row drainPaneOpsOnce picks.                                         *)
Turn(o) ==
    LET class == IF Pending \cap Urgent # {} THEN Urgent ELSE Op
    IN  o \in Pending \cap class
        /\ \A q \in Pending \cap class : row[o].at <= row[q].at

(* Mutated form: the row is counted twice, when taken and when finished.   *)
TakeAndCount(old) ==
    /\ daemon = "drain" /\ ~blocked /\ left > 0 /\ old \subseteq Running
    /\ \E o \in Op :
        /\ Turn(o)
        /\ row' = Marked(Marked(row, old, "failed"), {o}, "running")
        /\ cur' = o /\ ran' = [ran EXCEPT ![o] = @ + 1]
    /\ daemon' = "run" /\ left' = left - 1
    /\ UNCHANGED <<serving, blocked, client, inbox, starting, appended, faults, dups>>

(* drainPaneOpsOnce up to executePaneOp: rows that were running and are    *)
(* old fail first.                                                         *)
Take(old) ==
    /\ daemon = "drain" /\ ~blocked /\ left > 0 /\ old \subseteq Running
    /\ \E o \in Op :
        /\ Turn(o)
        /\ row' = Marked(Marked(row, old, "failed"), {o}, "running")
        /\ cur' = o /\ ran' = [ran EXCEPT ![o] = @ + 1]
    /\ daemon' = "run"
    /\ UNCHANGED <<left, serving, blocked, client, inbox, starting, appended, faults, dups>>

(* Nothing to take: the drain ends, and the POST it belongs to is answered.*)
Rest(old) ==
    /\ daemon = "drain" /\ (left = 0 \/ blocked \/ Pending = {})
    /\ old \subseteq (IF left = 0 \/ blocked THEN {} ELSE Running)
    /\ row' = Marked(row, old, "failed")
    /\ client' = [o \in Op |->
         IF o = serving /\ client[o] = "sent" THEN "over" ELSE client[o]]
    /\ daemon' = "idle" /\ left' = 0 /\ serving' = None
    /\ UNCHANGED <<cur, blocked, inbox, starting, history>>

(* The POST the drain belongs to gets an error for an answer.              *)
Refused == [o \in Op |-> IF o = serving /\ client[o] = "sent" THEN "local" ELSE client[o]]

(* The rest of drainPaneOpsOnce.  A row that is no longer in the file is   *)
(* not written back.                                                       *)
Outcomes == IF cur \in Probing THEN {"failed"} ELSE {"done", "failed"}
Finish ==
    /\ daemon = "run"
    /\ \E s \in Outcomes : row' = Marked(row, {cur} \ In(row, "none"), s)
    /\ cur' = None /\ daemon' = "drain" /\ left' = left - 1
    /\ UNCHANGED <<serving, blocked, client, inbox, starting, history>>

(* ensureMeshInbox called by the operation: the daemon asks itself for     *)
(* /health, hears nothing, and kills the process that holds its port.      *)
KillSelf ==
    /\ daemon = "run" /\ cur \in Probing
    /\ Gone(client) /\ UNCHANGED history

(* A write before the operation fails: of an old row, or, with paneOpBusy   *)
(* set, of the row that was to run, which stays pending.                    *)
TakeFails(old) ==
    /\ daemon = "drain" /\ ~blocked /\ left > 0 /\ old \subseteq Running
    /\ faults < MaxFaults
    /\ faults' = faults + 1
    /\ \/ old # Running /\ blocked' = FALSE
       \/ Pending # {} /\ blocked' = TRUE
    /\ row' = Marked(row, old, "failed")
    /\ client' = Refused
    /\ daemon' = "idle" /\ left' = 0 /\ serving' = None
    /\ UNCHANGED <<cur, inbox, starting, appended, ran, dups>>

(* A write after the operation fails: the exception leaves paneOpBusy set. *)
Throws ==
    /\ daemon = "run" /\ faults < MaxFaults
    /\ faults' = faults + 1
    /\ daemon' = "idle" /\ cur' = None /\ left' = 0 /\ serving' = None /\ blocked' = TRUE
    /\ client' = Refused
    /\ UNCHANGED <<row, inbox, starting, appended, ran, dups>>

(* POST /pane-ops/clear.                                                   *)
Clear ==
    /\ daemon = "idle" /\ Pending \cup Running # {}
    /\ row' = [o \in Op |-> IF o \in Pending \cup Running THEN NoRow ELSE row[o]]
    /\ UNCHANGED <<server, client, inbox, starting, history>>

Crash ==
    /\ daemon # "down" /\ faults < MaxFaults
    /\ faults' = faults + 1
    /\ Gone(client) /\ UNCHANGED <<appended, ran, dups>>

---------------------------------------------------------------------------
(* A daemon that starts: reclaimStaleRunningPaneOps with no minimum age,   *)
(* then the port.  The supervisor starts one when there is none, and also  *)
(* when the one there is does not answer.                                  *)

Start ==
    /\ boot = "none"
    /\ \/ daemon = "down" /\ dups' = dups
       \/ daemon = "run" /\ dups < MaxDups /\ dups' = dups + 1
    /\ boot' = "found" /\ stale' = Running
    /\ UNCHANGED <<row, server, client, inbox, copy, appended, ran, faults>>

(* updatePaneOp, reading: only if one of the rows is still there.          *)
BootRead ==
    /\ boot = "found"
    /\ IF stale \subseteq In(row, "none")
       THEN boot' = "bind" /\ UNCHANGED copy
       ELSE boot' = "read" /\ copy' = row
    /\ UNCHANGED <<row, server, client, inbox, stale, history>>

(* Mutated form: the rows found running go back to the queue.              *)
BootRequeues ==
    /\ boot = "read" /\ boot' = "bind"
    /\ row' = Marked(copy, stale \ In(copy, "none"), "pending")
    /\ copy' = [o \in Op |-> NoRow]
    /\ UNCHANGED <<server, client, inbox, stale, history>>

(* updatePaneOp, writing the file as it was read.                          *)
BootWrite ==
    /\ boot = "read" /\ boot' = "bind"
    /\ row' = Marked(copy, stale \ In(copy, "none"), "failed")
    /\ copy' = [o \in Op |-> NoRow]
    /\ UNCHANGED <<server, client, inbox, stale, history>>

(* listen: with the port in use the process exits.                         *)
Bind ==
    /\ boot = "bind" /\ boot' = "none" /\ stale' = {}
    /\ daemon' = IF daemon = "down" THEN "idle" ELSE daemon
    /\ UNCHANGED <<row, cur, left, serving, blocked, client, inbox, copy, history>>

---------------------------------------------------------------------------
Command(o) == Ensure(o) \/ Post(o) \/ GiveUp(o) \/ LocalRun(o) \/ Enqueue(o)
Drain ==
    \/ Tick \/ Finish \/ Throws \/ KillSelf
    \/ \E old \in SUBSET Op : Take(old) \/ Rest(old) \/ TakeFails(old)
Boot == Start \/ BootRead \/ BootWrite \/ Bind
Next == (\E o \in Op : Command(o)) \/ Drain \/ Boot \/ Clear \/ Crash
Spec == Init /\ [][Next]_vars

(* An operation ends, a tick comes, a supervisor that finds no daemon      *)
(* starts one, and a row that is old enough to fail stays old enough.       *)
FairSpec ==
    /\ Spec
    /\ WF_vars(daemon = "down" /\ Start) /\ WF_vars(BootRead \/ BootWrite \/ Bind)
    /\ WF_vars(Tick) /\ WF_vars(Finish \/ KillSelf)
    /\ WF_vars(\E old \in SUBSET Op : Take(old) \/ Rest(old))
    /\ SF_vars(Take(Running)) /\ SF_vars(Rest(Running))

---------------------------------------------------------------------------
(* Properties                                                              *)

(* The daemon begins an operation once; a daemon that starts beside it and  *)
(* writes back the file it read can bring a row back, once each.            *)
RunsOncePerRace == \A o \in Op : ran[o] <= 1 + dups

(* No row waits or runs for ever, whatever dies and whoever overwrites the  *)
(* file, as long as no failed write leaves paneOpBusy set.                  *)
OpsSettle ==
    \A o \in Op : o \in Pending \cup Running ~> o \notin Pending \cup Running \/ blocked

---------------------------------------------------------------------------
(* What a command is promised: the queue implements JobContract.           *)

(* An operation that is not in the file yet.                               *)
Unposted(o) == client[o] \in {"new", "ensured"} \/ o \in inbox

(* A row that is gone again was cleared, or its POST came to nothing.      *)
StageOf == [none |-> "over", pending |-> "waiting", running |-> "running",
            done |-> "over", failed |-> "over"]

OpStage == [o \in Op |-> IF Unposted(o) THEN "none" ELSE StageOf[row[o].status]]

Jobs == INSTANCE JobContract WITH Job <- Op, stage <- OpStage, begun <- ran, slips <- dups

(* An operation waits, is executed by a daemon and is over, each once and  *)
(* for good, whatever dies; only a daemon that starts beside a live one     *)
(* and writes back the file it read can bring a row back, once each.       *)
KeepsJobContract == Jobs!Spec

---------------------------------------------------------------------------
(* The inductive invariant behind the theorems of PaneOpsProofs.           *)

(* A drain that executes still has a row to its account.                   *)
RunsInDrain == daemon = "run" => left > 0

(* An operation that is not in the file yet has left no trace.             *)
NoTrace ==
    \A o \in Op : Unposted(o) =>
        /\ row[o].status = "none" /\ copy[o].status = "none" /\ ran[o] = 0
        /\ client[o] \in {"new", "ensured"} => o \notin inbox

(* A daemon starts beside a live one only by using up a race, and until it  *)
(* has written the file that race is unspent for every row; one that starts *)
(* alone writes back the rows that are there.                              *)
Waits(o) == IF row[o].status = "pending" THEN 1 ELSE 0
Racing == boot \in {"found", "read"}
Races ==
    /\ Racing /\ daemon # "down" => dups > 0
    /\ \A o \in Op :
        /\ ran[o] + Waits(o) <= 1 + dups
        /\ Racing => \/ ran[o] + Waits(o) <= dups
                     \/ daemon = "down" /\ (boot = "read" => copy[o] = row[o])

(* As long as no daemon was started beside another, the file a starting one *)
(* read is the file it overwrites.                                         *)
Alone == boot = "read" /\ dups = 0 => copy = row

---------------------------------------------------------------------------
(* What a comment says and the code does not do.                           *)

(* tmux/src/ops/pane-ops-client.ts: "Daemon runs one at a time.  Falls back *)
(* to immediate local run when inbox is down".  A command runs its          *)
(* operation itself only when no daemon is running it.                      *)
NotBothAtOnce == \A o \in Op : client[o] = "local" => cur # o
=============================================================================
