------------------------------ MODULE TermPool ------------------------------
(* The terminal pool of the inbox daemon: shell jobs that seats queue in    *)
(* TP_JOBS.jsonl, the PTY workers that run them, the result that is mailed  *)
(* back, and the web sockets that attach to a worker.  A crash of the       *)
(* daemon takes the PTYs with it; the file stays.                           *)
EXTENDS Integers, FiniteSets

CONSTANTS
    Job,           \* jobs that may be enqueued, each once
    Workers,       \* size of the pool, which is also tpMaxConcurrent
    Client,        \* sockets that attach
    MaxPoolFaults, \* bound on crashes of the daemon
    NoJob, NoClient

ASSUME PoolAssumption ==
    /\ IsFiniteSet(Job) /\ Workers \in Nat \ {0}
    /\ MaxPoolFaults \in Nat
    /\ NoJob \notin Job /\ NoClient \notin Client

Worker == 1..Workers

VARIABLES
    jobFile,    \* status of each row of the file; "none" when it has no row
    jobOrder,   \* the line of each row
    held,       \* the job of each worker
    attached,   \* the attachWs of each worker
    pty,        \* the process of each job: "ended" has an exit event to come,
                \* "gone" has none, or no daemon is left to hear it
    timedOut,   \* history: jobs whose time was up
    sock,       \* the worker each socket was attached to, and its phase
    starts,     \* history: how often the job was spawned
    reports,    \* history: results mailed to the requester
    poolFaults

pool == <<held, attached, sock>>
jobHistory == <<timedOut, starts, reports>>
tpvars == <<jobFile, jobOrder, pool, pty, jobHistory, poolFaults>>

JobStatus == {"none", "pending", "running", "done", "failed"}

TpTypeOK ==
    /\ jobFile \in [Job -> JobStatus]
    /\ jobOrder \in [Job -> Nat]
    /\ held \in [Worker -> Job \cup {NoJob}]
    /\ attached \in [Worker -> Client \cup {NoClient}]
    /\ pty \in [Job -> {"none", "live", "ended", "gone"}]
    /\ timedOut \subseteq Job
    /\ sock \in [Client -> [at : Worker, phase : {"off", "open", "failed", "closing"}]]
    /\ starts \in [Job -> Nat]
    /\ reports \in [Job -> Nat]
    /\ poolFaults \in 0..MaxPoolFaults

TpInit ==
    /\ jobFile = [j \in Job |-> "none"]
    /\ jobOrder = [j \in Job |-> 0]
    /\ held = [w \in Worker |-> NoJob]
    /\ attached = [w \in Worker |-> NoClient]
    /\ pty = [j \in Job |-> "none"] /\ timedOut = {}
    /\ sock = [c \in Client |-> [at |-> 1, phase |-> "off"]]
    /\ starts = [j \in Job |-> 0]
    /\ reports = [j \in Job |-> 0]
    /\ poolFaults = 0

-----------------------------------------------------------------------------
(* kickTerminalPool: pending rows, in the order of the file, go to idle     *)
(* workers, the lowest first, until every worker has one.  A row whose PTY  *)
(* cannot be spawned is settled and reported at once and takes no worker.   *)
Idle == {w \in Worker : held[w] = NoJob}

Kick(file, order) ==
    \E take \in [Idle -> Job \cup {NoJob}], unfit \in SUBSET Job :
        LET queue == {j \in Job : file[j] = "pending"}
            run == {take[w] : w \in Idle} \ {NoJob}
            full == \A w \in Idle : take[w] # NoJob
        IN  /\ run \subseteq queue /\ unfit \subseteq queue \ run
            /\ \A v, w \in Idle :
                  v < w /\ take[w] # NoJob =>
                      take[v] # NoJob /\ order[take[v]] < order[take[w]]
            /\ \A j \in queue \ (run \cup unfit) :
                  full /\ \A i \in run \cup unfit : order[i] < order[j]
            /\ full => \A i \in unfit : \E j \in run : order[i] < order[j]
            /\ jobFile' = [j \in Job |-> IF j \in run THEN "running"
                                         ELSE IF j \in unfit THEN "failed" ELSE file[j]]
            /\ held' = [w \in Worker |-> IF w \in Idle THEN take[w] ELSE held[w]]
            /\ pty' = [j \in Job |-> IF j \in run THEN "live" ELSE pty[j]]
            /\ starts' = [j \in Job |-> IF j \in run THEN starts[j] + 1 ELSE starts[j]]
            /\ reports' = [j \in Job |-> IF j \in unfit THEN reports[j] + 1 ELSE reports[j]]

(* POST /tp/enqueue appends the row and kicks the pool.                     *)
Enqueue(j) ==
    /\ jobFile[j] = "none"
    /\ LET last == Cardinality({i \in Job : jobFile[i] # "none"})
           order == [jobOrder EXCEPT ![j] = last + 1]
       IN jobOrder' = order /\ Kick([jobFile EXCEPT ![j] = "pending"], order)
    /\ UNCHANGED <<attached, timedOut, sock, poolFaults>>

(* runDrain, on its interval and after every mail.                          *)
DrainPool ==
    /\ Kick(jobFile, jobOrder)
    /\ UNCHANGED <<jobOrder, attached, timedOut, sock, poolFaults>>

-----------------------------------------------------------------------------
(* finalizeJob: the socket is closed, the row settled, the result mailed.   *)
Hangup(w) == IF attached[w] = NoClient THEN sock
             ELSE [sock EXCEPT ![attached[w]].phase = "closing"]

(* Mutated form: the worker keeps its job.                                  *)
NotFreed(w) == held

Freed(w) == [held EXCEPT ![w] = NoJob]

Finalize(w, status) ==
    /\ sock' = Hangup(w)
    /\ attached' = [attached EXCEPT ![w] = NoClient]
    /\ jobFile' = [jobFile EXCEPT ![held[w]] = status]
    /\ reports' = [reports EXCEPT ![held[w]] = @ + 1]
    /\ held' = Freed(w)

(* The process of a job ends by itself.                                     *)
ProcessEnds(j) ==
    /\ pty[j] = "live"
    /\ pty' = [pty EXCEPT ![j] = "ended"]
    /\ UNCHANGED <<jobFile, jobOrder, pool, jobHistory, poolFaults>>

(* Mutated form: whatever the worker holds by then.                         *)
AnyHolder(j) == {w \in Worker : held[w] # NoJob}

Holder(j) == {w \in Worker : held[w] = j}

OnExit(j) ==
    /\ pty[j] = "ended"
    /\ pty' = [pty EXCEPT ![j] = "gone"]
    /\ IF Holder(j) = {} THEN UNCHANGED <<pool, jobFile, reports>>
       ELSE \E w \in Holder(j), status \in {"done", "failed"} : Finalize(w, status)
    /\ UNCHANGED <<jobOrder, timedOut, starts, poolFaults>>

(* TP_DEFAULT_TIMEOUT_MS after the spawn, in whatever order with the end of *)
(* the process and its exit event.  kill only signals: the process may end  *)
(* later, or never, and its worker is free at once.                         *)
OnTimeout(j) ==
    /\ pty[j] \in {"live", "ended"}
    /\ \E w \in Holder(j) : Finalize(w, "failed")
    /\ timedOut' = timedOut \cup {j}
    /\ UNCHANGED <<jobOrder, pty, starts, poolFaults>>

(* POST /tp/cancel settles the row, whatever its status; the process runs   *)
(* on, and its exit settles the row again.                                  *)
Cancel(j) ==
    /\ jobFile[j] # "none"
    /\ jobFile' = [jobFile EXCEPT ![j] = "failed"]
    /\ UNCHANGED <<jobOrder, pool, pty, jobHistory, poolFaults>>

-----------------------------------------------------------------------------
(* /ws/tp.                                                                  *)

Attach(c, w) ==
    /\ sock[c].phase = "off"
    /\ held[w] # NoJob
    /\ attached[w] = NoClient
    /\ attached' = [attached EXCEPT ![w] = c]
    /\ sock' = [sock EXCEPT ![c] = [at |-> w, phase |-> "open"]]
    /\ UNCHANGED <<jobFile, jobOrder, held, pty, jobHistory, poolFaults>>

(* cleanup, for the close and for the error event: it forgets the socket of *)
(* the worker, whichever socket that is by now.                             *)
Cleanup(c) == attached' = [attached EXCEPT ![sock[c].at] = NoClient]

OnSocketError(c) ==
    /\ sock[c].phase = "open"
    /\ Cleanup(c)
    /\ sock' = [sock EXCEPT ![c].phase = "failed"]
    /\ UNCHANGED <<jobFile, jobOrder, held, pty, jobHistory, poolFaults>>

OnSocketClose(c) ==
    /\ sock[c].phase # "off"
    /\ Cleanup(c)
    /\ sock' = [sock EXCEPT ![c].phase = "off"]
    /\ UNCHANGED <<jobFile, jobOrder, held, pty, jobHistory, poolFaults>>

-----------------------------------------------------------------------------
(* The daemon dies and comes back: nothing repairs a row that was running.  *)
AfterCrash(file) == file

CrashPool ==
    /\ poolFaults < MaxPoolFaults
    /\ poolFaults' = poolFaults + 1
    /\ jobFile' = AfterCrash(jobFile)
    /\ held' = [w \in Worker |-> NoJob]
    /\ attached' = [w \in Worker |-> NoClient]
    /\ sock' = [c \in Client |-> [at |-> 1, phase |-> "off"]]
    /\ pty' = [j \in Job |-> IF pty[j] = "none" THEN "none" ELSE "gone"]
    /\ UNCHANGED <<jobOrder, jobHistory>>

-----------------------------------------------------------------------------
TpJobStep(j) == Enqueue(j) \/ ProcessEnds(j) \/ OnExit(j) \/ OnTimeout(j) \/ Cancel(j)

TpSocketStep(c) ==
    \/ \E w \in Worker : Attach(c, w)
    \/ OnSocketError(c) \/ OnSocketClose(c)

TpNext ==
    \/ \E j \in Job : TpJobStep(j)
    \/ \E c \in Client : TpSocketStep(c)
    \/ DrainPool
    \/ CrashPool

TpSpec == TpInit /\ [][TpNext]_tpvars
TpFairness ==
    /\ WF_tpvars(DrainPool)
    /\ \A j \in Job : WF_tpvars(OnExit(j)) /\ WF_tpvars(OnTimeout(j))
-----------------------------------------------------------------------------
(* Properties.                                                              *)

(* A job is spawned at most once, crashes and all: a half-done command is   *)
(* never run again behind its requester's back.  Its result is mailed at    *)
(* most once, and only the time-out mails it while the process may still    *)
(* run: the late exit of a job whose time was up never settles the job its  *)
(* worker runs by then.                                                     *)
JobsOnce ==
    \A j \in Job :
        /\ starts[j] <= 1 /\ reports[j] <= 1
        /\ reports[j] = 1 /\ pty[j] = "live" => j \in timedOut

(* A job waits, runs and is over, each once and for good: the pool          *)
(* implements JobContract, and no crash is a slip of it.                    *)
PoolStage == [none |-> "none", pending |-> "waiting", running |-> "running",
              done |-> "over", failed |-> "over"]

Jobs == INSTANCE JobContract
    WITH stage <- [j \in Job |-> PoolStage[jobFile[j]]], begun <- starts, slips <- 0

KeepsJobContract == Jobs!Spec

(* The queue empties again: every job gets its turn behind jobs that hang,  *)
(* are cancelled, cannot be spawned or are lost to a crash.                 *)
Queued == {j \in Job : jobFile[j] = "pending"}

JobsStart == Queued # {} ~> Queued = {}
=============================================================================
