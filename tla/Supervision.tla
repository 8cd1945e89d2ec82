---------------------------- MODULE Supervision ----------------------------
(***************************************************************************)
(* The processes around the daemon of one mesh.  A watcher runs in the     *)
(* supervisor of the mesh, and another one in the supervisor of the host   *)
(* where the operator started that.  Each keeps one server as its child:   *)
(* it starts one when the port does not answer, again when its child has   *)
(* exited, and kills a child whose health checks fail.  Every command      *)
(* makes sure there is a daemon, and `inbox stop' takes it down.  They     *)
(* know of each other by a port, a stop file and a file of process ids.    *)
(***************************************************************************)
EXTENDS Naturals, FiniteSets

CONSTANTS
    Watcher,      \* watchers of the mesh
    Host,         \* those that run in the supervisor of the host
    Pid,          \* servers that can live at once
    Caller,       \* command lines
    None,
    MissLimit,    \* healthMissThreshold, 3 in the code
    MaxFaults,    \* bound on deaths and hangs of servers and on reloads
    MaxCalls      \* bound on commands

ASSUME ProcessAssumption == Host \subseteq Watcher /\ None \notin Watcher \cup Pid
ASSUME BoundAssumption ==
    MissLimit \in Nat \ {0} /\ MaxFaults \in Nat /\ MaxCalls \in Nat

VARIABLES
    mode,       \* a watcher's process and its flag shuttingDown
    term,       \* watchers whose SIGTERM is not handled yet
    pc,         \* where spawnChild is
    child,      \* server a watcher holds as its child
    retry,      \* watchers with a restart timer
    grace,      \* watchers with the timer of shutdown that kills the child
    misses,     \* health checks missed in a row
    server,     \* what a server process is doing
    ending,     \* servers whose SIGTERM is not handled yet
    stop,       \* the stop file is there
    meta,       \* mesh-inbox.json
    cli, seen,  \* what a command does, and the meta file as stop read it
    calls, faults   \* history

watchers == <<mode, term, pc, child, retry, grace, misses>>
files == <<stop, meta>>
commands == <<cli, seen, calls>>
vars == <<watchers, server, ending, files, commands, faults>>

Meta == [sup : Watcher \cup {None}, pid : Pid \cup {None}]
NoMeta == [sup |-> None, pid |-> None]

(* off: no process; on: watching; zombie: shuttingDown was set by           *)
(* spawnChild, which leaves the timers; shut: shutdown has run; leaving:    *)
(* and process.exit is due.                                                 *)
TypeOK ==
    /\ mode \in [Watcher -> {"off", "on", "zombie", "shut", "leaving"}]
    /\ term \subseteq Watcher /\ retry \subseteq Watcher /\ grace \subseteq Watcher
    /\ pc \in [Watcher -> {"idle", "probe", "quiet", "health"}]
    /\ child \in [Watcher -> Pid \cup {None}]
    /\ misses \in [Watcher -> 0 .. MissLimit - 1]
    /\ server \in [Pid -> {"dead", "boot", "free", "busy", "stuck"}]
    /\ ending \subseteq Pid
    /\ stop \in BOOLEAN /\ meta \in Meta
    /\ cli \in [Caller -> {"idle", "start", "stopping", "killing"}]
    /\ seen \in [Caller -> Meta]
    /\ calls \in 0 .. MaxCalls /\ faults \in 0 .. MaxFaults

Init ==
    /\ mode = [w \in Watcher |-> "off"] /\ pc = [w \in Watcher |-> "idle"]
    /\ term = {} /\ retry = {} /\ grace = {}
    /\ child = [w \in Watcher |-> None] /\ misses = [w \in Watcher |-> 0]
    /\ server = [p \in Pid |-> "dead"] /\ ending = {}
    /\ stop = FALSE /\ meta = NoMeta
    /\ cli = [c \in Caller |-> "idle"] /\ seen = [c \in Caller |-> NoMeta]
    /\ calls = 0 /\ faults = 0

---------------------------------------------------------------------------
(* Servers.  One that is in a long synchronous step (busy) or hangs (stuck) *)
(* does not answer /health, and handles SIGTERM only after the step.        *)

Serving == {p \in Pid : server[p] \in {"free", "busy", "stuck"}}
Bound == Serving # {}
Answering == {p \in Pid : server[p] = "free"}
Alive(p) == p # None /\ server[p] # "dead"

Killed(S) == [p \in Pid |-> IF p \in S THEN "dead" ELSE server[p]]
(* SIGTERM: the handler is installed once the server listens.               *)
Booting(S) == {p \in S \cap Pid : server[p] = "boot"}
Terminate(S) ==
    /\ server' = Killed(Booting(S))
    /\ ending' = ending \cup (S \cap Serving)
Kill(S) == server' = Killed(S) /\ ending' = ending \ S

(* Mutated form, used by a mutant of PROJECT.json only: no exit.             *)
ListenAnyway(p) ==
    /\ server[p] = "boot"
    /\ server' = [server EXCEPT ![p] = "free"]
    /\ UNCHANGED <<watchers, ending, files, commands, faults>>

(* listen: with the port in use the process exits.                          *)
Listen(p) ==
    /\ server[p] = "boot"
    /\ server' = [server EXCEPT ![p] = IF Bound THEN "dead" ELSE "free"]
    /\ UNCHANGED <<watchers, ending, files, commands, faults>>

Work(p) ==
    /\ server[p] = "free" /\ server' = [server EXCEPT ![p] = "busy"]
    /\ UNCHANGED <<watchers, ending, files, commands, faults>>

Done(p) ==
    /\ server[p] = "busy" /\ server' = [server EXCEPT ![p] = "free"]
    /\ UNCHANGED <<watchers, ending, files, commands, faults>>

(* The SIGTERM handler: a last save, then process.exit.                     *)
Leave(p) ==
    /\ server[p] = "free" /\ p \in ending /\ Kill({p})
    /\ UNCHANGED <<watchers, files, commands, faults>>

Fault == faults < MaxFaults /\ faults' = faults + 1
Crash(p) ==
    /\ Fault /\ Alive(p) /\ Kill({p})
    /\ UNCHANGED <<watchers, files, commands>>

Hang(p) ==
    /\ Fault /\ server[p] \in {"free", "busy"}
    /\ server' = [server EXCEPT ![p] = "stuck"]
    /\ UNCHANGED <<watchers, ending, files, commands>>

---------------------------------------------------------------------------
(* The watcher                                                              *)

Quitting(w) == mode[w] \in {"zombie", "shut", "leaving"}
Runs(w) == mode[w] # "off"

(* createMeshWatcher, and its first spawnChild.                             *)
Watch(w) ==
    /\ mode' = [mode EXCEPT ![w] = IF stop' THEN "zombie" ELSE "on"]
    /\ pc' = [pc EXCEPT ![w] = IF stop' THEN "idle" ELSE "probe"]
    /\ child' = [child EXCEPT ![w] = None] /\ misses' = [misses EXCEPT ![w] = 0]
    /\ term' = term \ {w} /\ retry' = retry \ {w} /\ grace' = grace \ {w}
    /\ meta' = [sup |-> w, pid |-> None]

(* shutdown: SIGTERM for the child, timers off, stop file gone.             *)
Shutdown(w, m) ==
    /\ mode' = [mode EXCEPT ![w] = m]
    /\ Terminate({child[w]}) /\ grace' = grace \cup {w} /\ retry' = retry \ {w}
    /\ stop' = FALSE

(* orphanTimer, hmrTimer: the stop file.                                    *)
SeeStop(w) ==
    /\ mode[w] = "on" /\ stop /\ Shutdown(w, "shut")
    /\ UNCHANGED <<term, pc, child, misses, meta, commands, faults>>

(* orphanTimer: there is no child.                                          *)
Recover(w) ==
    /\ mode[w] = "on" /\ ~stop /\ child[w] = None /\ pc[w] = "idle"
    /\ pc' = [pc EXCEPT ![w] = "probe"]
    /\ UNCHANGED <<mode, term, child, retry, grace, misses, server, ending, files,
                   commands, faults>>

(* The restart timer's spawnChild.                                          *)
Restart(w) ==
    /\ w \in retry /\ Runs(w) /\ retry' = retry \ {w}
    /\ LET goes == ~Quitting(w) /\ pc[w] = "idle" IN
        /\ mode' = IF goes /\ stop THEN [mode EXCEPT ![w] = "zombie"] ELSE mode
        /\ pc' = IF goes /\ ~stop /\ ~Alive(child[w])
                 THEN [pc EXCEPT ![w] = "probe"] ELSE pc
    /\ UNCHANGED <<term, child, grace, misses, server, ending, files, commands, faults>>
(* spawnChild: a server that answers is left to whoever started it.         *)
Probe(w) ==
    /\ pc[w] = "probe" /\ Runs(w)
    /\ pc' = [pc EXCEPT ![w] = IF Answering # {} THEN "idle" ELSE "quiet"]
    /\ UNCHANGED <<mode, term, child, retry, grace, misses, server, ending, files,
                   commands, faults>>

(* Process ids nobody remembers.                                            *)
Fresh == {p \in Pid : server[p] = "dead" /\ p # meta.pid
            /\ \A w \in Watcher : child[w] # p
            /\ \A c \in Caller : seen[c].pid # p}

(* waitPortQuiet: quiet is a port that does not answer, or shuttingDown.    *)
Spawn(w) ==
    /\ pc[w] = "quiet" /\ Runs(w) /\ (Quitting(w) \/ Answering = {})
    /\ \E p \in Fresh :
        /\ server' = [server EXCEPT ![p] = "boot"]
        /\ child' = [child EXCEPT ![w] = p]
    /\ misses' = [misses EXCEPT ![w] = 0] /\ pc' = [pc EXCEPT ![w] = "health"]
    /\ UNCHANGED <<mode, term, retry, grace, ending, files, commands, faults>>

NotQuiet(w) ==
    /\ pc[w] = "quiet" /\ mode[w] = "on" /\ Answering # {}
    /\ pc' = [pc EXCEPT ![w] = "idle"]
    /\ UNCHANGED <<mode, term, child, retry, grace, misses, server, ending, files,
                   commands, faults>>

(* waitForHealth: answered, by the child or by another one.                 *)
Healthy(w) ==
    /\ pc[w] = "health" /\ Runs(w) /\ pc' = [pc EXCEPT ![w] = "idle"]
    /\ \E p \in Answering : meta' = [sup |-> w, pid |-> p]
    /\ UNCHANGED <<mode, term, child, retry, grace, misses, server, ending, stop,
                   commands, faults>>

(* Fifteen seconds without an answer.  If the child has exited meanwhile,   *)
(* child.pid throws, and the rejected promise ends the process.             *)
Unhealthy(w) ==
    /\ pc[w] = "health" /\ Runs(w) /\ Answering = {}
    /\ pc' = [pc EXCEPT ![w] = "idle"]
    /\ IF child[w] = None
       THEN mode' = [mode EXCEPT ![w] = "off"] /\ UNCHANGED meta
       ELSE meta' = [sup |-> w, pid |-> child[w]] /\ UNCHANGED mode
    /\ UNCHANGED <<term, child, retry, grace, misses, server, ending, stop,
                   commands, faults>>

(* The child's exit event.                                                  *)
ChildExit(w) ==
    /\ Runs(w) /\ child[w] # None /\ ~Alive(child[w])
    /\ child' = [child EXCEPT ![w] = None]
    /\ meta' = [sup |-> w, pid |-> None]
    /\ retry' = IF Quitting(w) THEN retry ELSE retry \cup {w}
    /\ UNCHANGED <<mode, term, pc, grace, misses, server, ending, stop, commands, faults>>
(* healthTimer, while there is a child and no spawn under way.  The checks  *)
(* begin 45 seconds after the spawn; a server is past its start by then.    *)
Checks(w) == mode[w] = "on" /\ pc[w] = "idle" /\ child[w] \in Serving
HealthOk(w) ==
    /\ Checks(w) /\ misses' = [misses EXCEPT ![w] = 0]
    /\ \E p \in Answering : meta' = [sup |-> w, pid |-> p]
    /\ UNCHANGED <<mode, term, pc, child, retry, grace, server, ending, stop,
                   commands, faults>>

(* Mutated forms: one miss too many; SIGTERM in place of SIGKILL.           *)
MissTooMany(w) ==
    /\ Checks(w) /\ Answering = {}
    /\ meta' = [sup |-> w, pid |-> child[w]]
    /\ IF misses[w] < MissLimit
       THEN misses' = [misses EXCEPT ![w] = @ + 1] /\ UNCHANGED <<server, ending>>
       ELSE misses' = [misses EXCEPT ![w] = 0] /\ Kill({child[w]})
    /\ UNCHANGED <<mode, term, pc, child, retry, grace, stop, commands, faults>>

MissTerminates(w) ==
    /\ Checks(w) /\ Answering = {}
    /\ meta' = [sup |-> w, pid |-> child[w]]
    /\ IF misses[w] + 1 < MissLimit
       THEN misses' = [misses EXCEPT ![w] = @ + 1] /\ UNCHANGED <<server, ending>>
       ELSE misses' = [misses EXCEPT ![w] = 0] /\ Terminate({child[w]})
    /\ UNCHANGED <<mode, term, pc, child, retry, grace, stop, commands, faults>>

HealthMiss(w) ==
    /\ Checks(w) /\ Answering = {}
    /\ meta' = [sup |-> w, pid |-> child[w]]
    /\ IF misses[w] + 1 < MissLimit
       THEN misses' = [misses EXCEPT ![w] = @ + 1] /\ UNCHANGED <<server, ending>>
       ELSE misses' = [misses EXCEPT ![w] = 0] /\ Kill({child[w]})
    /\ UNCHANGED <<mode, term, pc, child, retry, grace, stop, commands, faults>>

(* hmrTimer: the bundle has changed.                                        *)
Reload(w) ==
    /\ Fault /\ mode[w] = "on" /\ ~stop /\ Alive(child[w]) /\ Terminate({child[w]})
    /\ UNCHANGED <<watchers, files, commands>>

(* SIGTERM: watcher.stop, and process.exit half a second later.             *)
HandleTerm(w) ==
    /\ w \in term /\ Runs(w) /\ mode[w] # "leaving"
    /\ term' = term \ {w}
    /\ IF mode[w] = "on"
       THEN Shutdown(w, "leaving")
       ELSE /\ mode' = [mode EXCEPT ![w] = "leaving"]
            /\ UNCHANGED <<server, ending, grace, retry, stop>>
    /\ UNCHANGED <<pc, child, misses, meta, commands, faults>>

(* shutdown, three seconds later: SIGKILL.  Only after a stop file, since    *)
(* after a SIGTERM the process has gone by then.                            *)
KillChild(w) ==
    /\ w \in grace /\ mode[w] = "shut"
    /\ grace' = grace \ {w} /\ Kill({child[w]})
    /\ UNCHANGED <<mode, term, pc, child, retry, misses, files, commands, faults>>

(* process.exit, or nothing left to wait for.                               *)
Exit(w) ==
    /\ \/ mode[w] = "leaving"
       \/ mode[w] = "shut" /\ w \notin Host \cup grace /\ pc[w] = "idle" /\ child[w] = None
    /\ mode' = [mode EXCEPT ![w] = "off"]
    /\ pc' = [pc EXCEPT ![w] = "idle"] /\ child' = [child EXCEPT ![w] = None]
    /\ term' = term \ {w} /\ retry' = retry \ {w} /\ grace' = grace \ {w}
    /\ UNCHANGED <<misses, server, ending, files, commands, faults>>

---------------------------------------------------------------------------
(* Commands                                                                 *)

Called == calls < MaxCalls /\ calls' = calls + 1

(* host up, or the host's supervisor finding the mesh in its registry.      *)
HostUp(w) ==
    /\ Called /\ w \in Host /\ mode[w] = "off"
    /\ stop' = stop /\ Watch(w)
    /\ UNCHANGED <<server, ending, cli, seen, faults>>

(* host down: SIGTERM for the host's supervisor, which passes it on to its   *)
(* watchers and goes.                                                       *)
HostDown(w) ==
    /\ Called /\ w \in Host /\ Runs(w) /\ term' = term \cup {w}
    /\ UNCHANGED <<mode, pc, child, retry, grace, misses, server, ending, files,
                   cli, seen, faults>>

(* ensureMeshInbox, called by nearly every command: a port that is open and *)
(* does not answer in two seconds is freed.                                 *)
Ensure(c) ==
    /\ Called /\ cli[c] = "idle" /\ Answering = {}
    /\ Kill(Serving) /\ cli' = [cli EXCEPT ![c] = "start"]
    /\ UNCHANGED <<watchers, files, seen, faults>>

Found(c) ==
    /\ cli[c] = "start" /\ Answering # {}
    /\ cli' = [cli EXCEPT ![c] = "idle"]
    /\ UNCHANGED <<watchers, server, ending, files, seen, calls, faults>>

(* startMeshInbox: after ten seconds without an answer a supervisor is      *)
(* started, also beside one that is alive.                                  *)
StartMesh(c) ==
    /\ cli[c] = "start" /\ Answering = {}
    /\ cli' = [cli EXCEPT ![c] = "idle"] /\ stop' = FALSE
    /\ \E w \in Watcher \ Host : mode[w] = "off" /\ Watch(w)
    /\ UNCHANGED <<server, ending, seen, calls, faults>>

(* stopMeshInbox                                                            *)
StopFile(c) ==
    /\ Called /\ cli[c] = "idle" /\ cli' = [cli EXCEPT ![c] = "stopping"]
    /\ stop' = TRUE
    /\ UNCHANGED <<watchers, server, ending, meta, seen, faults>>

StopTerm(c) ==
    /\ cli[c] = "stopping" /\ cli' = [cli EXCEPT ![c] = "killing"]
    /\ seen' = [seen EXCEPT ![c] = meta]
    /\ term' = term \cup {w \in {meta.sup} \cap Watcher : Runs(w)}
    /\ Terminate({meta.pid})
    /\ UNCHANGED <<mode, pc, child, retry, grace, misses, files, calls, faults>>

(* The port is still open: supervisor and server of the file get SIGKILL,   *)
(* and so does whoever holds the port.                                      *)
StopKill(c) ==
    /\ cli[c] = "killing" /\ Bound
    /\ Kill(Serving \cup ({seen[c].pid} \cap Pid))
    /\ mode' = [w \in Watcher |-> IF w = seen[c].sup THEN "off" ELSE mode[w]]
    /\ pc' = [w \in Watcher |-> IF w = seen[c].sup THEN "idle" ELSE pc[w]]
    /\ child' = [w \in Watcher |-> IF w = seen[c].sup THEN None ELSE child[w]]
    /\ UNCHANGED <<term, retry, grace, misses, files, commands, faults>>

StopDone(c) ==
    /\ cli[c] = "killing" /\ ~Bound
    /\ cli' = [cli EXCEPT ![c] = "idle"] /\ seen' = [seen EXCEPT ![c] = NoMeta]
    /\ meta' = NoMeta
    /\ UNCHANGED <<watchers, server, ending, stop, calls, faults>>

---------------------------------------------------------------------------
Server(p) == Listen(p) \/ Work(p) \/ Done(p) \/ Leave(p) \/ Crash(p) \/ Hang(p)
Spawning(w) == Probe(w) \/ Spawn(w) \/ NotQuiet(w) \/ Healthy(w) \/ Unhealthy(w)
Timers(w) == SeeStop(w) \/ Recover(w) \/ Restart(w) \/ HealthOk(w) \/ HealthMiss(w) \/ Reload(w)
Signals(w) == ChildExit(w) \/ HandleTerm(w) \/ KillChild(w) \/ Exit(w)
Command(c) == Ensure(c) \/ Found(c) \/ StartMesh(c) \/ StopFile(c) \/ StopTerm(c)
              \/ StopKill(c) \/ StopDone(c)
Next ==
    \/ \E p \in Pid : Server(p)
    \/ \E w \in Watcher : Spawning(w) \/ Timers(w) \/ Signals(w) \/ HostUp(w) \/ HostDown(w)
    \/ \E c \in Caller : Command(c)
Spec == Init /\ [][Next]_vars

(* Timers fire, a step of a server ends, and a server that does not answer  *)
(* for as long as a health check waits keeps missing it.                    *)
FairSpec ==
    /\ Spec
    /\ \A p \in Pid : WF_vars(Listen(p)) /\ WF_vars(Done(p)) /\ WF_vars(Leave(p))
    /\ \A w \in Watcher : WF_vars(Spawning(w)) /\ WF_vars(Recover(w))
         /\ WF_vars(SeeStop(w)) /\ WF_vars(ChildExit(w)) /\ WF_vars(HealthMiss(w))
         /\ WF_vars(HandleTerm(w)) /\ WF_vars(KillChild(w)) /\ WF_vars(Exit(w))
    /\ \A c \in Caller : WF_vars(cli[c] # "idle" /\ Command(c))

---------------------------------------------------------------------------
(* Properties                                                               *)

(* One process at most serves the port, so one injects, however many        *)
(* watchers and commands start servers at once.                             *)
OneServes == \A p, q \in Serving : p = q

(* A server that hangs and that no watcher at work has as its child.        *)
Forsaken == \E p \in Pid : server[p] = "stuck"
                /\ \A w \in Watcher : mode[w] = "on" => child[w] # p

(* As long as a watcher watches, a server answers again, except one that    *)
(* hangs and is nobody's child.                                             *)
Watched == \E w \in Watcher : mode[w] = "on"
Recovers == Watched ~> Answering # {} \/ ~Watched \/ Forsaken

---------------------------------------------------------------------------
(* What the documentation says and the code does not do.                    *)

(* docs/FEATURES.md: "Supervisor: crash restart + reload when daemon dist   *)
(* changes after build."  A watcher that watches ends only when a command   *)
(* kills it, so that it is there to restart what crashes.                   *)
WatcherStays == [][\A w \in Watcher : mode[w] = "on" /\ mode'[w] = "off" =>
                     \E c \in Caller : seen[c].sup = w]_vars
=============================================================================
