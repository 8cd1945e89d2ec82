-------------------------- MODULE SupervisionProofs --------------------------
(***************************************************************************)
(* Theorems about Supervision, for any watchers, servers, commands, bounds. *)
(***************************************************************************)
EXTENDS Supervision, TLAPS

Mode == {"off", "on", "zombie", "shut", "leaving"}
Busyness == {"dead", "boot", "free", "busy", "stuck"}

LEMMA Bounds ==
    /\ MissLimit \in Nat /\ MissLimit > 0 /\ 0 \in 0 .. MissLimit - 1
    /\ MaxCalls \in Nat /\ 0 \in 0 .. MaxCalls
    /\ MaxFaults \in Nat /\ 0 \in 0 .. MaxFaults
<1>1. MissLimit \in Nat /\ MissLimit > 0 /\ MaxCalls \in Nat /\ MaxFaults \in Nat
  BY BoundAssumption
<1>2. QED
  BY <1>1

-----------------------------------------------------------------------------
(* Typing.                                                                  *)

LEMMA KillTyped ==
    ASSUME TypeOK, NEW STATE S, Kill(S)
    PROVE  server' \in [Pid -> Busyness] /\ ending' \subseteq Pid
BY DEF Kill, Killed, TypeOK, Busyness

LEMMA TerminateTyped ==
    ASSUME TypeOK, NEW STATE S, Terminate(S)
    PROVE  server' \in [Pid -> Busyness] /\ ending' \subseteq Pid
BY DEF Terminate, Killed, Booting, Serving, TypeOK, Busyness

LEMMA FaultTyped ==
    ASSUME TypeOK, Fault
    PROVE  faults' \in 0 .. MaxFaults
BY Bounds DEF Fault, TypeOK

LEMMA CalledTyped ==
    ASSUME TypeOK, Called
    PROVE  calls' \in 0 .. MaxCalls
BY Bounds DEF Called, TypeOK

LEMMA WatchTyped ==
    ASSUME TypeOK, NEW w \in Watcher, Watch(w), stop' \in BOOLEAN
    PROVE  /\ mode' \in [Watcher -> Mode] /\ pc' \in [Watcher -> {"idle", "probe", "quiet", "health"}]
           /\ child' \in [Watcher -> Pid \cup {None}] /\ misses' \in [Watcher -> 0 .. MissLimit - 1]
           /\ term' \subseteq Watcher /\ retry' \subseteq Watcher /\ grace' \subseteq Watcher
           /\ meta' \in Meta
BY Bounds DEF Watch, TypeOK, Mode, Meta

LEMMA InitTyped == Init => TypeOK
<1> SUFFICES ASSUME Init
             PROVE  TypeOK
  OBVIOUS
<1>1. NoMeta \in Meta
  BY DEF NoMeta, Meta
<1>2. misses \in [Watcher -> 0 .. MissLimit - 1] /\ calls \in 0 .. MaxCalls /\ faults \in 0 .. MaxFaults
  BY Bounds DEF Init
<1>3. child \in [Watcher -> Pid \cup {None}] /\ server \in [Pid -> Busyness]
  BY DEF Init, Busyness
<1>4. QED
  BY <1>1, <1>2, <1>3 DEF Init, TypeOK, Busyness

LEMMA ServerTyped ==
    ASSUME TypeOK, NEW p \in Pid, Server(p)
    PROVE  TypeOK'
<1> USE DEF Busyness
<1>1. CASE Listen(p)
  BY <1>1 DEF Listen, TypeOK, watchers, files, commands
<1>2. CASE Work(p)
  BY <1>2 DEF Work, TypeOK, watchers, files, commands
<1>3. CASE Done(p)
  BY <1>3 DEF Done, TypeOK, watchers, files, commands
<1>4. CASE Leave(p)
  <2>1. server' \in [Pid -> Busyness] /\ ending' \subseteq Pid
    BY <1>4, KillTyped DEF Leave
  <2>2. QED
    BY <1>4, <2>1 DEF Leave, TypeOK, watchers, files, commands
<1>5. CASE Crash(p)
  <2>1. server' \in [Pid -> Busyness] /\ ending' \subseteq Pid
    BY <1>5, KillTyped DEF Crash
  <2>2. QED
    BY <1>5, <2>1, FaultTyped DEF Crash, TypeOK, watchers, files, commands
<1>6. CASE Hang(p)
  BY <1>6, FaultTyped DEF Hang, TypeOK, watchers, files, commands
<1>7. QED
  BY <1>1, <1>2, <1>3, <1>4, <1>5, <1>6 DEF Server

LEMMA SpawningTyped ==
    ASSUME TypeOK, NEW w \in Watcher, Spawning(w)
    PROVE  TypeOK'
<1>1. CASE Probe(w)
  BY <1>1 DEF Probe, TypeOK, files, commands
<1>2. CASE Spawn(w)
  <2>1. PICK p \in Fresh : server' = [server EXCEPT ![p] = "boot"] /\ child' = [child EXCEPT ![w] = p]
    BY <1>2 DEF Spawn
  <2>2. p \in Pid
    BY DEF Fresh
  <2>3. misses' \in [Watcher -> 0 .. MissLimit - 1]
    BY <1>2, Bounds DEF Spawn, TypeOK
  <2>4. QED
    BY <1>2, <2>1, <2>2, <2>3 DEF Spawn, TypeOK, files, commands
<1>3. CASE NotQuiet(w)
  BY <1>3 DEF NotQuiet, TypeOK, files, commands
<1>4. CASE Healthy(w)
  <2>1. meta' \in Meta
    BY <1>4 DEF Healthy, Answering, Meta
  <2>2. QED
    BY <1>4, <2>1 DEF Healthy, TypeOK, commands
<1>5. CASE Unhealthy(w)
  <2>1. meta' \in Meta /\ mode' \in [Watcher -> Mode]
    BY <1>5 DEF Unhealthy, TypeOK, Meta, Mode
  <2>2. QED
    BY <1>5, <2>1 DEF Unhealthy, TypeOK, commands, Mode
<1>6. QED
  BY <1>1, <1>2, <1>3, <1>4, <1>5 DEF Spawning

LEMMA TimersTyped ==
    ASSUME TypeOK, NEW w \in Watcher, Timers(w)
    PROVE  TypeOK'
<1> USE DEF Busyness, Mode
<1>1. CASE SeeStop(w)
  <2>1. server' \in [Pid -> Busyness] /\ ending' \subseteq Pid
    BY <1>1, TerminateTyped DEF SeeStop, Shutdown
  <2>2. QED
    BY <1>1, <2>1 DEF SeeStop, Shutdown, TypeOK, commands
<1>2. CASE Recover(w)
  BY <1>2 DEF Recover, TypeOK, files, commands
<1>3. CASE Restart(w)
  <2>1. mode' \in [Watcher -> Mode] /\ pc' \in [Watcher -> {"idle", "probe", "quiet", "health"}]
        /\ retry' \subseteq Watcher
    BY <1>3 DEF Restart, TypeOK
  <2>2. QED
    BY <1>3, <2>1 DEF Restart, TypeOK, files, commands
<1>4. CASE HealthOk(w)
  <2>1. meta' \in Meta
    BY <1>4 DEF HealthOk, Answering, Meta
  <2>2. misses' \in [Watcher -> 0 .. MissLimit - 1]
    BY <1>4, Bounds DEF HealthOk, TypeOK
  <2>3. QED
    BY <1>4, <2>1, <2>2 DEF HealthOk, TypeOK, commands
<1>5. CASE HealthMiss(w)
  <2>1. meta' \in Meta
    BY <1>5 DEF HealthMiss, Checks, TypeOK, Meta
  <2>2. misses' \in [Watcher -> 0 .. MissLimit - 1]
    BY <1>5, Bounds DEF HealthMiss, TypeOK
  <2>3. server' \in [Pid -> Busyness] /\ ending' \subseteq Pid
    BY <1>5, KillTyped DEF HealthMiss, TypeOK
  <2>4. QED
    BY <1>5, <2>1, <2>2, <2>3 DEF HealthMiss, TypeOK, commands
<1>6. CASE Reload(w)
  <2>1. server' \in [Pid -> Busyness] /\ ending' \subseteq Pid
    BY <1>6, TerminateTyped DEF Reload
  <2>2. QED
    BY <1>6, <2>1, FaultTyped DEF Reload, TypeOK, watchers, files, commands
<1>7. QED
  BY <1>1, <1>2, <1>3, <1>4, <1>5, <1>6 DEF Timers

LEMMA SignalsTyped ==
    ASSUME TypeOK, NEW w \in Watcher, Signals(w)
    PROVE  TypeOK'
<1> USE DEF Busyness, Mode
<1>1. CASE ChildExit(w)
  BY <1>1 DEF ChildExit, TypeOK, Meta, commands
<1>2. CASE HandleTerm(w)
  <2>1. server' \in [Pid -> Busyness] /\ ending' \subseteq Pid
    BY <1>2, TerminateTyped DEF HandleTerm, Shutdown, TypeOK
  <2>2. mode' \in [Watcher -> Mode] /\ grace' \subseteq Watcher /\ retry' \subseteq Watcher /\ stop' \in BOOLEAN
    <3>1. mode' \in [Watcher -> Mode]
      <4>1. \E m \in {"shut", "leaving"} : mode' = [mode EXCEPT ![w] = m]
        BY <1>2 DEF HandleTerm, Shutdown
      <4>2. QED
        BY <4>1 DEF TypeOK
    <3>2. grace' \in {grace, grace \cup {w}} /\ retry' \in {retry, retry \ {w}} /\ stop' \in {stop, FALSE}
      BY <1>2 DEF HandleTerm, Shutdown
    <3>3. QED
      BY <3>1, <3>2 DEF TypeOK
  <2>3. QED
    BY <1>2, <2>1, <2>2 DEF HandleTerm, TypeOK, commands
<1>3. CASE KillChild(w)
  <2>1. server' \in [Pid -> Busyness] /\ ending' \subseteq Pid
    BY <1>3, KillTyped DEF KillChild
  <2>2. QED
    BY <1>3, <2>1 DEF KillChild, TypeOK, files, commands
<1>4. CASE Exit(w)
  BY <1>4 DEF Exit, TypeOK, files, commands
<1>5. QED
  BY <1>1, <1>2, <1>3, <1>4 DEF Signals

LEMMA CommandTyped ==
    ASSUME TypeOK, NEW c \in Caller, Command(c)
    PROVE  TypeOK'
<1> USE DEF Busyness, Mode
<1>1. CASE Ensure(c)
  <2>1. server' \in [Pid -> Busyness] /\ ending' \subseteq Pid
    BY <1>1, KillTyped DEF Ensure
  <2>2. QED
    BY <1>1, <2>1, CalledTyped DEF Ensure, TypeOK, watchers, files
<1>2. CASE Found(c)
  BY <1>2 DEF Found, TypeOK, watchers, files
<1>3. CASE StartMesh(c)
  <2>1. PICK w \in Watcher : Watch(w)
    BY <1>3 DEF StartMesh
  <2>2. stop' \in BOOLEAN
    BY <1>3 DEF StartMesh
  <2>3. QED
    BY <1>3, <2>1, <2>2, WatchTyped DEF StartMesh, TypeOK
<1>4. CASE StopFile(c)
  BY <1>4, CalledTyped DEF StopFile, TypeOK, watchers
<1>5. CASE StopTerm(c)
  <2>1. server' \in [Pid -> Busyness] /\ ending' \subseteq Pid
    BY <1>5, TerminateTyped DEF StopTerm
  <2>2. term' \subseteq Watcher /\ seen' \in [Caller -> Meta]
    BY <1>5 DEF StopTerm, TypeOK
  <2>3. QED
    BY <1>5, <2>1, <2>2 DEF StopTerm, TypeOK, files
<1>6. CASE StopKill(c)
  <2>1. server' \in [Pid -> Busyness] /\ ending' \subseteq Pid
    BY <1>6, KillTyped DEF StopKill
  <2>2. /\ mode' \in [Watcher -> Mode] /\ child' \in [Watcher -> Pid \cup {None}]
        /\ pc' \in [Watcher -> {"idle", "probe", "quiet", "health"}]
    BY <1>6 DEF StopKill, TypeOK
  <2>3. QED
    BY <1>6, <2>1, <2>2 DEF StopKill, TypeOK, files, commands
<1>7. CASE StopDone(c)
  BY <1>7 DEF StopDone, TypeOK, watchers, NoMeta, Meta
<1>8. QED
  BY <1>1, <1>2, <1>3, <1>4, <1>5, <1>6, <1>7 DEF Command

LEMMA NextTyped == TypeOK /\ [Next]_vars => TypeOK'
<1> SUFFICES ASSUME TypeOK, [Next]_vars
             PROVE  TypeOK'
  OBVIOUS
<1>1. ASSUME NEW p \in Pid, Server(p)
      PROVE  TypeOK'
  BY <1>1, ServerTyped
<1>2. ASSUME NEW w \in Watcher, Spawning(w) \/ Timers(w) \/ Signals(w)
      PROVE  TypeOK'
  BY <1>2, SpawningTyped, TimersTyped, SignalsTyped
<1>3. ASSUME NEW w \in Watcher, HostUp(w)
      PROVE  TypeOK'
  <2>1. stop' \in BOOLEAN /\ Watch(w) /\ Called
    BY <1>3 DEF HostUp, TypeOK
  <2>2. QED
    BY <1>3, <2>1, WatchTyped, CalledTyped DEF HostUp, TypeOK, Mode
<1>4. ASSUME NEW w \in Watcher, HostDown(w)
      PROVE  TypeOK'
  BY <1>4, CalledTyped DEF HostDown, TypeOK, files
<1>5. ASSUME NEW c \in Caller, Command(c)
      PROVE  TypeOK'
  BY <1>5, CommandTyped
<1>6. CASE UNCHANGED vars
  BY <1>6 DEF vars, watchers, files, commands, TypeOK
<1>7. QED
  BY <1>1, <1>2, <1>3, <1>4, <1>5, <1>6 DEF Next

(* Every reachable state is well typed; in particular no watcher counts     *)
(* more missed checks than it takes to kill its child.                      *)
THEOREM SupervisionTyped == Spec => []TypeOK
BY InitTyped, NextTyped, PTL DEF Spec

-----------------------------------------------------------------------------
(* One server holds the port.                                               *)

(* Every step but the start of listening only takes servers off the port.   *)
LEMMA OnlyListenServes ==
    ASSUME TypeOK, [Next]_vars, ~ \E p \in Pid : Listen(p)
    PROVE  Serving' \subseteq Serving
<1>1. server \in [Pid -> Busyness]
  BY DEF TypeOK, Busyness
<1>2. ASSUME NEW STATE S, Kill(S) \/ server' = Killed(S)
      PROVE  Serving' \subseteq Serving
  BY <1>1, <1>2 DEF Kill, Killed, Serving
<1>3. ASSUME NEW STATE S, Terminate(S)
      PROVE  Serving' \subseteq Serving
  BY <1>1, <1>3 DEF Terminate, Killed, Serving
<1>4. ASSUME server' = server
      PROVE  Serving' \subseteq Serving
  BY <1>4 DEF Serving
<1>5. ASSUME NEW p \in Pid, Server(p)
      PROVE  Serving' \subseteq Serving
  <2>1. CASE Work(p) \/ Done(p) \/ Hang(p)
    BY <1>1, <2>1 DEF Work, Done, Hang, Serving
  <2>2. CASE Leave(p) \/ Crash(p)
    BY <1>2, <2>2 DEF Leave, Crash
  <2>3. QED
    BY <1>5, <2>1, <2>2 DEF Server
<1>6. ASSUME NEW w \in Watcher, Spawning(w)
      PROVE  Serving' \subseteq Serving
  <2>1. CASE Spawn(w)
    BY <1>1, <2>1 DEF Spawn, Serving
  <2>2. QED
    BY <1>4, <1>6, <2>1 DEF Spawning, Probe, NotQuiet, Healthy, Unhealthy
<1>7. ASSUME NEW w \in Watcher, Timers(w) \/ Signals(w) \/ HostUp(w) \/ HostDown(w)
      PROVE  Serving' \subseteq Serving
  <2>1. CASE SeeStop(w) \/ Reload(w) \/ HandleTerm(w)
    BY <1>3, <1>4, <2>1 DEF SeeStop, Reload, HandleTerm, Shutdown
  <2>2. CASE HealthMiss(w) \/ KillChild(w)
    BY <1>2, <1>4, <2>2 DEF HealthMiss, KillChild
  <2>3. CASE Recover(w) \/ Restart(w) \/ HealthOk(w) \/ ChildExit(w) \/ Exit(w)
         \/ HostUp(w) \/ HostDown(w)
    BY <1>4, <2>3 DEF Recover, Restart, HealthOk, ChildExit, Exit, HostUp, HostDown
  <2>4. QED
    BY <1>7, <2>1, <2>2, <2>3 DEF Timers, Signals
<1>8. ASSUME NEW c \in Caller, Command(c)
      PROVE  Serving' \subseteq Serving
  <2>1. CASE Ensure(c) \/ StopKill(c)
    BY <1>2, <2>1 DEF Ensure, StopKill
  <2>2. CASE StopTerm(c)
    BY <1>3, <2>2 DEF StopTerm
  <2>3. CASE Found(c) \/ StartMesh(c) \/ StopFile(c) \/ StopDone(c)
    BY <1>4, <2>3 DEF Found, StartMesh, StopFile, StopDone
  <2>4. QED
    BY <1>8, <2>1, <2>2, <2>3 DEF Command
<1>9. CASE UNCHANGED vars
  BY <1>4, <1>9 DEF vars
<1>10. QED
  BY <1>5, <1>6, <1>7, <1>8, <1>9 DEF Next

LEMMA NextOneServes == TypeOK /\ OneServes /\ [Next]_vars => OneServes'
<1> SUFFICES ASSUME TypeOK, OneServes, [Next]_vars
             PROVE  OneServes'
  OBVIOUS
<1>1. ASSUME NEW p \in Pid, Listen(p)
      PROVE  OneServes'
  <2>1. CASE Bound
    BY <1>1, <2>1 DEF Listen, Serving, OneServes, TypeOK
  <2>2. CASE ~Bound
    BY <1>1, <2>2 DEF Listen, Bound, Serving, OneServes, TypeOK
  <2>3. QED
    BY <2>1, <2>2
<1>2. CASE ~ \E p \in Pid : Listen(p)
  BY <1>2, OnlyListenServes DEF OneServes
<1>3. QED
  BY <1>1, <1>2

(* Whatever number of supervisors and commands start servers at once, and   *)
(* whichever of them die, one process at most serves the mesh.              *)
THEOREM SupervisionOneServes == Spec => []OneServes
<1>1. Init => OneServes
  BY DEF Init, OneServes, Serving
<1>2. QED
  BY <1>1, InitTyped, NextTyped, NextOneServes, PTL DEF Spec
=============================================================================
