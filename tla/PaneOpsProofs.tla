---------------------------- MODULE PaneOpsProofs ----------------------------
(***************************************************************************)
(* Theorems about PaneOps, for any operations, kinds and bounds.           *)
(***************************************************************************)
EXTENDS PaneOps, TLAPS

Typed == TypeOK /\ RunsInDrain
Safe == Typed /\ NoTrace /\ Races

-----------------------------------------------------------------------------
(* Rows.                                                                    *)

LEMMA MarkedRows ==
    ASSUME NEW rows \in [Op -> Row], NEW S, NEW s \in Status
    PROVE  /\ Marked(rows, S, s) \in [Op -> Row]
           /\ \A o \in Op : Marked(rows, S, s)[o].status = IF o \in S THEN s ELSE rows[o].status
<1>1. ASSUME NEW o \in Op
      PROVE  [rows[o] EXCEPT !.status = s] \in Row /\ [rows[o] EXCEPT !.status = s].status = s
  BY DEF Row
<1>2. QED
  BY <1>1 DEF Marked

LEMMA NoRowTyped == NoRow \in Row /\ NoRow.status = "none"
BY DEF NoRow, Row, Status

(* What the actions that kill the daemon leave.                             *)
LEMMA GoneTyped ==
    ASSUME TypeOK, NEW STATE st, st \in [Op -> {"new", "ensured", "sent", "local", "over"}],
           Gone(st), UNCHANGED <<ran, appended, dups>>, faults' \in Nat
    PROVE  Typed'
<1>1. Hung(st) \in [Op -> {"new", "ensured", "sent", "local", "over"}]
  BY DEF Hung
<1>2. 0 \in 0 .. Chain
  BY BoundAssumption
<1>3. client' = Hung(st) /\ daemon' = "down" /\ cur' = None /\ left' = 0 /\ serving' = None
      /\ blocked' = FALSE /\ inbox' = {} /\ UNCHANGED <<row, boot, stale, copy>>
  BY DEF Gone, starting
<1>4. QED
  BY <1>1, <1>2, <1>3 DEF Typed, TypeOK, RunsInDrain

-----------------------------------------------------------------------------
(* Typing.                                                                  *)

LEMMA InitTyped == Init => Typed
<1> SUFFICES ASSUME Init
             PROVE  Typed
  OBVIOUS
<1>1. row \in [Op -> Row] /\ copy \in [Op -> Row]
  BY NoRowTyped DEF Init
<1>2. 0 \in 0 .. Chain
  BY BoundAssumption
<1>3. ran \in [Op -> Nat] /\ client \in [Op -> {"new", "ensured", "sent", "local", "over"}]
  BY DEF Init
<1>4. QED
  BY <1>1, <1>2, <1>3 DEF Init, Typed, TypeOK, RunsInDrain

LEMMA CommandTyped ==
    ASSUME Typed, NEW o \in Op, Command(o)
    PROVE  Typed'
<1> USE DEF Typed
<1>1. CASE Ensure(o)
  <2>1. [client EXCEPT ![o] = "ensured"] \in [Op -> {"new", "ensured", "sent", "local", "over"}]
    BY DEF TypeOK
  <2>2. CASE Gone([client EXCEPT ![o] = "ensured"])
    BY <1>1, <2>1, <2>2, GoneTyped DEF Ensure, history, TypeOK
  <2>3. CASE ~Gone([client EXCEPT ![o] = "ensured"])
    BY <1>1, <2>1, <2>3 DEF Ensure, history, server, starting, TypeOK, RunsInDrain
  <2>4. QED
    BY <2>2, <2>3
<1>2. CASE Post(o)
  BY <1>2 DEF Post, history, server, starting, TypeOK, RunsInDrain
<1>3. CASE GiveUp(o)
  BY <1>3 DEF GiveUp, history, server, starting, TypeOK, RunsInDrain
<1>4. CASE LocalRun(o)
  <2>1. [client EXCEPT ![o] = "over"] \in [Op -> {"new", "ensured", "sent", "local", "over"}]
    BY DEF TypeOK
  <2>2. CASE Gone([client EXCEPT ![o] = "over"])
    BY <1>4, <2>1, <2>2, GoneTyped DEF LocalRun, history, TypeOK
  <2>3. CASE ~Gone([client EXCEPT ![o] = "over"])
    BY <1>4, <2>1, <2>3 DEF LocalRun, history, server, starting, TypeOK, RunsInDrain
  <2>4. QED
    BY <2>2, <2>3
<1>5. CASE Enqueue(o)
  <2>1. [status |-> "pending", at |-> appended + 1] \in Row
    BY DEF TypeOK, Row, Status
  <2>2. row' \in [Op -> Row]
    BY <1>5, <2>1 DEF Enqueue, TypeOK
  <2>3. Chain \in 0 .. Chain
    BY BoundAssumption
  <2>4. QED
    BY <1>5, <2>2, <2>3 DEF Enqueue, starting, TypeOK, RunsInDrain
<1>6. QED
  BY <1>1, <1>2, <1>3, <1>4, <1>5 DEF Command

LEMMA DrainTyped ==
    ASSUME Typed, Drain
    PROVE  Typed'
<1> USE DEF Typed
<1>1. row \in [Op -> Row] /\ Chain \in Nat \ {0}
  BY BoundAssumption DEF TypeOK
<1>2. CASE Tick
  BY <1>1, <1>2 DEF Tick, history, starting, TypeOK, RunsInDrain
<1>3. ASSUME NEW old \in SUBSET Op, Take(old)
      PROVE  Typed'
  <2>1. PICK o \in Op : row' = Marked(Marked(row, old, "failed"), {o}, "running")
                        /\ cur' = o /\ ran' = [ran EXCEPT ![o] = @ + 1]
    BY <1>3 DEF Take
  <2>2. row' \in [Op -> Row]
    <3>1. "failed" \in Status /\ "running" \in Status
      BY DEF Status
    <3>2. QED
      BY <1>1, <2>1, <3>1, MarkedRows
  <2>3. ran' \in [Op -> Nat]
    BY <2>1 DEF TypeOK
  <2>4. left' = left /\ left > 0
    BY <1>3 DEF Take
  <2>5. QED
    BY <1>3, <2>1, <2>2, <2>3, <2>4 DEF Take, starting, TypeOK, RunsInDrain
<1>4. ASSUME NEW old \in SUBSET Op, Rest(old)
      PROVE  Typed'
  <2>1. row' \in [Op -> Row]
    BY <1>1, <1>4, MarkedRows DEF Rest, Status
  <2>2. QED
    BY <1>1, <1>4, <2>1 DEF Rest, history, starting, TypeOK, RunsInDrain
<1>5. CASE Finish
  <2>1. row' \in [Op -> Row]
    <3>1. PICK s \in Outcomes : row' = Marked(row, {cur} \ In(row, "none"), s)
      BY <1>5 DEF Finish
    <3>2. s \in Status
      BY DEF Outcomes, Status
    <3>3. QED
      BY <1>1, <3>1, <3>2, MarkedRows
  <2>2. left' \in 0 .. Chain
    BY <1>1, <1>5 DEF Finish, TypeOK, RunsInDrain
  <2>3. QED
    BY <1>5, <2>1, <2>2 DEF Finish, history, starting, TypeOK, RunsInDrain
<1>6. CASE Throws
  BY <1>1, <1>6 DEF Throws, Refused, starting, TypeOK, RunsInDrain
<1>7. CASE KillSelf
  BY <1>7, GoneTyped DEF KillSelf, history, TypeOK
<1>8. ASSUME NEW old \in SUBSET Op, TakeFails(old)
      PROVE  Typed'
  <2>1. row' \in [Op -> Row]
    BY <1>1, <1>8, MarkedRows DEF TakeFails, Status
  <2>2. client' \in [Op -> {"new", "ensured", "sent", "local", "over"}]
    BY <1>8 DEF TakeFails, Refused, TypeOK
  <2>3. 0 \in 0 .. Chain /\ (faults \in Nat => faults + 1 \in Nat)
    BY <1>1
  <2>4. left' \in 0 .. Chain /\ faults' \in Nat /\ blocked' \in BOOLEAN
    BY <1>8, <2>3 DEF TakeFails, TypeOK
  <2>5. daemon' = "idle" /\ serving' = None /\ UNCHANGED <<cur, inbox, boot, stale, copy, appended, ran, dups>>
    BY <1>8 DEF TakeFails, starting
  <2>6. QED
    BY <2>1, <2>2, <2>4, <2>5 DEF TypeOK, RunsInDrain
<1>9. QED
  BY <1>2, <1>3, <1>4, <1>5, <1>6, <1>7, <1>8 DEF Drain

LEMMA BootTyped ==
    ASSUME Typed, Boot
    PROVE  Typed'
<1> USE DEF Typed
<1>1. CASE Start
  <2>1. Running \subseteq Op
    BY DEF Running, In
  <2>2. dups' \in Nat
    BY <1>1 DEF Start, TypeOK
  <2>3. QED
    BY <1>1, <2>1, <2>2 DEF Start, server, TypeOK, RunsInDrain
<1>2. CASE BootRead
  BY <1>2 DEF BootRead, server, history, TypeOK, RunsInDrain
<1>3. CASE BootWrite
  <2>1. row' \in [Op -> Row]
    BY <1>3, MarkedRows DEF BootWrite, TypeOK, Status
  <2>2. copy' \in [Op -> Row]
    BY <1>3, NoRowTyped DEF BootWrite
  <2>3. QED
    BY <1>3, <2>1, <2>2 DEF BootWrite, server, history, TypeOK, RunsInDrain
<1>4. CASE Bind
  BY <1>4 DEF Bind, history, TypeOK, RunsInDrain
<1>5. QED
  BY <1>1, <1>2, <1>3, <1>4 DEF Boot

LEMMA NextTyped == Typed /\ [Next]_vars => Typed'
<1> SUFFICES ASSUME Typed, [Next]_vars
             PROVE  Typed'
  OBVIOUS
<1>1. ASSUME NEW o \in Op, Command(o)
      PROVE  Typed'
  BY <1>1, CommandTyped
<1>2. CASE Drain
  BY <1>2, DrainTyped
<1>3. CASE Boot
  BY <1>3, BootTyped
<1>4. CASE Clear
  <2>1. row' \in [Op -> Row]
    BY <1>4, NoRowTyped DEF Clear, Typed, TypeOK
  <2>2. QED
    BY <1>4, <2>1 DEF Clear, server, starting, history, Typed, TypeOK, RunsInDrain
<1>5. CASE Crash
  <2>1. faults' \in Nat
    BY <1>5 DEF Crash, Typed, TypeOK
  <2>2. QED
    BY <1>5, <2>1, GoneTyped DEF Crash, Typed, TypeOK
<1>6. CASE UNCHANGED vars
  BY <1>6 DEF vars, server, starting, history, Typed, TypeOK, RunsInDrain
<1>7. QED
  BY <1>1, <1>2, <1>3, <1>4, <1>5, <1>6 DEF Next

(* Every reachable state is well typed: the queue file, the drain and the   *)
(* commands, whatever dies and whoever starts beside whom.                  *)
THEOREM PaneOpsTyped == Spec => []TypeOK
<1>1. Typed => TypeOK
  BY DEF Typed
<1>2. QED
  BY <1>1, InitTyped, NextTyped, PTL DEF Spec

-----------------------------------------------------------------------------
(* Traces and races.                                                        *)

LEMMA InitSafe == Init => NoTrace /\ Races
<1> SUFFICES ASSUME Init
             PROVE  NoTrace /\ Races
  OBVIOUS
<1>1. \A o \in Op : /\ row[o].status = "none" /\ copy[o].status = "none" /\ ran[o] = 0
                    /\ o \notin inbox
  BY NoRowTyped DEF Init
<1>2. NoTrace
  BY <1>1 DEF NoTrace
<1>3. dups = 0 /\ ~Racing
  BY DEF Init, Racing
<1>4. \A o \in Op : Waits(o) = 0
  BY <1>1 DEF Waits
<1>5. QED
  BY <1>1, <1>2, <1>3, <1>4 DEF Races

LEMMA WaitsBit == \A o \in Op : Waits(o) \in {0, 1}
BY DEF Waits

(* Most steps neither append a row nor bring one back: a step that takes    *)
(* rows for running only once, and lets nothing become pending, keeps both  *)
(* parts while the same daemon is starting.                                 *)
LEMMA QuietKeeps ==
    ASSUME Typed, Typed', NoTrace, Races,
           boot' = boot, dups' = dups, copy' = copy,
           daemon' # "down" => daemon # "down",
           daemon = "down" => row' = row /\ ran' = ran,
           \A o \in Op : ran'[o] + Waits(o)' <= ran[o] + Waits(o),
           \A o \in Op : Unposted(o)' =>
              /\ Unposted(o)
              /\ row'[o].status = row[o].status /\ ran'[o] = ran[o]
              /\ client'[o] \in {"new", "ensured"} => o \notin inbox'
    PROVE  NoTrace' /\ Races'
<1>1. NoTrace'
  <2>1. ASSUME NEW o \in Op, Unposted(o)'
        PROVE  /\ row'[o].status = "none" /\ copy'[o].status = "none" /\ ran'[o] = 0
               /\ client'[o] \in {"new", "ensured"} => o \notin inbox'
    <3>1. /\ Unposted(o) /\ row'[o].status = row[o].status /\ ran'[o] = ran[o]
          /\ client'[o] \in {"new", "ensured"} => o \notin inbox'
      BY <2>1
    <3>2. row[o].status = "none" /\ copy[o].status = "none" /\ ran[o] = 0
      BY <3>1 DEF NoTrace
    <3>3. QED
      BY <3>1, <3>2
  <2>2. QED
    BY <2>1 DEF NoTrace
<1>2. daemon = "down" => daemon' = "down"
  BY DEF Typed, TypeOK
<1>3. Racing' = Racing
  BY DEF Racing
<1>4. Racing' /\ daemon' # "down" => dups' > 0
  BY <1>2, <1>3 DEF Races
<1>5. ASSUME NEW o \in Op
      PROVE  /\ ran'[o] + Waits(o)' <= 1 + dups'
             /\ Racing' => \/ ran'[o] + Waits(o)' <= dups'
                           \/ daemon' = "down" /\ (boot' = "read" => copy'[o] = row'[o])
  <2>1. /\ ran[o] \in Nat /\ ran'[o] \in Nat /\ dups \in Nat
        /\ Waits(o) \in {0, 1} /\ Waits(o)' \in {0, 1}
    BY WaitsBit DEF Typed, TypeOK, Waits
  <2>2. ran'[o] + Waits(o)' <= 1 + dups'
    BY <2>1 DEF Races
  <2>3. ASSUME Racing'
        PROVE  \/ ran'[o] + Waits(o)' <= dups'
               \/ daemon' = "down" /\ (boot' = "read" => copy'[o] = row'[o])
    <3>1. CASE ran[o] + Waits(o) <= dups
      BY <2>1, <3>1
    <3>2. CASE daemon = "down" /\ (boot = "read" => copy[o] = row[o])
      BY <1>2, <3>2
    <3>3. QED
      BY <1>3, <2>3, <3>1, <3>2 DEF Races
  <2>4. QED
    BY <2>2, <2>3
<1>6. QED
  BY <1>1, <1>4, <1>5 DEF Races

(* A step that does not touch the file, and lets no command post anew.      *)
LEMMA FileKeeps ==
    ASSUME Typed, Typed', NoTrace, Races,
           UNCHANGED <<row, boot, copy, ran, dups>>,
           daemon' # "down" => daemon # "down",
           \A o \in Op : Unposted(o)' =>
              /\ Unposted(o)
              /\ client'[o] \in {"new", "ensured"} => o \notin inbox'
    PROVE  NoTrace' /\ Races'
<1>1. \A o \in Op : Waits(o)' = Waits(o)
  BY DEF Waits
<1>2. \A o \in Op : ran[o] \in Nat /\ Waits(o) \in {0, 1}
  BY WaitsBit DEF Typed, TypeOK
<1>3. \A o \in Op : ran'[o] + Waits(o)' <= ran[o] + Waits(o)
  BY <1>1, <1>2
<1>4. QED
  BY <1>3, QuietKeeps

LEMMA GoneSafe ==
    ASSUME Typed, Typed', NoTrace, Races,
           inbox' = {}, daemon' = "down", UNCHANGED <<row, boot, copy, ran, dups>>,
           \A o \in Op : client'[o] \in {"new", "ensured"} => client[o] \in {"new", "ensured"}
    PROVE  NoTrace' /\ Races'
BY FileKeeps DEF Unposted

LEMMA CommandSafe ==
    ASSUME Typed, Typed', NoTrace, Races, NEW o \in Op, Command(o)
    PROVE  NoTrace' /\ Races'
<1>1. client \in [Op -> {"new", "ensured", "sent", "local", "over"}] /\ row \in [Op -> Row]
  BY DEF Typed, TypeOK
<1>2. CASE Ensure(o)
  <2>1. UNCHANGED <<ran, dups>>
    BY <1>2 DEF Ensure, history
  <2>2. CASE Gone([client EXCEPT ![o] = "ensured"])
    <3>1. \A k \in Op : client'[k] \in {"new", "ensured"} => client[k] \in {"new", "ensured"}
      BY <1>1, <1>2, <2>2 DEF Ensure, Gone, Hung
    <3>2. QED
      BY <2>1, <2>2, <3>1, GoneSafe DEF Gone, starting
  <2>3. CASE ~Gone([client EXCEPT ![o] = "ensured"])
    <3>1. client' = [client EXCEPT ![o] = "ensured"]
          /\ UNCHANGED <<row, daemon, inbox, boot, copy>> /\ client[o] = "new"
      BY <1>2, <2>3 DEF Ensure, server, starting
    <3>2. ASSUME NEW k \in Op, Unposted(k)'
          PROVE  Unposted(k) /\ (client'[k] \in {"new", "ensured"} => k \notin inbox')
      BY <1>1, <3>1, <3>2 DEF Unposted, NoTrace
    <3>3. QED
      BY <2>1, <3>1, <3>2, FileKeeps
  <2>4. QED
    BY <2>2, <2>3
<1>3. CASE Post(o)
  <2>1. /\ UNCHANGED <<row, daemon, boot, copy, ran, dups>> /\ client[o] = "ensured"
        /\ inbox' \subseteq inbox \cup {o}
        /\ client'[o] \in {"local", "sent"}
        /\ \A k \in Op \ {o} : client'[k] = client[k]
    BY <1>1, <1>3 DEF Post, server, starting, history
  <2>2. ASSUME NEW k \in Op, Unposted(k)'
        PROVE  Unposted(k) /\ (client'[k] \in {"new", "ensured"} => k \notin inbox')
    BY <2>1, <2>2 DEF Unposted, NoTrace
  <2>3. QED
    BY <2>1, <2>2, FileKeeps
<1>4. CASE GiveUp(o)
  <2>1. /\ UNCHANGED <<row, daemon, inbox, boot, copy, ran, dups>>
        /\ client'[o] = "local" /\ \A k \in Op \ {o} : client'[k] = client[k]
    BY <1>1, <1>4 DEF GiveUp, server, starting, history
  <2>2. ASSUME NEW k \in Op, Unposted(k)'
        PROVE  Unposted(k) /\ (client'[k] \in {"new", "ensured"} => k \notin inbox')
    BY <2>1, <2>2 DEF Unposted, NoTrace
  <2>3. QED
    BY <2>1, <2>2, FileKeeps
<1>5. CASE LocalRun(o)
  <2>1. UNCHANGED <<ran, dups>>
    BY <1>5 DEF LocalRun, history
  <2>2. CASE Gone([client EXCEPT ![o] = "over"])
    <3>1. \A k \in Op : client'[k] \in {"new", "ensured"} => client[k] \in {"new", "ensured"}
      BY <1>1, <2>2 DEF Gone, Hung
    <3>2. QED
      BY <2>1, <2>2, <3>1, GoneSafe DEF Gone, starting
  <2>3. CASE ~Gone([client EXCEPT ![o] = "over"])
    <3>1. client' = [client EXCEPT ![o] = "over"] /\ UNCHANGED <<row, daemon, inbox, boot, copy>>
      BY <1>5, <2>3 DEF LocalRun, server, starting
    <3>2. ASSUME NEW k \in Op, Unposted(k)'
          PROVE  Unposted(k) /\ (client'[k] \in {"new", "ensured"} => k \notin inbox')
      BY <1>1, <3>1, <3>2 DEF Unposted, NoTrace
    <3>3. QED
      BY <2>1, <3>1, <3>2, FileKeeps
  <2>4. QED
    BY <2>2, <2>3
<1>6. CASE Enqueue(o)
  <2>1. /\ o \in inbox /\ inbox' = inbox \ {o} /\ daemon = "idle" /\ daemon' = "drain"
        /\ UNCHANGED <<client, boot, copy, ran, dups>>
        /\ row'[o].status = "pending" /\ \A k \in Op \ {o} : row'[k] = row[k]
    BY <1>1, <1>6 DEF Enqueue, starting
  <2>2. ran[o] = 0 /\ Waits(o)' = 1 /\ client[o] \notin {"new", "ensured"}
    BY <2>1 DEF NoTrace, Unposted, Waits
  <2>3. NoTrace'
    BY <2>1, <2>2 DEF NoTrace, Unposted
  <2>4. dups \in Nat /\ dups' = dups
    BY <2>1 DEF Typed, TypeOK
  <2>5. ASSUME NEW k \in Op
        PROVE  /\ ran'[k] + Waits(k)' <= 1 + dups'
               /\ Racing' => ran'[k] + Waits(k)' <= dups'
    <3>1. CASE k = o
      BY <2>1, <2>2, <2>4, <3>1 DEF Races, Racing
    <3>2. CASE k # o
      BY <2>1, <2>4, <3>2 DEF Races, Racing, Waits
    <3>3. QED
      BY <3>1, <3>2
  <2>6. Racing' => dups' > 0
    BY <2>1 DEF Races, Racing
  <2>7. QED
    BY <2>3, <2>5, <2>6 DEF Races
<1>7. QED
  BY <1>2, <1>3, <1>4, <1>5, <1>6 DEF Command

LEMMA DrainSafe ==
    ASSUME Typed, Typed', NoTrace, Races, Drain
    PROVE  NoTrace' /\ Races'
<1>1. /\ client \in [Op -> {"new", "ensured", "sent", "local", "over"}]
      /\ row \in [Op -> Row] /\ ran \in [Op -> Nat]
  BY DEF Typed, TypeOK
<1>2. CASE Tick
  BY <1>2, FileKeeps DEF Tick, starting, history, Unposted, NoTrace
<1>3. ASSUME NEW old \in SUBSET Op, Take(old)
      PROVE  NoTrace' /\ Races'
  <2>1. PICK o \in Op : Turn(o) /\ row' = Marked(Marked(row, old, "failed"), {o}, "running")
                        /\ ran' = [ran EXCEPT ![o] = @ + 1]
    BY <1>3 DEF Take
  <2>2. daemon = "drain" /\ old \subseteq Running /\ UNCHANGED <<client, inbox, boot, copy, dups>>
    BY <1>3 DEF Take, starting
  <2>3. Marked(row, old, "failed") \in [Op -> Row]
        /\ \A k \in Op : Marked(row, old, "failed")[k].status
                          = IF k \in old THEN "failed" ELSE row[k].status
    <3>1. "failed" \in Status
      BY DEF Status
    <3>2. QED
      BY <1>1, <3>1, MarkedRows
  <2>4. \A k \in Op : row'[k].status = IF k = o THEN "running"
                       ELSE IF k \in old THEN "failed" ELSE row[k].status
    <3>1. "running" \in Status
      BY DEF Status
    <3>2. QED
      BY <2>1, <2>3, <3>1, MarkedRows
  <2>5. row[o].status = "pending"
    BY <2>1 DEF Turn, Pending, In
  <2>6. ASSUME NEW k \in Op
        PROVE  ran'[k] + Waits(k)' <= ran[k] + Waits(k)
    <3> ran[k] \in Nat /\ ran[o] \in Nat
      BY <1>1
    <3>1. CASE k = o
      <4>1. Waits(k) = 1 /\ Waits(k)' = 0
        BY <2>4, <2>5, <3>1 DEF Waits
      <4>2. ran'[k] = ran[k] + 1
        BY <1>1, <2>1, <3>1
      <4>3. QED
        BY <4>1, <4>2
    <3>2. CASE k # o
      <4>1. Waits(k)' \in {0, Waits(k)} /\ Waits(k) \in {0, 1}
        BY <2>4, <3>2 DEF Waits
      <4>2. ran'[k] = ran[k]
        BY <1>1, <2>1, <3>2
      <4>3. QED
        BY <4>1, <4>2
    <3>3. QED
      BY <3>1, <3>2
  <2>7. ASSUME NEW k \in Op, Unposted(k)'
        PROVE  /\ Unposted(k) /\ row'[k].status = row[k].status /\ ran'[k] = ran[k]
               /\ client'[k] \in {"new", "ensured"} => k \notin inbox'
    <3>1. Unposted(k) /\ row[k].status = "none"
      BY <2>2, <2>7 DEF Unposted, NoTrace
    <3>2. k # o /\ k \notin old
      BY <2>2, <2>5, <3>1 DEF Running, In
    <3>3. QED
      BY <1>1, <2>1, <2>2, <2>4, <3>1, <3>2 DEF NoTrace
  <2>8. QED
    BY <2>2, <2>6, <2>7, QuietKeeps
<1>4. ASSUME NEW S \in SUBSET Op, NEW s \in Status \ {"pending"}, row' = Marked(row, S, s),
             \A k \in S : row[k].status # "none", daemon # "down",
             UNCHANGED <<inbox, boot, copy, ran, dups>>,
             \A k \in Op : client'[k] = client[k]
                           \/ client'[k] \in {"over", "local"}
      PROVE  NoTrace' /\ Races'
  <2>1. \A k \in Op : row'[k].status = IF k \in S THEN s ELSE row[k].status
    BY <1>1, <1>4, MarkedRows
  <2>2. ASSUME NEW k \in Op
        PROVE  ran'[k] + Waits(k)' <= ran[k] + Waits(k)
    BY <1>1, <1>4, <2>1 DEF Waits
  <2>3. ASSUME NEW k \in Op, Unposted(k)'
        PROVE  /\ Unposted(k) /\ row'[k].status = row[k].status /\ ran'[k] = ran[k]
               /\ client'[k] \in {"new", "ensured"} => k \notin inbox'
    <3>1. Unposted(k) /\ row[k].status = "none"
      BY <1>4, <2>3 DEF Unposted, NoTrace
    <3>2. k \notin S
      BY <1>4, <3>1
    <3>3. QED
      BY <1>4, <2>1, <3>1, <3>2 DEF NoTrace
  <2>4. QED
    BY <1>4, <2>2, <2>3, QuietKeeps
<1>5. ASSUME NEW old \in SUBSET Op, Rest(old)
      PROVE  NoTrace' /\ Races'
  <2>1. \A k \in old : row[k].status # "none"
    BY <1>5 DEF Rest, Running, In
  <2>2. "failed" \in Status \ {"pending"} /\ daemon # "down" /\ UNCHANGED <<inbox, boot, copy, ran, dups>>
    BY <1>5 DEF Rest, starting, history, Status
  <2>3. \A k \in Op : client'[k] = client[k] \/ client'[k] \in {"over", "local"}
    BY <1>5 DEF Rest
  <2>4. row' = Marked(row, old, "failed")
    BY <1>5 DEF Rest
  <2>5. QED
    BY <1>4, <2>1, <2>2, <2>3, <2>4
<1>6. CASE Finish
  <2>1. PICK s \in Outcomes : row' = Marked(row, {cur} \ In(row, "none"), s)
    BY <1>6 DEF Finish
  <2>2. s \in Status \ {"pending"}
    BY DEF Outcomes, Status
  <2>3. DEFINE S == ({cur} \ In(row, "none")) \cap Op
  <2>4. row' = Marked(row, S, s)
    BY <2>1 DEF Marked
  <2>5. S \in SUBSET Op /\ \A k \in S : row[k].status # "none"
    BY DEF In
  <2>6. daemon # "down" /\ UNCHANGED <<inbox, boot, copy, ran, dups, client>>
    BY <1>6 DEF Finish, starting, history
  <2>7. QED
    BY <1>4, <2>2, <2>4, <2>5, <2>6
<1>7. CASE Throws
  <2>1. /\ UNCHANGED <<row, inbox, boot, copy, ran, dups>> /\ daemon = "run"
        /\ \A k \in Op : client'[k] = client[k] \/ client'[k] = "local"
    BY <1>7 DEF Throws, Refused, starting
  <2>2. ASSUME NEW k \in Op, Unposted(k)'
        PROVE  Unposted(k) /\ (client'[k] \in {"new", "ensured"} => k \notin inbox')
    BY <2>1, <2>2 DEF Unposted, NoTrace
  <2>3. QED
    BY <2>1, <2>2, FileKeeps
<1>8. CASE KillSelf
  <2>1. Gone(client) /\ UNCHANGED <<ran, dups>>
    BY <1>8 DEF KillSelf, history
  <2>2. \A k \in Op : client'[k] \in {"new", "ensured"} => client[k] \in {"new", "ensured"}
    BY <2>1 DEF Gone, Hung
  <2>3. QED
    BY <2>1, <2>2, GoneSafe DEF Gone, starting
<1>9. ASSUME NEW old \in SUBSET Op, TakeFails(old)
      PROVE  NoTrace' /\ Races'
  <2>1. \A k \in old : row[k].status # "none"
    BY <1>9 DEF TakeFails, Running, In
  <2>2. "failed" \in Status \ {"pending"} /\ daemon # "down" /\ UNCHANGED <<inbox, boot, copy, ran, dups>>
    BY <1>9 DEF TakeFails, starting, Status
  <2>3. \A k \in Op : client'[k] = client[k] \/ client'[k] \in {"over", "local"}
    BY <1>9 DEF TakeFails, Refused
  <2>4. row' = Marked(row, old, "failed")
    BY <1>9 DEF TakeFails
  <2>5. QED
    BY <1>4, <2>1, <2>2, <2>3, <2>4
<1>10. QED
  BY <1>2, <1>3, <1>5, <1>6, <1>7, <1>8, <1>9 DEF Drain

LEMMA BootSafe ==
    ASSUME Typed, Typed', NoTrace, Races, Boot
    PROVE  NoTrace' /\ Races'
<1>1. /\ row \in [Op -> Row] /\ copy \in [Op -> Row] /\ ran \in [Op -> Nat] /\ dups \in Nat
      /\ \A o \in Op : Waits(o) \in {0, 1} /\ Waits(o)' \in {0, 1}
  BY WaitsBit DEF Typed, TypeOK, Waits
<1>2. CASE Start
  <2>1. /\ boot = "none" /\ boot' = "found"
        /\ UNCHANGED <<row, daemon, client, inbox, copy, ran>>
        /\ \/ daemon = "down" /\ dups' = dups
           \/ daemon = "run" /\ dups' = dups + 1
    BY <1>2 DEF Start, server
  <2>2. NoTrace'
    BY <2>1 DEF NoTrace, Unposted
  <2>3. ASSUME NEW o \in Op
        PROVE  /\ ran'[o] + Waits(o)' <= 1 + dups'
               /\ \/ ran'[o] + Waits(o)' <= dups' \/ daemon' = "down"
    <3>1. ran[o] + Waits(o) <= 1 + dups /\ Waits(o)' = Waits(o)
      BY <2>1 DEF Races, Waits
    <3>2. QED
      BY <1>1, <2>1, <3>1
  <2>4. daemon' # "down" => dups' > 0
    BY <1>1, <2>1
  <2>5. QED
    BY <2>1, <2>2, <2>3, <2>4 DEF Races
<1>3. CASE BootRead
  <2>1. /\ boot = "found" /\ boot' \in {"bind", "read"}
        /\ UNCHANGED <<row, daemon, client, inbox, ran, dups>>
        /\ copy' \in {copy, row} /\ (boot' = "read" => copy' = row)
    BY <1>3 DEF BootRead, server, history
  <2>2. NoTrace'
    BY <2>1 DEF NoTrace, Unposted
  <2>3. \A o \in Op : Waits(o)' = Waits(o)
    BY <2>1 DEF Waits
  <2>4. QED
    BY <2>1, <2>2, <2>3 DEF Races, Racing
<1>4. CASE BootWrite
  <2>1. /\ boot = "read" /\ boot' = "bind" /\ UNCHANGED <<daemon, client, inbox, ran, dups>>
        /\ row' = Marked(copy, stale \ In(copy, "none"), "failed")
        /\ copy' = [o \in Op |-> NoRow]
    BY <1>4 DEF BootWrite, server, history
  <2>2. \A o \in Op : row'[o].status
                        = IF o \in stale \ In(copy, "none") THEN "failed" ELSE copy[o].status
    <3>1. "failed" \in Status
      BY DEF Status
    <3>2. QED
      BY <1>1, <2>1, <3>1, MarkedRows
  <2>3. NoTrace'
    BY <2>1, <2>2, NoRowTyped DEF NoTrace, Unposted, In
  <2>4. ASSUME NEW o \in Op
        PROVE  ran'[o] + Waits(o)' <= 1 + dups'
    <3>1. CASE ran[o] + Waits(o) <= dups
      BY <1>1, <2>1, <3>1
    <3>2. CASE copy[o] = row[o]
      <4>1. Waits(o)' <= Waits(o)
        BY <2>2, <3>2 DEF Waits
      <4>2. ran[o] + Waits(o) <= 1 + dups
        BY DEF Races
      <4>3. QED
        BY <1>1, <2>1, <4>1, <4>2
    <3>3. QED
      BY <2>1, <3>1, <3>2 DEF Races, Racing
  <2>5. ~Racing'
    BY <2>1 DEF Racing
  <2>6. QED
    BY <2>3, <2>4, <2>5 DEF Races
<1>5. CASE Bind
  <2>1. ~Racing' /\ UNCHANGED <<row, client, inbox, copy, ran, dups>>
    BY <1>5 DEF Bind, history, Racing
  <2>2. NoTrace'
    BY <2>1 DEF NoTrace, Unposted
  <2>3. \A o \in Op : Waits(o)' = Waits(o)
    BY <2>1 DEF Waits
  <2>4. QED
    BY <2>1, <2>2, <2>3 DEF Races
<1>6. QED
  BY <1>2, <1>3, <1>4, <1>5 DEF Boot

LEMMA NextSafe ==
    ASSUME Typed, Typed', NoTrace, Races, [Next]_vars
    PROVE  NoTrace' /\ Races'
<1>1. ASSUME NEW o \in Op, Command(o)
      PROVE  NoTrace' /\ Races'
  BY <1>1, CommandSafe
<1>2. CASE Drain
  BY <1>2, DrainSafe
<1>3. CASE Boot
  BY <1>3, BootSafe
<1>4. CASE Clear
  <2>1. /\ daemon = "idle" /\ UNCHANGED <<daemon, client, inbox, boot, copy, ran, dups>>
        /\ row' = [o \in Op |-> IF o \in Pending \cup Running THEN NoRow ELSE row[o]]
    BY <1>4 DEF Clear, server, starting, history
  <2>2. \A o \in Op : ran[o] \in Nat /\ row'[o].status \in {row[o].status, "none"}
    BY <2>1, NoRowTyped DEF Typed, TypeOK
  <2>3. \A o \in Op : ran'[o] + Waits(o)' <= ran[o] + Waits(o)
    BY <2>1, <2>2 DEF Waits
  <2>4. ASSUME NEW o \in Op, Unposted(o)'
        PROVE  /\ Unposted(o) /\ row'[o].status = row[o].status /\ ran'[o] = ran[o]
               /\ client'[o] \in {"new", "ensured"} => o \notin inbox'
    BY <2>1, <2>2, <2>4 DEF Unposted, NoTrace
  <2>5. QED
    BY <2>1, <2>3, <2>4, QuietKeeps
<1>5. CASE Crash
  <2>1. Gone(client) /\ UNCHANGED <<ran, dups>>
    BY <1>5 DEF Crash
  <2>2. \A k \in Op : client'[k] \in {"new", "ensured"} => client[k] \in {"new", "ensured"}
    BY <2>1 DEF Gone, Hung
  <2>3. QED
    BY <2>1, <2>2, GoneSafe DEF Gone, starting
<1>6. CASE UNCHANGED vars
  BY <1>6, FileKeeps DEF vars, server, starting, history, Unposted, NoTrace
<1>7. QED
  BY <1>1, <1>2, <1>3, <1>4, <1>5, <1>6 DEF Next

LEMMA SafeGives == Typed /\ Races => RunsOncePerRace
<1> SUFFICES ASSUME Typed, Races, NEW o \in Op
             PROVE  ran[o] <= 1 + dups
  BY DEF RunsOncePerRace
<1>1. ran[o] \in Nat /\ dups \in Nat /\ Waits(o) \in {0, 1} /\ ran[o] + Waits(o) <= 1 + dups
  BY WaitsBit DEF Typed, TypeOK, Races
<1>2. QED
  BY <1>1

(* The daemon begins an operation at most once, and once more for each      *)
(* daemon that was started beside a live one: neither a death in the middle *)
(* of an operation, nor a restart, nor POST /pane-ops/clear repeats it.     *)
THEOREM PaneOpsRunOnce == Spec => []RunsOncePerRace
<1>1. Init => Safe
  BY InitTyped, InitSafe DEF Safe
<1>2. Safe /\ [Next]_vars => Safe'
  BY NextTyped, NextSafe DEF Safe
<1>3. Safe => RunsOncePerRace
  BY SafeGives DEF Safe
<1>4. QED
  BY <1>1, <1>2, <1>3, PTL DEF Spec

-----------------------------------------------------------------------------
(* The contract.                                                            *)

LEMMA InitAlone == Init => Alone
BY DEF Init, Alone

(* Only a starting daemon writes when there is no other, and it has read    *)
(* what it finds.                                                          *)
LEMMA AloneStep ==
    ASSUME Typed, Races, Alone, [Next]_vars
    PROVE  Alone'
<1> SUFFICES ASSUME boot' = "read", dups' = 0
             PROVE  copy' = row'
  BY DEF Alone
<1>1. dups = 0
  <2>1. dups \in Nat /\ (dups' = dups \/ dups' = dups + 1)
    BY DEF Typed, TypeOK, Next, Command, Ensure, Post, GiveUp, LocalRun, Enqueue, Drain, Tick, Take,
           Rest, Finish, TakeFails, Throws, KillSelf,
           Boot, Start, BootRead, BootWrite, Bind, Clear, Crash,
           history, vars
  <2>2. QED
    BY <2>1
<1>2. CASE boot = "read"
  <2>1. daemon = "down" /\ copy = row
    BY <1>1, <1>2 DEF Races, Racing, Alone
  <2>2. UNCHANGED <<row, copy>>
    BY <1>2, <2>1 DEF Next, Command, Ensure, Gone, Post, GiveUp, LocalRun, Enqueue, Drain, Tick,
           Take, Rest, Finish, TakeFails, Throws, KillSelf,
           Boot, Start, BootRead, BootWrite, Bind, Clear, Crash,
           starting, history, vars
  <2>3. QED
    BY <2>1, <2>2
<1>3. CASE boot # "read"
  <2>1. BootRead
    BY <1>3 DEF Next, Command, Ensure, Gone, Post, GiveUp, LocalRun, Enqueue, Drain, Tick,
           Take, Rest, Finish, TakeFails, Throws, KillSelf,
           Boot, Start, BootWrite, Bind, Clear, Crash,
           starting, vars
  <2>2. QED
    BY <2>1 DEF BootRead
<1>4. QED
  BY <1>2, <1>3

(* What may happen to the row of an operation, and to its count of runs.    *)
Taken(o) ==
    /\ row[o].status = "pending" /\ row'[o].status = "running"
    /\ ran'[o] = ran[o] + 1

Ages(o) ==
    /\ ran'[o] = ran[o]
    /\ \/ row'[o].status = row[o].status
       \/ Unposted(o) /\ row'[o].status = "pending"
       \/ row[o].status # "none" /\ row'[o].status \in {"done", "failed"}
       \/ row[o].status \in {"pending", "running"} /\ row'[o].status = "none"
       \/ dups > 0 /\ Unposted(o)' = Unposted(o)

(* A step that takes rows or ages them, and lets nobody post anew, is a    *)
(* step of the contract.                                                   *)
LEMMA StageStep ==
    ASSUME Safe, Safe', dups' = dups,
           \A o \in Op : Unposted(o)' => Unposted(o),
           \A o \in Op : Taken(o) \/ Ages(o)
    PROVE  Jobs!Step
<1>1. OpStage' \in [Op -> {"none", "waiting", "running", "over"}] /\ ran' \in [Op -> Nat]
  <2>1. \A s \in Status : StageOf[s] \in {"waiting", "running", "over"}
    BY DEF Status, StageOf
  <2>2. ran' \in [Op -> Nat] /\ \A o \in Op : row'[o].status \in Status
    BY DEF Safe, Typed, TypeOK, Row
  <2>3. QED
    BY <2>1, <2>2 DEF OpStage
<1>2. ASSUME NEW o \in Op
      PROVE  Jobs!Begins(o) \/ Jobs!Goes(o)
  <2>1. /\ OpStage[o] = IF Unposted(o) THEN "none" ELSE StageOf[row[o].status]
        /\ OpStage'[o] = IF Unposted(o)' THEN "none" ELSE StageOf[row'[o].status]
    BY DEF OpStage
  <2>2. /\ row[o].status \in Status /\ row'[o].status \in Status
        /\ \A s \in Status : StageOf[s] = IF s = "pending" THEN "waiting"
                                          ELSE IF s = "running" THEN "running" ELSE "over"
    BY DEF Safe, Typed, TypeOK, Row, Status, StageOf
  <2>3. ran[o] \in Nat /\ ran'[o] \in Nat /\ dups \in Nat
    BY DEF Safe, Typed, TypeOK
  <2>4. Unposted(o) => row[o].status = "none" /\ ran[o] = 0
    BY DEF Safe, NoTrace
  <2>5. Unposted(o)' => row'[o].status = "none" /\ ran'[o] = 0
    BY DEF Safe, NoTrace
  <2>6. CASE Taken(o)
    <3>1. ~Unposted(o) /\ ~Unposted(o)'
      BY <2>4, <2>5, <2>6 DEF Taken
    <3>2. OpStage[o] = "waiting" /\ OpStage'[o] = "running"
      BY <2>1, <2>2, <2>6, <3>1 DEF Taken
    <3>3. ran[o] <= dups
      BY <2>3, <2>6 DEF Safe, Races, Waits, Taken
    <3>4. QED
      BY <2>6, <3>2, <3>3 DEF Taken, Jobs!Begins
  <2>7. CASE Ages(o)
    <3>1. ran'[o] = ran[o]
      BY <2>7 DEF Ages
    <3>2. CASE Unposted(o)'
      BY <2>1, <3>1, <3>2 DEF Jobs!Goes
    <3>3. CASE Unposted(o) /\ ~Unposted(o)'
      <4>1. OpStage[o] = "none" /\ row[o].status = "none"
        BY <2>1, <2>4, <3>3
      <4>2. OpStage'[o] \in {"waiting", "running", "over"} 
        BY <2>1, <2>2, <3>3
      <4>3. QED
        BY <4>1, <4>2, <2>1, <2>2, <2>7, <3>1, <3>3 DEF Ages, Jobs!Goes
    <3>4. CASE ~Unposted(o)
      <4>1. /\ OpStage[o] = StageOf[row[o].status] /\ OpStage'[o] = StageOf[row'[o].status]
            /\ OpStage[o] # "none" /\ OpStage'[o] # "none"
        BY <2>1, <2>2, <3>4
      <4>2. QED
        BY <2>2, <2>7, <3>1, <3>4, <4>1 DEF Ages, Jobs!Goes
    <3>5. QED
      BY <3>2, <3>3, <3>4
  <2>8. QED
    BY <2>6, <2>7
<1>3. QED
  BY <1>1, <1>2 DEF Jobs!Step

(* A step that leaves the file alone.                                      *)
LEMMA SameFile ==
    ASSUME Safe, Safe', UNCHANGED <<row, ran, dups>>,
           \A o \in Op : Unposted(o)' => Unposted(o)
    PROVE  Jobs!Step
BY StageStep DEF Ages

LEMMA GoneStage ==
    ASSUME Safe, Safe', NEW STATE st, Gone(st), UNCHANGED <<ran, dups>>,
           \A o \in Op : st[o] \in {"new", "ensured"} => client[o] \in {"new", "ensured"}
    PROVE  Jobs!Step
<1>1. UNCHANGED row /\ \A o \in Op : Unposted(o)' => Unposted(o)
  BY DEF Gone, Hung, Unposted
<1>2. QED
  BY <1>1, SameFile

LEMMA CommandStage ==
    ASSUME Safe, Safe', NEW o \in Op, Command(o)
    PROVE  Jobs!Step
<1>1. client \in [Op -> {"new", "ensured", "sent", "local", "over"}] /\ row \in [Op -> Row]
  BY DEF Safe, Typed, TypeOK
<1>2. CASE Ensure(o)
  <2>1. UNCHANGED <<ran, dups>> /\ client[o] = "new"
    BY <1>2 DEF Ensure, history
  <2>2. CASE Gone([client EXCEPT ![o] = "ensured"])
    BY <1>1, <2>1, <2>2, GoneStage
  <2>3. CASE ~Gone([client EXCEPT ![o] = "ensured"])
    <3>1. client' = [client EXCEPT ![o] = "ensured"] /\ UNCHANGED <<row, inbox>>
      BY <1>2, <2>3 DEF Ensure
    <3>2. QED
      BY <1>1, <2>1, <3>1, SameFile DEF Unposted
  <2>4. QED
    BY <2>2, <2>3
<1>3. CASE Post(o)
  <2>1. /\ UNCHANGED <<row, ran, dups>> /\ client[o] = "ensured" /\ inbox' \subseteq inbox \cup {o}
        /\ client'[o] \in {"local", "sent"}
        /\ \A k \in Op \ {o} : client'[k] = client[k]
    BY <1>1, <1>3 DEF Post, server, starting, history
  <2>2. \A k \in Op : Unposted(k)' => Unposted(k)
    BY <2>1 DEF Unposted
  <2>3. QED
    BY <2>1, <2>2, SameFile
<1>4. CASE GiveUp(o)
  <2>1. /\ UNCHANGED <<row, inbox, ran, dups>>
        /\ client'[o] = "local" /\ \A k \in Op \ {o} : client'[k] = client[k]
    BY <1>1, <1>4 DEF GiveUp, history
  <2>2. QED
    BY <2>1, SameFile DEF Unposted
<1>5. CASE LocalRun(o)
  <2>1. UNCHANGED <<ran, dups>>
    BY <1>5 DEF LocalRun, history
  <2>2. CASE Gone([client EXCEPT ![o] = "over"])
    BY <1>1, <2>1, <2>2, GoneStage
  <2>3. CASE ~Gone([client EXCEPT ![o] = "over"])
    <3>1. client' = [client EXCEPT ![o] = "over"] /\ UNCHANGED <<row, inbox>>
      BY <1>5, <2>3 DEF LocalRun
    <3>2. QED
      BY <1>1, <2>1, <3>1, SameFile DEF Unposted
  <2>4. QED
    BY <2>2, <2>3
<1>6. CASE Enqueue(o)
  <2>1. /\ o \in inbox /\ inbox' = inbox \ {o} /\ UNCHANGED <<client, ran, dups>>
        /\ row'[o].status = "pending" /\ \A k \in Op \ {o} : row'[k] = row[k]
    BY <1>1, <1>6 DEF Enqueue
  <2>2. \A k \in Op : (Unposted(k)' => Unposted(k)) /\ Ages(k)
    BY <2>1 DEF Unposted, Ages
  <2>3. QED
    BY <2>1, <2>2, StageStep
<1>7. QED
  BY <1>2, <1>3, <1>4, <1>5, <1>6 DEF Command

LEMMA DrainStage ==
    ASSUME Safe, Safe', Drain
    PROVE  Jobs!Step
<1>1. row \in [Op -> Row] /\ ran \in [Op -> Nat] /\ "failed" \in Status /\ "running" \in Status
  BY DEF Safe, Typed, TypeOK, Status
<1>2. CASE Tick
  BY <1>2, SameFile DEF Tick, starting, history, Unposted
<1>3. ASSUME NEW old \in SUBSET Op, Take(old)
      PROVE  Jobs!Step
  <2>1. PICK o \in Op : Turn(o) /\ row' = Marked(Marked(row, old, "failed"), {o}, "running")
                        /\ ran' = [ran EXCEPT ![o] = @ + 1]
    BY <1>3 DEF Take
  <2>2. old \subseteq Running /\ UNCHANGED <<client, inbox, dups>>
    BY <1>3 DEF Take
  <2>3. /\ Marked(row, old, "failed") \in [Op -> Row]
        /\ \A k \in Op : Marked(row, old, "failed")[k].status
                          = IF k \in old THEN "failed" ELSE row[k].status
    BY <1>1, MarkedRows
  <2>4. \A k \in Op : row'[k].status = IF k = o THEN "running"
                       ELSE IF k \in old THEN "failed" ELSE row[k].status
    BY <1>1, <2>1, <2>3, MarkedRows
  <2>5. row[o].status = "pending" /\ \A k \in old : row[k].status = "running"
    BY <2>1, <2>2 DEF Turn, Pending, Running, In
  <2>6. Taken(o) /\ \A k \in Op \ {o} : Ages(k)
    BY <1>1, <2>1, <2>4, <2>5 DEF Taken, Ages
  <2>7. QED
    BY <2>2, <2>6, StageStep DEF Unposted
<1>4. ASSUME NEW S, NEW s \in {"done", "failed"}, row' = Marked(row, S, s),
             \A k \in S : k \in Op => row[k].status # "none",
             UNCHANGED <<inbox, ran, dups>>,
             \A k \in Op : client'[k] = client[k] \/ client'[k] \in {"over", "local"}
      PROVE  Jobs!Step
  <2>1. \A k \in Op : row'[k].status = IF k \in S THEN s ELSE row[k].status
    <3>1. s \in Status
      BY DEF Status
    <3>2. QED
      BY <1>1, <1>4, <3>1, MarkedRows
  <2>2. \A k \in Op : Ages(k) /\ (Unposted(k)' => Unposted(k))
    BY <1>4, <2>1 DEF Ages, Unposted
  <2>3. QED
    BY <1>4, <2>2, StageStep
<1>5. ASSUME NEW old \in SUBSET Op, Rest(old)
      PROVE  Jobs!Step
  <2>1. \A k \in old : row[k].status # "none"
    BY <1>5 DEF Rest, Running, In
  <2>2. UNCHANGED <<inbox, ran, dups>>
        /\ \A k \in Op : client'[k] = client[k] \/ client'[k] \in {"over", "local"}
    BY <1>5 DEF Rest, history
  <2>3. row' = Marked(row, old, "failed")
    BY <1>5 DEF Rest
  <2>4. QED
    BY <1>4, <2>1, <2>2, <2>3
<1>6. CASE Finish
  <2>1. PICK s \in Outcomes : row' = Marked(row, {cur} \ In(row, "none"), s)
    BY <1>6 DEF Finish
  <2>2. s \in {"done", "failed"}
    BY DEF Outcomes
  <2>3. \A k \in {cur} \ In(row, "none") : k \in Op => row[k].status # "none"
    BY DEF In
  <2>4. UNCHANGED <<inbox, ran, dups, client>>
    BY <1>6 DEF Finish, history
  <2>5. QED
    BY <1>4, <2>1, <2>2, <2>3, <2>4
<1>7. CASE Throws
  <2>1. UNCHANGED <<row, inbox, ran, dups>>
        /\ \A k \in Op : client'[k] = client[k] \/ client'[k] = "local"
    BY <1>7 DEF Throws, Refused
  <2>2. \A k \in Op : Unposted(k)' => Unposted(k)
    BY <2>1 DEF Unposted
  <2>3. QED
    BY <2>1, <2>2, SameFile
<1>8. CASE KillSelf
  BY <1>8, GoneStage DEF KillSelf, history
<1>9. ASSUME NEW old \in SUBSET Op, TakeFails(old)
      PROVE  Jobs!Step
  <2>1. \A k \in old : row[k].status # "none"
    BY <1>9 DEF TakeFails, Running, In
  <2>2. UNCHANGED <<inbox, ran, dups>>
        /\ \A k \in Op : client'[k] = client[k] \/ client'[k] \in {"over", "local"}
    BY <1>9 DEF TakeFails, Refused
  <2>3. row' = Marked(row, old, "failed")
    BY <1>9 DEF TakeFails
  <2>4. QED
    BY <1>4, <2>1, <2>2, <2>3
<1>10. QED
  BY <1>2, <1>3, <1>5, <1>6, <1>7, <1>8, <1>9 DEF Drain

(* A daemon that starts: beside another it is a slip, and what it writes    *)
(* back is the file itself unless there was one.                           *)
LEMMA BootStage ==
    ASSUME Safe, Safe', Alone, Boot
    PROVE  Jobs!Next
<1>1. CASE Start
  <2>1. UNCHANGED <<row, client, inbox, ran>> /\ (dups' = dups \/ dups' = dups + 1)
    BY <1>1 DEF Start, server
  <2>2. CASE dups' = dups
    BY <2>1, <2>2, SameFile DEF Unposted, Jobs!Next
  <2>3. CASE dups' = dups + 1
    <3>1. OpStage' = OpStage
      BY <2>1 DEF OpStage, Unposted
    <3>2. QED
      BY <2>1, <2>3, <3>1 DEF Jobs!Slip, Jobs!Next
  <2>4. QED
    BY <2>1, <2>2, <2>3
<1>2. CASE BootRead
  BY <1>2, SameFile DEF BootRead, server, history, Unposted, Jobs!Next
<1>3. CASE BootWrite
  <2>1. /\ boot = "read" /\ UNCHANGED <<client, inbox, ran, dups>>
        /\ row' = Marked(copy, stale \ In(copy, "none"), "failed")
    BY <1>3 DEF BootWrite, server, history
  <2>2. \A o \in Op : row'[o].status
                        = IF o \in stale \ In(copy, "none") THEN "failed" ELSE copy[o].status
    BY <2>1, MarkedRows DEF Safe, Typed, TypeOK, Status
  <2>3. \A o \in Op : Unposted(o)' = Unposted(o)
    BY <2>1 DEF Unposted
  <2>4. ASSUME NEW o \in Op
        PROVE  Ages(o)
    <3>1. CASE dups = 0
      <4>1. copy = row
        BY <2>1, <3>1 DEF Alone
      <4>2. QED
        BY <2>1, <2>2, <4>1 DEF Ages, In
    <3>2. CASE dups > 0
      BY <2>1, <2>3, <3>2 DEF Ages
    <3>3. QED
      BY <3>1, <3>2 DEF Safe, Typed, TypeOK
  <2>5. QED
    BY <2>1, <2>3, <2>4, StageStep DEF Jobs!Next
<1>4. CASE Bind
  BY <1>4, SameFile DEF Bind, history, Unposted, Jobs!Next
<1>5. QED
  BY <1>1, <1>2, <1>3, <1>4 DEF Boot

LEMMA NextStage ==
    ASSUME Safe, Safe', Alone, [Next]_vars
    PROVE  [Jobs!Next]_(Jobs!vars)
<1>1. ASSUME NEW o \in Op, Command(o)
      PROVE  Jobs!Next
  BY <1>1, CommandStage DEF Jobs!Next
<1>2. CASE Drain
  BY <1>2, DrainStage DEF Jobs!Next
<1>3. CASE Boot
  BY <1>3, BootStage
<1>4. CASE Clear
  <2>1. /\ UNCHANGED <<client, inbox, ran, dups>>
        /\ row' = [o \in Op |-> IF o \in Pending \cup Running THEN NoRow ELSE row[o]]
    BY <1>4 DEF Clear, server, history
  <2>2. \A o \in Op : Ages(o)
    BY <2>1, NoRowTyped DEF Ages, Pending, Running, In
  <2>3. QED
    BY <2>1, <2>2, StageStep DEF Unposted, Jobs!Next
<1>5. CASE Crash
  BY <1>5, GoneStage DEF Crash, Jobs!Next
<1>6. CASE UNCHANGED vars
  BY <1>6, SameFile DEF vars, server, history, Unposted, Jobs!Next
<1>7. QED
  BY <1>1, <1>2, <1>3, <1>4, <1>5, <1>6 DEF Next

(* The queue of pane operations keeps the contract of a queue of jobs: an   *)
(* operation begins once and what is over stays over, whatever dies and     *)
(* restarts (PANE_OPS.jsonl, drainPaneOpsOnce, reclaimStaleRunningPaneOps), *)
(* but for daemons that start beside a live one.                           *)
THEOREM PaneOpsKeepContract == Spec => KeepsJobContract
<1>1. Init => Safe /\ Alone
  BY InitTyped, InitSafe, InitAlone DEF Safe
<1>2. Safe /\ Alone /\ [Next]_vars => (Safe /\ Alone)'
  BY NextTyped, NextSafe, AloneStep DEF Safe
<1>3. Safe /\ Safe' /\ Alone /\ [Next]_vars => [Jobs!Next]_(Jobs!vars)
  BY NextStage
<1>4. Init => Jobs!Init
  BY NoRowTyped DEF Init, Jobs!Init, OpStage, Unposted
<1>5. QED
  BY <1>1, <1>2, <1>3, <1>4, PTL DEF Spec, KeepsJobContract, Jobs!Spec
=============================================================================
