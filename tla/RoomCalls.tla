----------------------------- MODULE RoomCalls ------------------------------
(***************************************************************************)
(* Calls between workers: one worker calls, the other accepts, which opens *)
(* a room for the two, or declines.  Every command is a process of its own *)
(* that reads the whole file of calls and later writes the whole file, so  *)
(* what it writes may be older than the file it replaces; and it can die   *)
(* between any two of its steps.                                           *)
(***************************************************************************)
EXTENDS FiniteSets

CONSTANTS
    Call,     \* the `room call` commands, each with the call it creates
    Answer,   \* the `room accept` and `room decline` commands
    Caller, Callee  \* Caller[c], Callee[c]: the workers of a call

ASSUME CallAssumption ==
    DOMAIN Caller = Call /\ DOMAIN Callee = Call /\ Call \cap Answer = {}

VARIABLES
    calls,   \* calls[c]: the status of the row in the file of calls
    log,     \* log[c]: the ledger of the room of c: "none", "empty", "said"
    at,      \* at[p]: where the command p is
    seen,    \* seen[p]: the file as p last read it
    on,      \* on[a]: the call the answer a is about
    verdict  \* verdict[a]: "accepted" or "declined"

callVars == <<calls, log, at, seen, on, verdict>>

Process == Call \cup Answer
Status == {"none", "pending", "accepted", "declined"}

CallInit ==
    /\ calls = [c \in Call |-> "none"] /\ log = [c \in Call |-> "none"]
    /\ at = [p \in Process |-> "idle"] /\ seen = [p \in Process |-> calls]
    /\ on \in [Answer -> Call] /\ verdict \in [Answer -> {"accepted", "declined"}]

Goto(p, where) == at' = [at EXCEPT ![p] = where]
Read(p) == seen' = [seen EXCEPT ![p] = calls]

(***************************************************************************)
(* room call: refused while a call of the two, in either direction, is     *)
(* pending.                                                                *)
(***************************************************************************)
SamePair(c, d) ==
    \/ Caller[c] = Caller[d] /\ Callee[c] = Callee[d]
    \/ Caller[c] = Callee[d] /\ Callee[c] = Caller[d]

(* Mutated form of PairPending, for OnePendingCall: one direction only.          *)
OneWayPending(c, file) ==
    \E d \in Call : file[d] = "pending" /\ Caller[c] = Caller[d] /\ Callee[c] = Callee[d]

PairPending(c, file) == \E d \in Call : file[d] = "pending" /\ SamePair(c, d)

ReadForCall(c) ==
    /\ at[c] = "idle" /\ Read(c)
    /\ Goto(c, IF PairPending(c, calls) THEN "done" ELSE "write")
    /\ UNCHANGED <<calls, log, on, verdict>>

WriteCall(c) ==
    /\ at[c] = "write"
    /\ calls' = [seen[c] EXCEPT ![c] = "pending"] /\ Goto(c, "done")
    /\ UNCHANGED <<log, seen, on, verdict>>

(***************************************************************************)
(* room accept and room decline.                                           *)
(***************************************************************************)
(* Mutated form of AfterFind, for AcceptedHasRoom: the answer is recorded  *)
(* before the room is made.                                                *)
RecordFirst(a) == "reread"

(* The call must be pending; an accept goes on to its room first.          *)
AfterFind(a) == IF verdict[a] = "accepted" THEN "room" ELSE "reread"

Find(a) ==
    /\ at[a] = "idle" /\ calls[on[a]] # "none"
    /\ Goto(a, IF calls[on[a]] = "pending" THEN AfterFind(a) ELSE "done")
    /\ UNCHANGED <<calls, log, seen, on, verdict>>

(* createRoom refuses a room that has a ledger, then writes an empty one.  *)
CheckRoom(a) ==
    /\ at[a] = "room"
    /\ Goto(a, IF log[on[a]] = "none" THEN "create" ELSE "done")
    /\ UNCHANGED <<calls, log, seen, on, verdict>>

CreateRoom(a) ==
    /\ at[a] = "create"
    /\ log' = [log EXCEPT ![on[a]] = "empty"] /\ Goto(a, "say")
    /\ UNCHANGED <<calls, seen, on, verdict>>

SayConnected(a) ==
    /\ at[a] = "say"
    /\ log' = [log EXCEPT ![on[a]] = "said"] /\ Goto(a, "reread")
    /\ UNCHANGED <<calls, seen, on, verdict>>

(* updateCall reads the file again: the row may be lost by now.            *)
Reread(a) ==
    /\ at[a] = "reread" /\ Read(a)
    /\ Goto(a, IF calls[on[a]] = "none" THEN "done" ELSE "rewrite")
    /\ UNCHANGED <<calls, log, on, verdict>>

WriteAnswer(a) ==
    /\ at[a] = "rewrite"
    /\ calls' = [seen[a] EXCEPT ![on[a]] = verdict[a]] /\ Goto(a, "done")
    /\ UNCHANGED <<log, seen, on, verdict>>

Killed(p) ==
    /\ at[p] \notin {"idle", "done"} /\ Goto(p, "done")
    /\ UNCHANGED <<calls, log, seen, on, verdict>>

AnswerStep(a) ==
    \/ Find(a) \/ CheckRoom(a) \/ CreateRoom(a) \/ SayConnected(a)
    \/ Reread(a) \/ WriteAnswer(a)

CallNext ==
    \/ \E c \in Call : ReadForCall(c) \/ WriteCall(c)
    \/ \E a \in Answer : AnswerStep(a)
    \/ \E p \in Process : Killed(p)

CallSpec == CallInit /\ [][CallNext]_callVars

(***************************************************************************)
(* Properties.                                                             *)
(***************************************************************************)
(* The type invariant of the calls.                                        *)
CallTypeOK ==
    /\ calls \in [Call -> Status] /\ log \in [Call -> {"none", "empty", "said"}]
    /\ at \in [Process -> {"idle", "write", "room", "create", "say", "reread",
                           "rewrite", "done"}]
    /\ seen \in [Process -> [Call -> Status]]
    /\ on \in [Answer -> Call] /\ verdict \in [Answer -> {"accepted", "declined"}]

(* Two workers never have two pending calls between them, in whatever      *)
(* order the commands read and overwrite the file: writing back an old     *)
(* file can lose a call, it cannot bring a second one in.                  *)
OnePendingCall ==
    \A c, d \in Call :
        calls[c] = "pending" /\ calls[d] = "pending" /\ SamePair(c, d) => c = d

(* A call is accepted only when its room is there, wherever the accepting  *)
(* command was killed and whoever else answered the call.                  *)
AcceptedHasRoom == \A c \in Call : calls[c] = "accepted" => log[c] # "none"
=============================================================================
