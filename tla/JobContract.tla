---------------------------- MODULE JobContract ----------------------------
(***************************************************************************)
(* What a queue of jobs promises whoever hands one in, with no word on how *)
(* it is kept: a job waits, runs and is over, or is over without having    *)
(* run; it begins once, and what is over stays over.  Only a slip, a       *)
(* second server that writes back an old copy of the queue, brings a job   *)
(* back, and each job begins at most once more for it.                     *)
(***************************************************************************)
EXTENDS Naturals

CONSTANT Job   \* the jobs that may be handed in

VARIABLES
    stage,     \* where each job is
    begun,     \* how often it began to run
    slips      \* servers that were started beside another so far

vars == <<stage, begun, slips>>

Init ==
    /\ stage = [j \in Job |-> "none"]
    /\ begun = [j \in Job |-> 0]
    /\ slips = 0

Begins(j) ==
    /\ stage[j] \in {"none", "waiting"} /\ stage'[j] = "running"
    /\ begun[j] <= slips /\ begun'[j] = begun[j] + 1

Goes(j) ==
    /\ begun'[j] = begun[j]
    /\ \/ stage'[j] = stage[j]
       \/ stage[j] = "none" /\ stage'[j] \in {"waiting", "over"}
       \/ stage[j] \in {"waiting", "running"} /\ stage'[j] = "over"
       \/ stage[j] # "none" /\ slips > 0 /\ stage'[j] # "none"

Step ==
    /\ stage' \in [Job -> {"none", "waiting", "running", "over"}]
    /\ begun' \in [Job -> Nat]
    /\ \A j \in Job : Begins(j) \/ Goes(j)
    /\ UNCHANGED slips

Slip ==
    /\ slips' = slips + 1
    /\ UNCHANGED <<stage, begun>>

Next == Step \/ Slip

Spec == Init /\ [][Next]_vars
=============================================================================
