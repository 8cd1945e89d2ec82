---------------------------- MODULE MailContract ----------------------------
(***************************************************************************)
(* What the peer mail of seatmesh promises, with no word on how: every     *)
(* message is accepted once, waits, and is then settled -- delivered, or   *)
(* dropped as a ping nobody needs.  A message is pasted into a pane at     *)
(* most once more than the daemon has failed, and a settled message comes  *)
(* back only after a failure.                                              *)
(***************************************************************************)
EXTENDS Naturals

CONSTANTS
    Msg,        \* the messages
    Token,      \* the [sent:...] footer of each message
    NoToken     \* the footer of a message that has none

VARIABLES
    box,        \* where each message is
    pastes,     \* how often each message was pasted into a pane
    faults      \* crashes and abandoned steps of the daemon so far

vars == <<box, pastes, faults>>

Twins(m) == {k \in Msg : k = m \/ (Token[m] # NoToken /\ Token[k] = Token[m])}

Init ==
    /\ box = [m \in Msg |-> "none"]
    /\ pastes = [m \in Msg |-> 0]
    /\ faults = 0

Accept(m) ==
    /\ box[m] = "none"
    /\ box' = [box EXCEPT ![m] = "queued"]
    /\ UNCHANGED <<pastes, faults>>

(* One digest: a batch of waiting messages, none of them pasted before      *)
(* unless the daemon has failed since.                                      *)
Paste ==
    /\ \E batch \in SUBSET {m \in Msg : box[m] = "queued" /\ pastes[m] <= faults} :
            pastes' = [m \in Msg |-> pastes[m] + (IF m \in batch THEN 1 ELSE 0)]
    /\ UNCHANGED <<box, faults>>

(* What a message has to show before it counts as delivered: a paste of its *)
(* own, or a twin with the same footer that is already settled.             *)
Shown(m) == pastes[m] >= 1 \/ \E k \in Twins(m) \ {m} : box[k] \in {"delivered", "dropped"}

Moves(m) ==
    \/ box[m] = "queued" /\ Shown(m) /\ box'[m] = "delivered"
    \/ box[m] = "queued" /\ box'[m] = "dropped"
    \/ box[m] \in {"delivered", "dropped"} /\ faults > 0 /\ box'[m] \in {"queued", "delivered", "dropped"}

Settle ==
    /\ box' \in [Msg -> {"none", "queued", "delivered", "dropped"}]
    /\ \A m \in Msg : box'[m] = box[m] \/ Moves(m)
    /\ UNCHANGED <<pastes, faults>>

Fault ==
    /\ faults' = faults + 1
    /\ UNCHANGED <<box, pastes>>

Next == (\E m \in Msg : Accept(m)) \/ Paste \/ Settle \/ Fault

Spec == Init /\ [][Next]_vars
=============================================================================
