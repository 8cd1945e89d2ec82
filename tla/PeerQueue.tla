------------------------------ MODULE PeerQueue ------------------------------
(***************************************************************************)
(* Peer mail of the inbox daemon: the queue PEER.jsonl, the parking file   *)
(* PEER-BACKLOG.jsonl, and the drain step that promotes parked rows,       *)
(* re-binds live rows to the panes of their seats, and pastes, parks or    *)
(* skips one batch per pane.  The step is synchronous but not atomic: each *)
(* action below ends at a file write or a paste, the daemon can die or the *)
(* step can throw between two of them, and the panes change at any time.   *)
(***************************************************************************)
EXTENDS Naturals, FiniteSets, RowOrder

CONSTANTS
    Msg,        \* message ids
    Seat,       \* seat labels (slot-N, mini-N, coord seats)
    Pane,       \* tmux pane ids, which tmux never reuses
    NoPane,     \* no pane: a seat without one, a row not in the backlog
    NoToken,    \* a body without a [sent:...] footer
    SeatOf,     \* the seat a message is addressed to
    Token,      \* the [sent:...] footer of its body
    Prio,       \* its rank by kind: prompt < remind < to-slot < to-mini < room
    Cold,       \* cold-start summons, ranked before everything else
    Room,       \* rows of kind room
    Thin,       \* the "N unseen" pings among them
    AckClass,   \* bodies isAckClassPeer accepts alone
    Progress,   \* bodies that make a digest holding them ACK class ...
    Ask,        \* ... unless one of these is in it: bodies that ask for something
    Override,   \* bodies with PRIORITY or STOP other work
    Skippable,  \* rows applySkips drops: worker FYIs, status pings to the lead
    Coord,      \* coordinator seats ...
    Manager,    \* ... and the manager among them
    BulkMax,    \* PEER_BULK_MAX
    Threshold,  \* INBOX_OVERLOAD_THRESHOLD, 25
    Composers,  \* what the panes' composers can show
    MaxFaults   \* bound on crashes and abandoned steps

ASSUME IdsAssumption == IsFiniteSet(Msg) /\ NoPane \notin Pane

ASSUME RowAssumption ==
    /\ SeatOf \in [Msg -> Seat]
    /\ Prio \in [Msg -> Nat]
    /\ Thin \subseteq Room /\ Room \subseteq Msg /\ Cold \subseteq Msg
    /\ BulkMax \in Nat \ {0} /\ Threshold \in Nat \ {0} /\ MaxFaults \in Nat

(* followUpBusy: a generating Cursor pane that shows its follow-up box;     *)
(* followUpIdle: the box still on screen over an empty composer; wall: a    *)
(* rate-limit wall or a CLI no provider recognises; settling: a coordinator *)
(* inside its settle window; gone: no such pane.                            *)
AllComposers ==
    {"empty", "busy", "typing", "followUpBusy", "followUpIdle", "settling", "shell", "wall", "gone"}

ASSUME ComposersAssumption == Composers \subseteq AllComposers \ {"gone"}

VARIABLES
    st,         \* PEER.jsonl: the state of each row
    target,     \* PEER.jsonl: targetPane of each row
    at,         \* PEER.jsonl: rank of each row by `at', ties by file order
    backlog,    \* PEER-BACKLOG.jsonl: the pane each parked row waits for
    earlier,    \* PEER-BACKLOG.jsonl: who was parked before whom (backlogAt)
    pc,         \* where the drain tick is
    kept,       \* promotePeerBacklog: the rows it is about to write back
    grouped,    \* drainPeerOnce: rows of the panes still to visit
    batch,      \* drainPeerPaneBulk: rows of the batch still to be written
    hold,       \* panes in delivery hold (12 s, in memory)
    cooling,    \* panes in overload cooldown (10 min, in memory)
    composer,   \* what each pane's composer shows
    mark,       \* the @mesh_status each pane's border was last painted with
    limited,    \* panes gated by OC limit or proxy-down
    home,       \* the pane each seat has, if any
    fresh,      \* panes tmux has not created yet
    pasted,     \* history: how often each message was pasted
    faults      \* history: crashes and abandoned steps

files == <<st, target, at, backlog, earlier>>
timers == <<hold, cooling>>
panes == <<composer, limited, home, fresh>>
vars == <<files, pc, kept, grouped, batch, timers, panes, mark, pasted, faults>>

RowStates == {"absent", "live", "backlog", "skipped", "delivered"}
Steps == {"idle", "reconcile", "promote", "saveBacklog", "collect", "panes",
          "mark", "park", "parkSave", "paint"}

(* Mutated forms, used by the mutants of PROJECT.json only: parked rows, or *)
(* skipped ones, drained again; the banner painted with the raw phase.      *)
LiveOrParked == {m \in Msg : st[m] \in {"live", "backlog"}}
LiveOrSkipped == {m \in Msg : st[m] \in {"live", "skipped"}}
RawPhase(c) == c

Arrived == {m \in Msg : st[m] # "absent"}
Live == {m \in Msg : st[m] = "live"}
Terminal == {m \in Msg : st[m] \in {"skipped", "delivered"}}
Parked == {m \in Msg : backlog[m] # NoPane}

StatusOf(c) == CASE c \in {"busy", "followUpBusy"} -> "BUSY"
                 [] c = "typing"                   -> "typing"
                 [] OTHER                          -> "idle"

TypeOK ==
    /\ st \in [Msg -> RowStates]
    /\ target \in [Msg -> Pane \cup {NoPane}]
    /\ at \in [Msg -> Nat]
    /\ backlog \in [Msg -> Pane \cup {NoPane}]
    /\ earlier \subseteq Msg \X Msg
    /\ pc \in Steps
    /\ kept \subseteq Msg /\ grouped \subseteq Msg /\ batch \subseteq Msg
    /\ hold \subseteq Pane /\ cooling \subseteq Pane /\ limited \subseteq Pane /\ fresh \subseteq Pane
    /\ composer \in [Pane -> AllComposers]
    /\ mark \in [Pane -> {"idle", "BUSY", "typing"}]
    /\ home \in [Seat -> Pane \cup {NoPane}]
    /\ pasted \in [Msg -> Nat]
    /\ faults \in Nat

Init ==
    /\ st = [m \in Msg |-> "absent"]
    /\ target = [m \in Msg |-> NoPane]
    /\ at = [m \in Msg |-> 0]
    /\ backlog = [m \in Msg |-> NoPane]
    /\ earlier = {}
    /\ pc = "idle"
    /\ kept = {} /\ grouped = {} /\ batch = {}
    /\ hold = {} /\ cooling = {} /\ limited = {}
    /\ home \in [Seat -> Pane]
    /\ \A s, r \in Seat : s # r => home[s] # home[r]
    /\ fresh = Pane \ {home[s] : s \in Seat}
    /\ composer = [p \in Pane |-> IF p \in fresh THEN "gone" ELSE "empty"]
    /\ mark = [p \in Pane |-> "idle"]
    /\ pasted = [m \in Msg |-> 0]
    /\ faults = 0

-----------------------------------------------------------------------------
(* Orders and batches.                                                      *)

(* Mutated form: a summons ranked like any row of its kind.                 *)
RankByKind(m) == 1 + Prio[m]

(* The sort of drainPeerOnce: rank by kind, then arrival.                   *)
Rank(m) == IF m \in Cold THEN 0 ELSE 1 + Prio[m]

DrainOrder ==
    {pair \in Msg \X Msg :
        \/ Rank(pair[1]) < Rank(pair[2])
        \/ Rank(pair[1]) = Rank(pair[2]) /\ at[pair[1]] < at[pair[2]]}

Rows(p) == {m \in grouped : target[m] = p}

(* takePeerBulkBatch, and the solo rule for cold starts and thin pings.     *)
Batch(p) ==
    LET first == FirstOf(Rows(p), 1, DrainOrder)
    IN  IF first \subseteq Cold \cup Thin THEN first ELSE FirstOf(Rows(p), BulkMax, DrainOrder)

-----------------------------------------------------------------------------
(* HTTP: POST /to-peer and /room-fanout append one live row for the pane    *)
(* the sender resolved.  They run between steps of the tick only.           *)
Enqueue(m) ==
    /\ pc \in {"idle", "paint"}
    /\ st[m] = "absent"
    /\ home[SeatOf[m]] # NoPane
    /\ st' = [st EXCEPT ![m] = "live"]
    /\ target' = [target EXCEPT ![m] = home[SeatOf[m]]]
    /\ at' = [at EXCEPT ![m] = Cardinality(Arrived)]
    /\ UNCHANGED <<backlog, earlier, pc, kept, grouped, batch, timers, panes, mark, pasted, faults>>

BeginDrain ==
    /\ pc = "idle"
    /\ pc' = "reconcile"
    /\ UNCHANGED <<files, kept, grouped, batch, timers, panes, mark, pasted, faults>>

(* Mutated forms: no reconcile; delivered rows taken for orphans.           *)
NoOrphans == {}
SettledOrphans == {m \in Msg : st[m] \in {"backlog", "delivered"} /\ backlog[m] = NoPane}

(* reconcileBacklogOrphans: parked rows the backlog file has lost are       *)
(* written to it again, dated by their parking.  Rows are parked one by one *)
(* and a failure between the two writes of one is mended before the next is *)
(* parked, so there is at most one and it is the latest.                    *)
Orphans == {m \in Msg : st[m] = "backlog" /\ backlog[m] = NoPane}

Reconcile ==
    /\ pc = "reconcile"
    /\ pc' = "promote"
    /\ backlog' = [m \in Msg |-> IF m \in Orphans THEN target[m] ELSE backlog[m]]
    /\ earlier' = earlier \cup (Parked \X Orphans)
    /\ UNCHANGED <<st, target, at, kept, grouped, batch, timers, panes, mark, pasted, faults>>

-----------------------------------------------------------------------------
(* promotePeerBacklog                                                       *)

IdleForPromote(p) ==
    /\ composer[p] \in {"empty", "settling", "followUpIdle"}
    /\ p \notin hold
    /\ mark[p] # "typing"
    /\ mark[p] = "BUSY" => composer[p] = "followUpIdle"

(* Mutated form: the footer compared with every row's, settled or not.      *)
AnyTwin == {m \in Parked : Token[m] # NoToken /\ \E k \in Msg : Token[k] = Token[m]}

(* Rows whose footer an already settled row carries: finalizeAlreadyInjected. *)
Duplicates == {m \in Parked : Token[m] # NoToken /\ \E k \in Terminal : Token[k] = Token[m]}

StillParked(p) == {m \in Parked \ (Duplicates \cup Thin) : backlog[m] = p}

Promotable(p) ==
    IF ~IdleForPromote(p) THEN {}
    ELSE IF composer[p] = "followUpIdle" THEN StillParked(p) \cap AckClass
    ELSE StillParked(p)

Promoted == UNION {FirstOf(Promotable(p), BulkMax, earlier) : p \in Pane}

(* writePeer: the first of the two files.                                   *)
PromoteWritePeer ==
    /\ pc = "promote"
    /\ pc' = "saveBacklog"
    /\ st' = [m \in Msg |-> IF m \in Duplicates THEN "delivered"
                            ELSE IF m \in Parked \cap Thin THEN "skipped"
                            ELSE IF m \in Promoted THEN "live"
                            ELSE st[m]]
    /\ target' = [m \in Msg |-> IF m \in Duplicates \cup Promoted THEN backlog[m] ELSE target[m]]
    /\ kept' = Parked \ (Duplicates \cup Thin \cup Promoted)
    /\ UNCHANGED <<at, backlog, earlier, grouped, batch, timers, panes, mark, pasted, faults>>

(* writeBacklog: the second.                                                *)
PromoteWriteBacklog ==
    /\ pc = "saveBacklog"
    /\ pc' = "collect"
    /\ backlog' = [m \in Msg |-> IF m \in kept THEN backlog[m] ELSE NoPane]
    /\ earlier' = earlier \cap (kept \X kept)
    /\ kept' = {}
    /\ UNCHANGED <<st, target, at, grouped, batch, timers, panes, mark, pasted, faults>>

-----------------------------------------------------------------------------
(* pendingPeerRows and refreshAndGroupPeers: live rows follow their seat to *)
(* the pane it has now; a row whose seat has none is left for a later tick; *)
(* applySkips drops the rows that must not land, repeated summons included. *)
Reached == {m \in Live : home[SeatOf[m]] # NoPane}

Resummoned(m) ==
    m \in Cold /\ \E k \in Cold \ {m} : st[k] = "delivered" /\ target[k] = home[SeatOf[m]]

RefreshAndGroup ==
    /\ pc = "collect"
    /\ pc' = "panes"
    /\ LET dropped == {m \in Reached : m \in Skippable \/ Resummoned(m)}
       IN  /\ st' = [m \in Msg |-> IF m \in dropped THEN "skipped" ELSE st[m]]
           /\ grouped' = Reached \ dropped
    /\ target' = [m \in Msg |-> IF m \in Reached THEN home[SeatOf[m]] ELSE target[m]]
    /\ UNCHANGED <<at, backlog, earlier, kept, batch, timers, panes, mark, pasted, faults>>

-----------------------------------------------------------------------------
(* drainPeerPaneBulk, for one pane with rows.                               *)

(* gateDelivery: limits stop every batch, a cold start still queued for the *)
(* pane stops every batch but its own ...                                   *)
Held(p) ==
    \/ p \in limited
    \/ /\ Batch(p) \cap Cold = {}
       /\ \E k \in Cold : st[k] = "live" /\ target[k] = p

(* ... and so does a cooldown, or a pane with so many live rows that one    *)
(* starts: evaluateInboxOverload looks at the number, not at its rise.      *)
Crowded(p) == Cardinality({m \in Live : target[m] = p}) >= Threshold

Gated(p) == Held(p) \/ p \in cooling \/ Crowded(p)

(* The payload's class: a row's own body, or the text of the digest.        *)
AckPayload(B) ==
    IF Cardinality(B) = 1 THEN B \subseteq AckClass
    ELSE B \cap Progress # {} /\ B \cap Ask = {}

ToSeats(B, S) == \A m \in B : SeatOf[m] \in S
RoomPing(B) == B \subseteq Thin \/ (B \subseteq Room /\ ~ToSeats(B, Manager))

(* deliverToPane pastes: on an idle composer, on a settling coordinator a   *)
(* room ping, on the follow-up box ACK-class text, and over a busy or typed *)
(* one text with an override word if all of it is light.                    *)
Pastes(p, B) ==
    \/ composer[p] \in {"empty", "followUpIdle"}
    \/ composer[p] = "settling" /\ RoomPing(B)
    \/ composer[p] = "followUpBusy" /\ AckPayload(B)
    \/ /\ composer[p] \in {"busy", "typing", "followUpBusy"}
       /\ B \cap Override # {}
       /\ IF ToSeats(B, Coord) THEN RoomPing(B) ELSE B \subseteq AckClass \cup Room

Visit(p) ==
    /\ pc = "panes"
    /\ Rows(p) # {}
    /\ grouped' = grouped \ Rows(p)

PaneOnHold(p) ==
    /\ Visit(p)
    /\ p \in hold
    /\ UNCHANGED <<files, pc, kept, batch, timers, panes, mark, pasted, faults>>

(* holdGateBatch: a thin ping is dropped, anything else stays live.  The    *)
(* overload is looked at only when nothing else holds the pane; its warning *)
(* is pasted by force and is no mail.                                       *)
PaneGated(p) ==
    /\ Visit(p)
    /\ p \notin hold
    /\ Gated(p)
    /\ st' = [m \in Msg |-> IF m \in Batch(p) \cap Thin THEN "skipped" ELSE st[m]]
    /\ cooling' = IF Crowded(p) /\ ~Held(p) THEN cooling \cup {p} ELSE cooling
    /\ UNCHANGED <<target, at, backlog, earlier, pc, kept, batch, hold, panes, mark, pasted, faults>>

PastePane(p) ==
    /\ Visit(p)
    /\ p \notin hold
    /\ ~Gated(p)
    /\ Pastes(p, Batch(p))
    /\ pasted' = [m \in Msg |-> pasted[m] + (IF m \in Batch(p) THEN 1 ELSE 0)]
    /\ batch' = Batch(p)
    /\ pc' = "mark"
    /\ UNCHANGED <<files, kept, timers, panes, mark, faults>>

(* no_snapshot: the pane dies between the two looks at it, and the batch is *)
(* dropped.                                                                 *)
DropOnCaptureRace(p) ==
    /\ Visit(p)
    /\ p \notin hold
    /\ ~Gated(p)
    /\ composer[p] = "gone"
    /\ st' = [m \in Msg |-> IF m \in Batch(p) THEN "skipped" ELSE st[m]]
    /\ UNCHANGED <<target, at, backlog, earlier, pc, kept, batch, timers, panes, mark, pasted, faults>>

(* holdOrParkInjectFail: the hold is noted first; a settle window parks     *)
(* nothing, any other refusal parks every row without an override word.     *)
HoldPane(p) ==
    /\ Visit(p)
    /\ p \notin hold
    /\ ~Gated(p)
    /\ ~Pastes(p, Batch(p))
    /\ hold' = IF composer[p] = "wall" THEN hold ELSE hold \cup {p}
    /\ batch' = IF composer[p] = "settling" THEN {} ELSE Batch(p) \ Override
    /\ pc' = IF batch' = {} THEN "panes" ELSE "park"
    /\ UNCHANGED <<files, kept, cooling, panes, mark, pasted, faults>>

FinishPanes ==
    /\ pc = "panes"
    /\ grouped = {}
    /\ pc' = "paint"
    /\ UNCHANGED <<files, kept, grouped, batch, timers, panes, mark, pasted, faults>>

(* One row of a batch at a time, in the order of the batch.                 *)
NextOfBatch(m) == m \in batch /\ \A k \in batch \ {m} : <<k, m>> \notin DrainOrder

Written(m, from) ==
    /\ batch' = batch \ {m}
    /\ pc' = IF batch' = {} THEN "panes" ELSE from

(* markDelivered; the banner of the pane is repainted after the last row.   *)
MarkDelivered(m) ==
    /\ pc = "mark"
    /\ NextOfBatch(m)
    /\ Written(m, "mark")
    /\ st' = [st EXCEPT ![m] = "delivered"]
    /\ mark' = IF batch' = {} /\ target[m] \in Pane
               THEN [mark EXCEPT ![target[m]] = StatusOf(composer[target[m]])] ELSE mark
    /\ UNCHANGED <<target, at, backlog, earlier, kept, grouped, timers, panes, pasted, faults>>

SkipThinRow(m) ==
    /\ pc = "park"
    /\ NextOfBatch(m)
    /\ m \in Thin
    /\ Written(m, "park")
    /\ st' = [st EXCEPT ![m] = "skipped"]
    /\ UNCHANGED <<target, at, backlog, earlier, kept, grouped, timers, panes, mark, pasted, faults>>

(* parkPeerToBacklog writes PEER.jsonl ...                                  *)
ParkWritePeer(m) ==
    /\ pc = "park"
    /\ NextOfBatch(m)
    /\ m \notin Thin
    /\ pc' = "parkSave"
    /\ st' = [st EXCEPT ![m] = "backlog"]
    /\ UNCHANGED <<target, at, backlog, earlier, kept, grouped, batch, timers, panes, mark, pasted, faults>>

(* ... and then PEER-BACKLOG.jsonl, where a row parked again goes last.     *)
ParkWriteBacklog(m) ==
    /\ pc = "parkSave"
    /\ m \in batch /\ st[m] = "backlog"
    /\ Written(m, "park")
    /\ backlog' = [backlog EXCEPT ![m] = target[m]]
    /\ earlier' = {pair \in earlier : pair[1] # m /\ pair[2] # m} \cup ((Parked \ {m}) \X {m})
    /\ UNCHANGED <<st, target, at, kept, grouped, timers, panes, mark, pasted, faults>>

(* border-paint, the last step of the tick.                                 *)
Paint ==
    /\ pc = "paint"
    /\ pc' = "idle"
    /\ mark' = [p \in Pane |-> StatusOf(composer[p])]
    /\ UNCHANGED <<files, kept, grouped, batch, timers, panes, pasted, faults>>

-----------------------------------------------------------------------------
(* Failures.  A crash loses what is in memory; an exception (a full disk, a *)
(* tmux that does not answer) is swallowed by runStep and ends the peer     *)
(* step, with holds and cooldowns kept.                                      *)
Abandon(next) ==
    /\ faults < MaxFaults
    /\ faults' = faults + 1
    /\ pc' = next
    /\ kept' = {} /\ grouped' = {} /\ batch' = {}
    /\ UNCHANGED <<files, panes, mark, pasted>>

Crash ==
    /\ Abandon("idle")
    /\ hold' = {} /\ cooling' = {}

StepThrows ==
    /\ pc \notin {"idle", "paint"}
    /\ Abandon("paint")
    /\ UNCHANGED timers

-----------------------------------------------------------------------------
(* The panes, which nothing in the daemon holds still.                      *)

Homes == {home[s] : s \in Seat} \ {NoPane}

ComposerMoves(p) ==
    /\ p \in Homes
    /\ \E c \in Composers : composer' = [composer EXCEPT ![p] = c]
    /\ UNCHANGED <<files, pc, kept, grouped, batch, timers, mark, limited, home, fresh, pasted, faults>>

LimitMoves(p) ==
    /\ limited' = IF p \in limited THEN limited \ {p} ELSE limited \cup {p}
    /\ UNCHANGED <<files, pc, kept, grouped, batch, timers, mark, composer, home, fresh, pasted, faults>>

HoldExpires(p) ==
    /\ p \in hold
    /\ hold' = hold \ {p}
    /\ UNCHANGED <<files, pc, kept, grouped, batch, cooling, panes, mark, pasted, faults>>

CoolingEnds(p) ==
    /\ p \in cooling
    /\ cooling' = cooling \ {p}
    /\ UNCHANGED <<files, pc, kept, grouped, batch, hold, panes, mark, pasted, faults>>

(* The inbox lanes and the check-backs pass the same gate, before and after *)
(* the peer step; a pending summons does not always stop a check-back.      *)
OtherGate(p) ==
    /\ pc \in {"idle", "paint"}
    /\ Crowded(p) /\ p \notin limited
    /\ cooling' = cooling \cup {p}
    /\ UNCHANGED <<files, pc, kept, grouped, batch, hold, panes, mark, pasted, faults>>

PaneLost(s) ==
    /\ fresh # {}
    /\ home[s] \in Pane
    /\ composer' = [composer EXCEPT ![home[s]] = "gone"]
    /\ home' = [home EXCEPT ![s] = NoPane]
    /\ UNCHANGED <<files, pc, kept, grouped, batch, timers, mark, limited, fresh, pasted, faults>>

PaneOpened(s, p) ==
    /\ home[s] = NoPane
    /\ p \in fresh
    /\ home' = [home EXCEPT ![s] = p]
    /\ fresh' = fresh \ {p}
    /\ \E c \in Composers : composer' = [composer EXCEPT ![p] = c]
    /\ UNCHANGED <<files, pc, kept, grouped, batch, timers, mark, limited, pasted, faults>>

-----------------------------------------------------------------------------
Daemon ==
    \/ BeginDrain \/ Reconcile \/ PromoteWritePeer \/ PromoteWriteBacklog
    \/ RefreshAndGroup \/ FinishPanes \/ Paint
    \/ \E p \in Pane : \/ PaneOnHold(p) \/ PaneGated(p) \/ PastePane(p)
                       \/ DropOnCaptureRace(p) \/ HoldPane(p)
    \/ \E m \in Msg : \/ MarkDelivered(m) \/ SkipThinRow(m)
                      \/ ParkWritePeer(m) \/ ParkWriteBacklog(m)

Environment ==
    \/ \E m \in Msg : Enqueue(m)
    \/ \E p \in Pane : \/ ComposerMoves(p) \/ LimitMoves(p)
                       \/ HoldExpires(p) \/ CoolingEnds(p) \/ OtherGate(p)
    \/ \E s \in Seat : PaneLost(s) \/ \E p \in Pane : PaneOpened(s, p)

Next == Daemon \/ Environment \/ Crash \/ StepThrows

Spec == Init /\ [][Next]_vars

(* The poll timer re-runs the tick for ever and every step of it returns;   *)
(* a delivery hold ends after 12 s, a cooldown after 10 min.                *)
Fairness ==
    /\ WF_vars(Daemon)
    /\ \A p \in Pane : WF_vars(HoldExpires(p)) /\ WF_vars(CoolingEnds(p))

FairSpec == Spec /\ Fairness
-----------------------------------------------------------------------------
(* Properties.                                                              *)

(* A message is pasted into a pane at most once, and once more for every    *)
(* crash or thrown step: the two files are written one after the other and  *)
(* the paste precedes its stamp, so a failure may repeat a paste, but no    *)
(* interleaving of panes, parking and promotion does.                       *)
AtMostOncePerFault == \A m \in Msg : pasted[m] <= 1 + faults

(* The two files agree: a row parked in PEER.jsonl is in the backlog file   *)
(* (or the row about to be put there, or owed by a failed step until the    *)
(* next reconcile), and short of failures no row of the backlog file is     *)
(* live or settled in PEER.jsonl.                                           *)
InFile == IF pc = "saveBacklog" THEN kept ELSE Parked

FilesAgree ==
    \A m \in Msg :
        /\ st[m] = "backlog" => \/ m \in InFile
                               \/ (pc = "parkSave" /\ m \in batch)
                               \/ (faults > 0 /\ pc \in {"idle", "paint", "reconcile"})
        /\ faults = 0 /\ m \in InFile => st[m] = "backlog"

(* Nothing counts as delivered that no pane was shown: short of failures, a *)
(* delivered row was pasted, or a settled row has the same footer.          *)
DeliveredWasPasted ==
    \A m \in Msg : faults = 0 /\ st[m] = "delivered" =>
        \/ pasted[m] >= 1
        \/ Token[m] # NoToken /\ \E k \in Terminal \ {m} : Token[k] = Token[m]

(* Short of failures, delivered and skipped are final: no promotion and no  *)
(* parking reopens a settled row.                                           *)
SettledIsFinal == [][faults = 0 => \A m \in Terminal : st'[m] = st[m]]_vars

(* Once every seat keeps an idle composer, every accepted message is        *)
(* settled: nothing stays parked, held or queued for ever.                  *)
SeatsIdle ==
    /\ limited = {}
    /\ \A s \in Seat : home[s] # NoPane /\ composer[home[s]] = "empty"

MailSettles == <>[]SeatsIdle => \A m \in Msg : st[m] # "absent" ~> m \in Terminal

(* The queue implements the contract of peer mail.                          *)
Box == [m \in Msg |-> CASE st[m] = "absent"                -> "none"
                         [] st[m] \in {"live", "backlog"} -> "queued"
                         [] st[m] = "skipped"             -> "dropped"
                         [] OTHER                          -> "delivered"]

Contract == INSTANCE MailContract WITH box <- Box, pastes <- pasted

KeepsContract == Contract!Spec
(* Mail is not pasted into a pane while a cold-start row waits for it in    *)
(* the live queue: the context gate holds whatever is not the summons.      *)
PastedNow(m) == pasted'[m] > pasted[m]

ColdStartBlocksMail ==
    [][\A m \in Msg \ Cold, k \in Cold :
            PastedNow(m) => ~(st[k] = "live" /\ target[k] = target[m])]_vars

(* A turn is never wasted and never too long: a pane with rows gets some of *)
(* them, BulkMax at most, and so does the promotion.  Two rows that sort    *)
(* alike would leave nobody the first of a batch.                           *)
TurnsTakeRows ==
    \A p \in Pane :
        /\ Rows(p) # {} => Batch(p) # {}
        /\ Cardinality(Batch(p)) <= BulkMax
        /\ LET first == FirstOf(Promotable(p), BulkMax, earlier)
           IN  /\ Promotable(p) # {} => first # {}
               /\ Cardinality(first) <= BulkMax

(* Of the rows a drain has found for a pane, none is pasted unless those    *)
(* that rank and arrived before it go with it.                              *)
PastedInOrder ==
    [][\A m \in Msg : PastedNow(m) =>
           \A k \in Rows(target[m]) : <<k, m>> \in DrainOrder => PastedNow(k)]_vars

-----------------------------------------------------------------------------
(* The inductive invariant behind the theorems of PeerQueueProofs.          *)

(* What the drain tick knows at each of its steps about the rows it holds.  *)
Shape ==
    /\ \A m \in Msg : /\ st[m] = "absent" => pasted[m] = 0 /\ backlog[m] = NoPane
                      /\ st[m] # "absent" => target[m] # NoPane
    /\ kept \subseteq Parked
    /\ grouped \subseteq Live
    /\ grouped \cap batch = {}
    /\ pc \notin {"panes", "mark", "park", "parkSave"} => grouped = {}
    /\ pc \notin {"mark", "park", "parkSave"} => batch = {}
    /\ pc \in {"mark", "park"} => batch \subseteq Live
    /\ pc = "mark" => \A m \in batch : pasted[m] >= 1
    /\ pc = "parkSave" => \E m \in batch : st[m] = "backlog" /\ batch \ {m} \subseteq Live

(* A message can still be pasted once for being live and not yet pasted by  *)
(* the batch at hand, and once for waiting in the backlog file or for it.   *)
Unstamped == IF pc = "mark" THEN batch ELSE {}
LiveDebt(m) == IF st[m] = "live" /\ m \notin Unstamped THEN 1 ELSE 0
FileDebt(m) == IF m \in InFile \/ st[m] = "backlog" THEN 1 ELSE 0

Debt == \A m \in Msg : pasted[m] + LiveDebt(m) + FileDebt(m) <= 1 + faults

(* No two rows arrive at one time, the backlog file is one line, and at     *)
(* most one row of it is missing, which a tick knows of until it reconciles.*)
InOrder ==
    /\ \A m \in Arrived : at[m] < Cardinality(Arrived)
    /\ \A m, k \in Arrived : at[m] = at[k] => m = k
    /\ earlier \subseteq Parked \X Parked
    /\ InLine(earlier, Parked)
    /\ \A m, k \in Orphans : m = k
    /\ pc \notin {"idle", "paint", "reconcile", "parkSave"} => Orphans = {}
    /\ pc = "parkSave" => Orphans \subseteq batch
=============================================================================
