----------------------------- MODULE AckLedger -----------------------------
(* The ledger of unanswered asks, ACK.jsonl: a row opens when mail for a    *)
(* seat is posted or pasted and when the operator submits a prompt in its   *)
(* pane; it closes by hand, by mail the seat sent afterwards, or by the     *)
(* agent's reply in the pane.  Peer mail and the inbox lanes deliver here   *)
(* in one step each; what becomes of peer mail on the way is PeerQueue.     *)
EXTENDS Integers, FiniteSets

CONSTANTS
    Seat, Mail,
    From, To, AskOf,   \* sender, recipient and trimmed text of each mail
    Inbox,             \* mail for a coordinator's lane, not for a pane
    Scheduled,         \* mail posted with a notBefore in the future
    AckClass,          \* mail that only acknowledges: never an ask
    Prompt,            \* what the operator may type into a pane
    NoText,
    Watched,           \* seats whose pane border paint looks at
    MaxClock,          \* bound on the time of posts and submitted prompts
    MaxAckFaults       \* bound on deaths of the daemon

Text == Prompt \cup {AskOf[m] : m \in Mail}

ASSUME AckAssumption ==
    /\ IsFiniteSet(Mail)
    /\ From \in [Mail -> Seat] /\ To \in [Mail -> Seat]
    /\ NoText \notin Text
    /\ Watched \subseteq Seat
    /\ MaxClock \in Nat /\ MaxAckFaults \in Nat

VARIABLES
    ledger,     \* the rows; rows that agree in every field count as one
    posted, shown,  \* when each mail was accepted, and pasted; 0 for not yet
    pastes,     \* history: how often it was pasted
    dropped,    \* mail settled unseen: skipped peer rows, resolved inbox rows
    draft,      \* watchByPane: the operator's draft last seen
    quiet,      \* panes the daemon pasted into less than 5 s ago
    arm,        \* replyArmByPane
    prompts,    \* submissions detected since the last sweep
    replied,    \* pendingPaneReplyClose
    painted,    \* panes looked at since the last sweep
    busyAt,     \* history: when a pane was last seen busy
    asked,      \* history: when a prompt was last seen submitted in it
    now, ackFaults

store == <<ledger, posted, shown, pastes, dropped>>
watch == <<draft, quiet, arm, prompts, replied, painted, busyAt, asked>>
ackvars == <<store, watch, now, ackFaults>>

Row == [seat : Seat, ask : Text, source : {"operator", "inbox", "peer"},
        at : Nat, by : {"nobody", "explicit", "filed", "pane-reply", "operator"}]

AckTypeOK ==
    /\ ledger \subseteq Row
    /\ posted \in [Mail -> Nat] /\ shown \in [Mail -> Nat] /\ pastes \in [Mail -> Nat]
    /\ dropped \subseteq Mail
    /\ draft \in [Seat -> Prompt \cup {NoText}]
    /\ quiet \subseteq Seat /\ replied \subseteq Seat /\ painted \subseteq Seat
    /\ arm \in [Seat -> {"off", "armed", "busy"}]
    /\ prompts \subseteq [seat : Seat, ask : Prompt, at : Nat]
    /\ busyAt \in [Seat -> Nat] /\ asked \in [Seat -> Nat]
    /\ now \in Nat /\ ackFaults \in 0..MaxAckFaults

AckInit ==
    /\ ledger = {} /\ dropped = {}
    /\ posted = [m \in Mail |-> 0] /\ shown = [m \in Mail |-> 0]
    /\ pastes = [m \in Mail |-> 0]
    /\ draft = [s \in Seat |-> NoText] /\ arm = [s \in Seat |-> "off"]
    /\ quiet = {} /\ replied = {} /\ painted = {} /\ prompts = {}
    /\ busyAt = [s \in Seat |-> 0] /\ asked = [s \in Seat |-> 0]
    /\ now = 0 /\ ackFaults = 0

-----------------------------------------------------------------------------
(* openAck: an ask that is open for the seat already opens no second row.   *)
IsOpen(r) == r.by = "nobody"
OpenIn(rows) == {r \in rows : IsOpen(r)}

(* Mutated form: the open rows are not looked at.                           *)
Unknown(rows, seat, ask) == FALSE

Known(rows, seat, ask) == \E r \in OpenIn(rows) : r.seat = seat /\ r.ask = ask

Opened(rows, seat, ask, source, at) ==
    IF Known(rows, seat, ask) THEN rows
    ELSE rows \cup {[seat |-> seat, ask |-> ask, source |-> source, at |-> at, by |-> "nobody"]}

(* closeAckRow for every row of a set.                                      *)
ClosedBy(rows, some, who) == (rows \ some) \cup {[r EXCEPT !.by = who] : r \in some}

(* openAckForPeerRow and openAckForInboxRow.                                *)
AfterAsk(m, at) ==
    IF m \in AckClass THEN ledger
    ELSE Opened(ledger, To[m], AskOf[m], IF m \in Inbox THEN "inbox" ELSE "peer", at)

(* noteDaemonInject: the watch of the pane starts afresh.                   *)
NoteInject(s) ==
    /\ quiet' = quiet \cup ({s} \cap Watched)
    /\ draft' = [draft EXCEPT ![s] = NoText]
    /\ arm' = [arm EXCEPT ![s] = "off"]

-----------------------------------------------------------------------------
(* POST /to-peer opens the ask at once, unless the row is scheduled; the    *)
(* row of POST /to-master opens none.                                       *)
Post(m) ==
    /\ posted[m] = 0 /\ now < MaxClock
    /\ now' = now + 1
    /\ posted' = [posted EXCEPT ![m] = now']
    /\ ledger' = IF m \in Inbox \cup Scheduled THEN ledger ELSE AfterAsk(m, now')
    /\ UNCHANGED <<shown, pastes, dropped, watch, ackFaults>>

(* Mutated form: a row that was pasted is still pending.                    *)
Accepted(m) == posted[m] # 0 /\ m \notin dropped

Pending(m) == posted[m] # 0 /\ shown[m] = 0 /\ m \notin dropped

Shown(m) ==
    /\ Pending(m)
    /\ now' = now + 1
    /\ pastes' = [pastes EXCEPT ![m] = @ + 1]
    /\ UNCHANGED <<posted, dropped, prompts, replied, painted, busyAt, asked>>

(* markDelivered and openAckForDeliveredPeer: the row is dated back to the  *)
(* POST.  drainInboxLaneOnce: the row is dated by the paste.                *)
AskedAt(m) == IF m \in Inbox THEN now + 1 ELSE posted[m]

(* Mutated form: the paste opens no row.                                    *)
DeliverOnly(m) ==
    /\ Shown(m)
    /\ shown' = [shown EXCEPT ![m] = now']
    /\ NoteInject(To[m])
    /\ UNCHANGED <<ledger, ackFaults>>

Deliver(m) ==
    /\ Shown(m)
    /\ shown' = [shown EXCEPT ![m] = now']
    /\ ledger' = AfterAsk(m, AskedAt(m))
    /\ IF m \in Inbox \cap AckClass THEN UNCHANGED <<quiet, draft, arm>> ELSE NoteInject(To[m])
    /\ UNCHANGED ackFaults

(* A peer row that is skipped; POST /inbox/resolve, of a row pasted or not. *)
Drop(m) ==
    /\ posted[m] # 0 /\ m \notin dropped
    /\ m \notin Inbox => shown[m] = 0
    /\ dropped' = dropped \cup {m}
    /\ UNCHANGED <<ledger, posted, shown, pastes, watch, now, ackFaults>>

-----------------------------------------------------------------------------
(* POST /ack, /ack/clear.                                                   *)
Clear(r) ==
    /\ IsOpen(r)
    /\ ledger' = ClosedBy(ledger, {r}, "explicit")
    /\ UNCHANGED <<posted, shown, pastes, dropped, watch, now, ackFaults>>

(* ackAllAcks of one seat; of all seats, it is one such step for each.      *)
Cleared(s) == {r \in OpenIn(ledger) : r.seat = s}

ClearSeat(s) ==
    /\ \E r \in OpenIn(ledger) : r.seat = s
    /\ ledger' = ClosedBy(ledger, Cleared(s), "operator")
    /\ UNCHANGED <<posted, shown, pastes, dropped, watch, now, ackFaults>>

-----------------------------------------------------------------------------
(* Mutated form: whatever draft was seen, none too.                         *)
SubmittedAny(s, text, echo) == text = NoText /\ echo

(* observePaneComposer, once a tick for each pane: a draft that was there   *)
(* and is gone was submitted when the screen echoes it.                     *)
Submitted(s, text, echo) == draft[s] # NoText /\ text = NoText /\ echo

(* Mutated form: a prompt typed while the agent works keeps the arm.        *)
ArmedOnce(s, submit) == IF submit /\ arm[s] = "off" THEN "armed" ELSE arm[s]

Armed(s, submit) == IF submit THEN "armed" ELSE arm[s]

Observe(s, text, echo, phase) ==
    LET submit == Submitted(s, text, echo)
        armed == Armed(s, submit)
        over == armed = "busy" /\ phase = "idle"
    IN  /\ s \notin painted \cup quiet
        /\ submit => now < MaxClock
        /\ painted' = painted \cup {s}
        /\ draft' = [draft EXCEPT ![s] = text]
        /\ now' = IF submit THEN now + 1 ELSE now
        /\ prompts' = IF submit THEN prompts \cup {[seat |-> s, ask |-> draft[s], at |-> now']}
                      ELSE prompts
        /\ arm' = [arm EXCEPT ![s] = IF armed = "off" THEN "off"
                                     ELSE IF phase = "busy" THEN "busy"
                                     ELSE IF over THEN "off" ELSE armed]
        /\ replied' = IF over THEN replied \cup {s} ELSE replied
        /\ busyAt' = IF phase = "busy" THEN [busyAt EXCEPT ![s] = now'] ELSE busyAt
        /\ asked' = IF submit THEN [asked EXCEPT ![s] = now'] ELSE asked
        /\ UNCHANGED <<store, quiet, ackFaults>>

QuietEnds(s) ==
    /\ s \in quiet
    /\ quiet' = quiet \ {s}
    /\ UNCHANGED <<store, draft, arm, prompts, replied, painted, busyAt, asked, now, ackFaults>>

-----------------------------------------------------------------------------
(* ackSweepTick.  First the prompts become rows, then the rows of the       *)
(* operator close where the agent replied in the pane.                      *)
WithPrompts ==
    ledger \cup {[seat |-> p.seat, ask |-> p.ask, source |-> "operator", at |-> p.at,
                  by |-> "nobody"] : p \in {q \in prompts : ~Known(ledger, q.seat, q.ask)}}

Answered(rows) == {r \in OpenIn(rows) : r.source = "operator" /\ r.seat \in replied}

(* Then matchFiledAcks: mail of the seat, in the order it was shown, closes *)
(* the oldest open row that is older than it, one row for each.  A row      *)
(* closes when, for it and for each older one, there are as many later      *)
(* filings as rows to close from there on.                                  *)
FilingsAfter(r) == {m \in Mail : From[m] = r.seat /\ shown[m] > r.at}

UpTo(rows, r) == {q \in OpenIn(rows) : q.seat = r.seat /\ q.at <= r.at}

(* Mutated form: the rows of a seat close together or not at all.           *)
FiledTogether(rows) ==
    {r \in OpenIn(rows) :
        \A q \in OpenIn(rows) : q.seat = r.seat =>
            Cardinality(FilingsAfter(q)) >=
                Cardinality({p \in OpenIn(rows) : p.seat = r.seat /\ p.at >= q.at})}

Filed(rows) ==
    {r \in OpenIn(rows) :
        \A q \in UpTo(rows, r) :
            Cardinality(FilingsAfter(q)) >= Cardinality({p \in UpTo(rows, r) : p.at >= q.at})}

Sweep ==
    /\ LET open == WithPrompts
           told == ClosedBy(open, Answered(open), "pane-reply")
       IN ledger' = ClosedBy(told, Filed(told), "filed")
    /\ prompts' = {} /\ replied' = {} /\ painted' = {}
    /\ UNCHANGED <<posted, shown, pastes, dropped, draft, quiet, arm, busyAt, asked, now,
                   ackFaults>>

-----------------------------------------------------------------------------
(* The daemon dies and comes back: what it watched is forgotten.  It may    *)
(* die after a paste: a peer row is stamped and its ask not yet opened; of  *)
(* an inbox row the ask is open and the row not yet written.                *)
Forget ==
    /\ draft' = [s \in Seat |-> NoText] /\ arm' = [s \in Seat |-> "off"]
    /\ quiet' = {} /\ replied' = {} /\ painted' = {} /\ prompts' = {}
    /\ ackFaults < MaxAckFaults
    /\ ackFaults' = ackFaults + 1
    /\ UNCHANGED <<busyAt, asked>>

CrashAck == Forget /\ UNCHANGED <<store, now>>

CrashInDelivery(m) ==
    /\ Pending(m)
    /\ now' = now + 1
    /\ pastes' = [pastes EXCEPT ![m] = @ + 1]
    /\ shown' = IF m \in Inbox THEN shown ELSE [shown EXCEPT ![m] = now']
    /\ ledger' = IF m \in Inbox THEN AfterAsk(m, now') ELSE ledger
    /\ Forget
    /\ UNCHANGED <<posted, dropped>>

-----------------------------------------------------------------------------
AckMailStep(m) == Post(m) \/ Deliver(m) \/ Drop(m) \/ CrashInDelivery(m)

AckPaneStep(s) ==
    \/ s \in Watched /\ \E text \in Prompt \cup {NoText}, echo \in BOOLEAN, phase \in {"idle", "busy", "other"} :
          Observe(s, text, echo, phase)
    \/ QuietEnds(s) \/ ClearSeat(s)

AckNext ==
    \/ \E m \in Mail : AckMailStep(m)
    \/ \E s \in Seat : AckPaneStep(s)
    \/ \E r \in ledger : Clear(r)
    \/ Sweep
    \/ CrashAck

AckSpec == AckInit /\ [][AckNext]_ackvars
AckFairness == WF_ackvars(Sweep)
-----------------------------------------------------------------------------
(* Properties.                                                              *)

(* An ask is open for its seat once, however many times it is asked, by     *)
(* whatever ways: at the POST, at the paste, by the operator.               *)
OneOpenPerAsk ==
    \A q, r \in OpenIn(ledger) : q.seat = r.seat /\ q.ask = r.ask => q = r

(* A row that is closed stays as it is, through sweeps, clearings and       *)
(* deaths: who answered, and how, is not written over.                      *)
AckedIsFinal == [][\A r \in ledger : ~IsOpen(r) => r \in ledger']_ackvars

(* An ask that was shown has a row, unless the daemon died on the way.      *)
AskTracked ==
    \A m \in Mail \ AckClass :
        shown[m] # 0 /\ ackFaults = 0 =>
            \E r \in ledger : r.seat = To[m] /\ r.ask = AskOf[m]

(* Mail of a lane is pasted once, and once more for a death.                *)
PastedOncePerDeath == \A m \in Mail : pastes[m] <= 1 + ackFaults

(* A reply is noted for a pane only when the agent was seen at work at or   *)
(* after the look that saw the last prompt go in, is at rest in a later     *)
(* one, and nothing the daemon pasted there came between; and it closes no  *)
(* prompt that is younger than that work.  Which of two prompts the work    *)
(* was for, no look can tell.                                               *)
NotedPaste(m) == m \notin Inbox \cap AckClass

ReplyIsLater ==
    [][/\ \A r \in ledger' \ ledger : r.by = "pane-reply" => busyAt[r.seat] >= r.at
       /\ \A s \in replied' \ replied :
             /\ asked'[s] = asked[s] /\ busyAt[s] >= asked[s]
             /\ \A m \in Mail : To[m] = s /\ NotedPaste(m) => shown[m] < asked[s]]_ackvars

(* What the seat filed after its oldest ask clears that ask.                *)
Answers(s) ==
    \E r \in OpenIn(ledger) :
        /\ r.seat = s /\ FilingsAfter(r) # {}
        /\ \A q \in OpenIn(ledger) : q.seat = s => q.at >= r.at

AnswersClear == \A s \in Seat : Answers(s) ~> ~Answers(s)

(* A burst of replies cannot clear a whole backlog: one filing, one row.    *)
OneFilingOneRow ==
    \A s \in Seat :
        Cardinality({r \in ledger : r.seat = s /\ r.by = "filed"})
            <= Cardinality({m \in Mail : From[m] = s /\ shown[m] # 0})
=============================================================================
