---------------------------- MODULE Connectivity ----------------------------
(***************************************************************************)
(* The daemon's watch over the proxy: a poll looks at a few panes, keeps   *)
(* what it saw of each, opens and closes the PROXY-DOWN episode, and at    *)
(* its end sends the resume wave, whose panes a second poll confirms.      *)
(* Mail is held for the panes the cache has, and for all while the episode *)
(* lasts.  The rate-limit episode of the same poll is in OcLimit.          *)
(***************************************************************************)
EXTENDS Naturals, Sequences, FiniteSets

CONSTANTS
    Panes,         \* the monitored panes, a sequence in tmux's order
    ScanBatch,     \* panes looked at in one poll (4 in the code)
    ConnectNeed,   \* looks in a row that confirm a transport error (15)
    MaxLocks       \* bound on polls that find cpe-wifi-probe.lock

MPane == {Panes[i] : i \in DOMAIN Panes}

ASSUME ConnectivityAssumption ==
    /\ Panes \in Seq(MPane) /\ Panes # <<>> /\ Cardinality(MPane) = Len(Panes)
    /\ ScanBatch \in Nat \ {0} /\ ConnectNeed \in Nat \ {0} /\ MaxLocks \in Nat

VARIABLES
    screen,       \* what each pane shows
    cache,        \* paneLimitCache: "connect" or "rate" of the last look
    streak,       \* paneConnectStreak
    scanFrom,     \* paneScanOffset
    down,         \* proxyDownActive
    cleared,      \* an episode ended less than 90 s ago
    waveDue,      \* the resume wave is queued behind the poll
    looked,       \* the confirming poll is next
    unconfirmed,  \* panes of the active wave without an acknowledgement
    locks,        \* history: polls that found the lock
    owed          \* history: an episode began, and no wave was sent since

connVars == <<screen, cache, streak, scanFrom, down, cleared, waveDue, looked,
              unconfirmed, locks, owed>>

(* An OpenCode pane works, shows a transport error, the carrier's rate     *)
(* limit or the router's credit gate; anything else is another program, or *)
(* no capture.                                                             *)
OpenCode == {"works", "connect", "rate", "credit"}
Screens == OpenCode \cup {"other"}

ConnInit ==
    /\ screen = [p \in MPane |-> "works"]
    /\ cache = [p \in MPane |-> "none"] /\ streak = [p \in MPane |-> 0]
    /\ scanFrom = 0 /\ down = FALSE /\ cleared = FALSE /\ waveDue = FALSE /\ looked = FALSE
    /\ unconfirmed = {} /\ locks = 0 /\ owed = FALSE

-----------------------------------------------------------------------------
(* The panes of this poll.                                                 *)
Scanned ==
    LET n == IF ScanBatch < Len(Panes) THEN ScanBatch ELSE Len(Panes)
    IN  {Panes[((scanFrom + i) % Len(Panes)) + 1] : i \in 0..(n - 1)}

NextScan == (scanFrom + ScanBatch) % Len(Panes)

(* One look: a confirmed error or a rate limit is kept, a pane that works  *)
(* is forgotten; a credit gate is left to its own lane, together with what *)
(* the look before had kept.                                               *)
Streak(p) ==
    IF p \notin Scanned THEN streak[p]
    ELSE CASE screen[p] = "connect" ->
                IF streak[p] < ConnectNeed THEN streak[p] + 1 ELSE ConnectNeed
           [] screen[p] \in {"works", "rate"} -> 0
           [] OTHER -> streak[p]

(* Mutated form: a look leaves what it has of a pane that works again.     *)
CachedUntilAck(p) ==
    CASE p \in Scanned /\ screen[p] = "connect" /\ Streak(p) >= ConnectNeed -> "connect"
      [] p \in Scanned /\ screen[p] = "rate" -> "rate"
      [] OTHER -> cache[p]

Cached(p) ==
    IF p \notin Scanned THEN cache[p]
    ELSE CASE screen[p] = "connect" ->
                IF Streak(p) >= ConnectNeed THEN "connect" ELSE "none"
           [] screen[p] = "rate" -> "rate"
           [] screen[p] = "credit" -> cache[p]
           [] OTHER -> "none"

Confirmed == {p \in MPane : Cached(p) = "connect"}

(* pollConnectivityRecovery up to its episode.                             *)
Look ==
    /\ ~looked /\ ~waveDue /\ looked' = TRUE
    /\ cache' = [p \in MPane |-> Cached(p)]
    /\ scanFrom' = NextScan
    /\ UNCHANGED <<screen, unconfirmed>>

(* The lock of a probe that switches the network ends the episode.         *)
PollLocked ==
    /\ Look
    /\ locks < MaxLocks /\ locks' = locks + 1
    /\ streak' = [p \in MPane |-> Streak(p)]
    /\ down' = FALSE
    /\ UNCHANGED <<cleared, waveDue, owed>>

(* An episode starts with a confirmed error, within 90 s of the last only  *)
(* if the carrier is unreachable as well, and lasts until none is left.    *)
Starts(carrierOk) == ~down /\ Confirmed # {} /\ ~(carrierOk /\ cleared)

(* Mutated form: rate limits count for the episode.                        *)
LimitsGone == down /\ \A p \in MPane : Cached(p) = "none"

Clears == down /\ Confirmed = {}

Poll ==
    /\ Look
    /\ \E carrierOk \in BOOLEAN :
        /\ down' = ((down \/ Starts(carrierOk)) /\ ~Clears)
        /\ owed' = (owed \/ down')
    /\ streak' = [p \in MPane |-> IF Clears THEN 0 ELSE Streak(p)]
    /\ cleared' = (cleared \/ Clears)
    /\ waveDue' = Clears
    /\ UNCHANGED locks

(* pollResumeAcks, queued by the same timer: a pane of the wave that works *)
(* loses its banner, one that is no OpenCode pane any more is not waited   *)
(* for.                                                                    *)
Acked == {p \in unconfirmed : screen[p] \in {"works", "other"}}
Working == {p \in Acked : screen[p] = "works"}

PollAcks ==
    /\ looked /\ looked' = FALSE
    /\ cache' = [p \in MPane |-> IF p \in Working THEN "none" ELSE cache[p]]
    /\ streak' = [p \in MPane |-> IF p \in Working THEN 0 ELSE streak[p]]
    /\ unconfirmed' = unconfirmed \ Acked
    /\ UNCHANGED <<screen, scanFrom, down, cleared, waveDue, locks, owed>>

(* resumeAllOpenCodePanes: the command is pasted where the capture has a   *)
(* session to resume, and a wave that was pasted anywhere replaces the one *)
(* before.                                                                 *)
SendResume ==
    /\ \E sent \in SUBSET {p \in MPane : screen[p] \in OpenCode} :
          unconfirmed' = IF sent = {} THEN unconfirmed ELSE sent
    /\ owed' = FALSE
    /\ UNCHANGED <<screen, cache, streak, scanFrom, down, cleared, looked, locks>>

Wave == waveDue /\ ~looked /\ waveDue' = FALSE /\ SendResume

(* POST /connectivity/oc-resume of another mesh's daemon.                  *)
RemoteResume == ~looked /\ UNCHANGED waveDue /\ SendResume

-----------------------------------------------------------------------------
RearmEnds ==
    /\ cleared /\ cleared' = FALSE
    /\ UNCHANGED <<screen, cache, streak, scanFrom, down, waveDue, looked, unconfirmed,
                   locks, owed>>

ScreenChanges(p) ==
    /\ \E s \in Screens \ {screen[p]} : screen' = [screen EXCEPT ![p] = s]
    /\ UNCHANGED <<cache, streak, scanFrom, down, cleared, waveDue, looked, unconfirmed,
                   locks, owed>>

(* The watch is in memory: a death forgets the episode and its wave.       *)
CrashConn ==
    /\ cache' = [p \in MPane |-> "none"] /\ streak' = [p \in MPane |-> 0]
    /\ scanFrom' = 0 /\ down' = FALSE /\ cleared' = FALSE /\ waveDue' = FALSE /\ looked' = FALSE
    /\ unconfirmed' = {} /\ owed' = FALSE
    /\ UNCHANGED <<screen, locks>>

ConnDaemon == Poll \/ PollLocked \/ PollAcks \/ Wave

ConnNext ==
    \/ ConnDaemon \/ RemoteResume \/ RearmEnds \/ CrashConn
    \/ \E p \in MPane : ScreenChanges(p)

(* The poll timer runs for ever, and so does what a poll queues.           *)
ConnFairness == WF_connVars(Poll) /\ WF_connVars(PollAcks) /\ WF_connVars(Wave)

ConnSpec == ConnInit /\ [][ConnNext]_connVars /\ ConnFairness

(***************************************************************************)
(* Properties.                                                             *)
(***************************************************************************)
(* The type invariant of the watch.                                        *)
ConnTypeOK ==
    /\ screen \in [MPane -> Screens]
    /\ cache \in [MPane -> {"none", "connect", "rate"}]
    /\ streak \in [MPane -> 0..ConnectNeed]
    /\ scanFrom \in 0..(Len(Panes) - 1)
    /\ {down, cleared, waveDue, looked, owed} \subseteq BOOLEAN
    /\ unconfirmed \subseteq MPane
    /\ locks \in 0..MaxLocks

(* A pane that works again gets its mail again: deliveryHoldForPane holds  *)
(* what the cache has, and only a look or an acknowledgement clears it, a  *)
(* few panes at a time.                                                    *)
HoldsEnd ==
    \A p \in MPane :
        (cache[p] # "none" /\ screen[p] = "works")
            ~> (cache[p] = "none" \/ screen[p] # "works")

(* "Resume wave waits for PROXY-DOWN episode clear": an episode is followed *)
(* by the wave once no pane shows the error, also while the carrier limits *)
(* panes.  A poll that found the probe's lock ended the episode without a  *)
(* wave, and a credit gate keeps what its pane had shown before.           *)
Quiet == \A p \in MPane : screen[p] \notin {"connect", "credit"}

ResumeFollows == (owed /\ Quiet /\ locks = 0) ~> (~owed \/ ~Quiet \/ locks > 0)

(* deliveryHoldForPane holds mail as "connect" only on a full streak of     *)
(* looks: whatever a look, an acknowledgement, the lock or the end of an   *)
(* episode resets, no hold is left without its streak.                     *)
HoldIsConfirmed == \A p \in MPane : cache[p] = "connect" => streak[p] = ConnectNeed

(* Every episode that ends queues its wave, but for a lock; and while the  *)
(* wave is queued the cache holds no pane for the error, nor does an       *)
(* episode outlast the poll that confirms none.                            *)
WaveIsOwed ==
    /\ owed /\ locks = 0 => down \/ waveDue
    /\ waveDue => ~down /\ \A p \in MPane : cache[p] # "connect"
    /\ down /\ looked => \E p \in MPane : cache[p] = "connect"
=============================================================================
