------------------------------ MODULE OcLimit -------------------------------
(***************************************************************************)
(* Recovery from a rate limit of the carrier ("OC Restart V2"): a daemon   *)
(* whose seats hit the limit reboots the modem, waits for a new address,   *)
(* reboots once more when the address stays, and then kills and revives    *)
(* the seats ("atomics").  The daemons of several meshes share the modem   *)
(* and three files: the once-gate stamp, the in-flight mark and the seats  *)
(* to revive.  Scripts, timers and daemons end in any order.               *)
(***************************************************************************)
EXTENDS Naturals, FiniteSets

CONSTANTS
    Daemon,       \* the daemons of the meshes on this host
    NoMark,       \* no in-flight mark
    MaxEpisodes,  \* bound on the episodes of one daemon
    MaxButtons,   \* bound on presses of the Reboot button
    MaxKills      \* bound on deaths of a daemon

ASSUME OcAssumption ==
    MaxEpisodes \in Nat /\ MaxButtons \in Nat /\ MaxKills \in Nat

VARIABLES
    stamp,      \* the shared stamp: "none", "young" (< 60 s) or "old"
    mark,       \* the shared in-flight mark: who, phase, beating or stale
    pending,    \* the shared list of seats to revive: "none", "new" or "stale"
    up,         \* up[d]: the daemon runs
    ep,         \* ep[d]: its episode: none, open or finished
    known,      \* known[d]: the episode began with a known address
    since,      \* since[d]: rebootCompletedAt: not set, recent, 5 minutes ago
    hits,       \* hits[d]: sameIpAfterRebootCount
    busy,       \* busy[d]: rebootRunning
    polls,      \* polls[d]: interval timers that call tickWaitIp
    own,        \* own[d]: one of them is the episode's pollTimer
    scripts,    \* scripts[d]: scripts and children that run, with their episode
    limited,    \* limited[d]: rateLimitEpisodeActive
    started,    \* started[d]: rateLimitRecoveryStarted
    recovering, \* recovering[d]: recoveryRunning
    n,          \* n[d]: number of the episode
    reboots,    \* history: reboots the episode started by itself
    kills,      \* history: how often the episode killed the seats
    buttons, deaths  \* what MaxButtons and MaxKills bound

shared == <<stamp, mark, pending>>
episode == <<ep, known, since, hits, busy, polls, own, n, reboots, kills>>
flags == <<limited, started, recovering>>
ocVars == <<shared, up, episode, scripts, flags, buttons, deaths>>

(* "orphan" is an atomics child whose exit no daemon waits for.            *)
Script == (0..MaxEpisodes) \X
          {"first", "again", "button", "proxy", "atomics", "orphan"}

Set(f, d, v) == [f EXCEPT ![d] = v]

OcInit ==
    /\ stamp = "none" /\ mark = NoMark /\ pending = "none"
    /\ up = [d \in Daemon |-> TRUE]
    /\ ep = [d \in Daemon |-> "none"] /\ known = [d \in Daemon |-> FALSE]
    /\ since = [d \in Daemon |-> "unset"] /\ hits = [d \in Daemon |-> 0]
    /\ busy = [d \in Daemon |-> FALSE] /\ polls = [d \in Daemon |-> 0]
    /\ scripts = [d \in Daemon |-> {}] /\ own = [d \in Daemon |-> FALSE]
    /\ limited = [d \in Daemon |-> FALSE] /\ started = limited
    /\ recovering = limited
    /\ n = [d \in Daemon |-> 0] /\ reboots = n /\ kills = n
    /\ buttons = 0 /\ deaths = 0

Active(d) == ep[d] = "open"
Mark(d, phase) == [by |-> d, phase |-> phase, alive |-> TRUE, beats |-> TRUE]
Launch(d, e, kind) == scripts' = Set(scripts, d, scripts[d] \cup {<<e, kind>>})

(***************************************************************************)
(* Beginning and finishing an episode.                                     *)
(***************************************************************************)
(* finishWithAtomics: the mark goes, the seats are listed and killed, and  *)
(* a child revives them.                                                   *)
Killing(d, k) ==
    /\ ep' = Set(ep, d, "done") /\ kills' = Set(kills, d, k)
    /\ mark' = NoMark /\ pending' = "new"

Atomics(d) ==
    /\ Killing(d, kills[d] + 1) /\ Launch(d, n[d], "atomics")
    /\ polls' = (IF own[d] THEN Set(polls, d, polls[d] - 1) ELSE polls)
    /\ own' = Set(own, d, FALSE)

(* startOcLimitV2Episode, once the caller's gate has let it through.  With *)
(* skipReboot the seats are killed and revived at once.                    *)
Fresh(d) ==
    /\ n[d] < MaxEpisodes /\ n' = Set(n, d, n[d] + 1)
    /\ stamp' = "young"
    /\ since' = Set(since, d, "unset") /\ hits' = Set(hits, d, 0)
    /\ own' = Set(own, d, FALSE)
    /\ started' = Set(started, d, TRUE)
    /\ recovering' = Set(recovering, d, TRUE)
    /\ UNCHANGED polls

BeginEpisode(d, ip) ==
    /\ Fresh(d) /\ Launch(d, n[d] + 1, "first")
    /\ mark' = Mark(d, "reboot") /\ busy' = Set(busy, d, TRUE)
    /\ ep' = Set(ep, d, "open") /\ known' = Set(known, d, ip)
    /\ reboots' = Set(reboots, d, 1) /\ kills' = Set(kills, d, 0)
    /\ UNCHANGED pending

BeginSkipped(d) ==
    /\ Fresh(d) /\ Killing(d, 1) /\ Launch(d, n[d] + 1, "atomics")
    /\ busy' = Set(busy, d, FALSE) /\ reboots' = Set(reboots, d, 0)
    /\ UNCHANGED known

(* reclaimOrphanOcLimitRecoveryStamp: a mark whose daemon is gone or does  *)
(* not beat is an orphan; without a mark a stamp of 60 s is.               *)
Orphan == IF mark # NoMark THEN ~(mark.alive /\ mark.beats) ELSE stamp = "old"

(***************************************************************************)
(* What the poll loop of a daemon does.                                    *)
(***************************************************************************)
(* A pane shows the limit and no episode is active: the gate is the stamp, *)
(* which an orphan does not hold, then the flags, the running episode and, *)
(* for a while after a start, lastRotateAt.                                *)
Gate(d) == stamp = "none" \/ (~Active(d) /\ Orphan)

Limit(d, ip) ==
    /\ up[d] /\ ~limited[d] /\ limited' = Set(limited, d, TRUE)
    /\ \/ /\ Gate(d) /\ ~started[d] /\ ~recovering[d] /\ ~Active(d)
          /\ BeginEpisode(d, ip)
       \/ /\ ~Gate(d) /\ started' = Set(started, d, TRUE)
          /\ UNCHANGED <<shared, episode, scripts, recovering>>
       \/ /\ Gate(d) /\ (started[d] \/ recovering[d] \/ Active(d) \/ n[d] > 0)
          /\ stamp' = "none" /\ mark' = (IF stamp = "none" THEN mark ELSE NoMark)
          /\ UNCHANGED <<pending, episode, scripts, started, recovering>>
    /\ UNCHANGED <<up, buttons, deaths>>

(* No pane has shown it for two minutes.                                   *)
LimitClears(d) ==
    /\ up[d] /\ limited[d]
    /\ limited' = Set(limited, d, FALSE) /\ started' = Set(started, d, FALSE)
    /\ UNCHANGED <<shared, up, episode, scripts, recovering, buttons, deaths>>

(* PROXY-DOWN runs its script under the same flag.                         *)
ProxyUp(d) ==
    /\ up[d] /\ ~recovering[d] /\ <<n[d], "proxy">> \notin scripts[d]
    /\ recovering' = Set(recovering, d, TRUE) /\ Launch(d, n[d], "proxy")
    /\ UNCHANGED <<shared, up, episode, limited, started, buttons, deaths>>

(* POST /connectivity/oc-restart-v2: drops the stamp and the flags, then   *)
(* starts, which an open episode refuses.                                  *)
Manual(d, ip, skip) ==
    /\ up[d]
    /\ \/ /\ Active(d) /\ stamp' = "none"
          /\ started' = Set(started, d, FALSE)
          /\ recovering' = Set(recovering, d, FALSE)
          /\ UNCHANGED <<mark, pending, episode, scripts>>
       \/ ~Active(d) /\ ~skip /\ BeginEpisode(d, ip)
       \/ ~Active(d) /\ skip /\ BeginSkipped(d)
    /\ UNCHANGED <<up, limited, buttons, deaths>>

(***************************************************************************)
(* Scripts that end: the callback acts on the episode of now, not on its   *)
(* own, and on nothing when the daemon that waits for it is gone.          *)
(***************************************************************************)
Ended(d, s) == s \in scripts[d] /\ scripts' = Set(scripts, d, scripts[d] \ {s})

(* Mutated form of Rebooted, for EpisodeEnds: only the first reboot is     *)
(* recorded as completed.                                                  *)
RebootedFirst(d) ==
    /\ busy' = Set(busy, d, FALSE)
    /\ since' = (IF Active(d) /\ polls[d] = 0 THEN Set(since, d, "recent") ELSE since)

(* The close of a reboot.                                                  *)
Rebooted(d) ==
    /\ busy' = Set(busy, d, FALSE)
    /\ since' = (IF Active(d) THEN Set(since, d, "recent") ELSE since)

AgainEnds(d, s) ==
    /\ s[2] \in {"again", "button"} /\ Ended(d, s) /\ Rebooted(d)
    /\ UNCHANGED <<shared, up, ep, known, hits, polls, own, n, reboots, kills,
                   flags, buttons, deaths>>

(* The first reboot ends: beginPoll ticks at once and sets the timer, also *)
(* when that tick found a new address and finished the episode.  A script  *)
(* that cannot be spawned calls back twice ('error', 'close').             *)
FirstEnds(d, s) ==
    /\ s[2] = "first" /\ Rebooted(d)
    /\ \/ /\ ~Active(d) /\ Ended(d, s)
          /\ UNCHANGED <<mark, pending, ep, kills, polls, own>>
       \/ /\ Active(d) /\ Ended(d, s) /\ mark' = Mark(d, "wait-ip")
          /\ \E k \in 1..2 : polls' = Set(polls, d, polls[d] + k)
          /\ own' = Set(own, d, TRUE)
          /\ UNCHANGED <<pending, ep, kills>>
       \/ /\ Active(d) /\ Killing(d, kills[d] + 1)
          /\ s \in scripts[d]
          /\ scripts' = Set(scripts, d, (scripts[d] \ {s}) \cup {<<n[d], "atomics">>})
          /\ polls' = Set(polls, d, polls[d] + 1) /\ own' = Set(own, d, TRUE)
    /\ UNCHANGED <<stamp, up, known, hits, n, reboots, flags, buttons, deaths>>

ProxyEnds(d, s) ==
    /\ s[2] = "proxy" /\ Ended(d, s)
    /\ recovering' = Set(recovering, d, FALSE)
    /\ UNCHANGED <<shared, up, episode, limited, started, buttons, deaths>>

(* The atomics child exits; its daemon drops the list when all went well.  *)
ChildExits(d, s) ==
    /\ s[2] = "atomics" /\ Ended(d, s)
    /\ recovering' = Set(recovering, d, FALSE) /\ pending' \in {"none", pending}
    /\ UNCHANGED <<stamp, mark, up, episode, limited, started, buttons, deaths>>

OrphanExits(d, s) ==
    /\ s[2] = "orphan" /\ Ended(d, s)
    /\ UNCHANGED <<shared, up, episode, flags, buttons, deaths>>

ScriptEnds(d, s) ==
    \/ AgainEnds(d, s) \/ FirstEnds(d, s) \/ ProxyEnds(d, s)
    \/ ChildExits(d, s) \/ OrphanExits(d, s)

(***************************************************************************)
(* The poll that waits for an address.                                     *)
(***************************************************************************)
(* Mutated form of Ticking, for EpisodeBounded: a finished episode is polled.  *)
TickingOn(d) == up[d] /\ ep[d] # "none" /\ polls[d] > 0

(* A tick of tickWaitIp, which first renews the mark.                      *)
Ticking(d) == up[d] /\ Active(d) /\ polls[d] > 0

(* A new address, or the first one after an unknown start.                 *)
TickNew(d) ==
    /\ Ticking(d) /\ Atomics(d)
    /\ UNCHANGED <<stamp, up, known, since, hits, busy, n, reboots, flags,
                   buttons, deaths>>

(* The same address, five minutes after a reboot: the first time a second  *)
(* reboot, then the atomics all the same.                                  *)
FirstHit(d) == hits[d] = 0

TickSame(d) ==
    /\ Ticking(d) /\ known[d] /\ since[d] = "waited"
    /\ hits' = Set(hits, d, hits[d] + 1)
    /\ \/ /\ FirstHit(d)
          /\ mark' = Mark(d, "wait-ip") /\ since' = Set(since, d, "unset")
          /\ \/ busy[d] /\ UNCHANGED <<busy, scripts, reboots>>
             \/ /\ ~busy[d] /\ busy' = Set(busy, d, TRUE)
                /\ Launch(d, n[d], "again")
                /\ reboots' = Set(reboots, d, reboots[d] + 1)
          /\ UNCHANGED <<pending, ep, kills, polls, own>>
       \/ /\ ~FirstHit(d) /\ Atomics(d) /\ UNCHANGED <<since, busy, reboots>>
    /\ UNCHANGED <<stamp, up, known, n, flags, buttons, deaths>>

(* No address, or the same one too early: only the mark is renewed.        *)
TickWaits(d) ==
    /\ Ticking(d) /\ mark' = Mark(d, "wait-ip")
    /\ UNCHANGED <<stamp, pending, up, episode, scripts, flags, buttons, deaths>>

(* The Reboot button of the stuck toast.                                   *)
Button(d) ==
    /\ up[d] /\ Active(d) /\ ~busy[d] /\ buttons < MaxButtons
    /\ buttons' = buttons + 1 /\ since' = Set(since, d, "unset")
    /\ busy' = Set(busy, d, TRUE) /\ Launch(d, n[d], "button")
    /\ UNCHANGED <<shared, up, ep, known, hits, polls, own, n, reboots, kills,
                   flags, deaths>>

(***************************************************************************)
(* Time, deaths and starts.                                                *)
(***************************************************************************)
Ages ==
    /\ \/ /\ stamp # "none"
          /\ stamp' = (IF stamp = "young" THEN "old" ELSE "none")
          /\ UNCHANGED <<mark, pending>>
       \/ /\ mark # NoMark /\ mark.beats
          /\ mark' = [mark EXCEPT !.beats = FALSE]
          /\ UNCHANGED <<stamp, pending>>
       \/ pending = "new" /\ pending' = "stale" /\ UNCHANGED <<stamp, mark>>
    /\ UNCHANGED <<up, episode, scripts, flags, buttons, deaths>>

FiveMinutes(d) ==
    /\ since[d] = "recent" /\ since' = Set(since, d, "waited")
    /\ UNCHANGED <<shared, up, ep, known, hits, busy, polls, own, n, reboots,
                   kills, scripts, flags, buttons, deaths>>

(* A daemon dies with its memory and timers; nobody waits for its scripts. *)
DaemonDies(d) ==
    /\ up[d] /\ deaths < MaxKills /\ deaths' = deaths + 1
    /\ up' = Set(up, d, FALSE) /\ ep' = Set(ep, d, "none")
    /\ polls' = Set(polls, d, 0) /\ own' = Set(own, d, FALSE)
    /\ busy' = Set(busy, d, FALSE)
    /\ since' = Set(since, d, "unset") /\ hits' = Set(hits, d, 0)
    /\ limited' = Set(limited, d, FALSE) /\ started' = Set(started, d, FALSE)
    /\ recovering' = Set(recovering, d, FALSE)
    /\ scripts' = Set(scripts, d, {<<s[1], "orphan">> : s \in
                       {t \in scripts[d] : t[2] \in {"atomics", "orphan"}}})
    /\ mark' = (IF mark # NoMark /\ mark.by = d
               THEN [mark EXCEPT !.alive = FALSE] ELSE mark)
    /\ UNCHANGED <<stamp, pending, known, n, reboots, kills, buttons>>

(* resumeOcLimitV2AfterDaemonRestart: hands a fresh list of seats to a     *)
(* child when none runs; or takes up the wait of a daemon that died in it, *)
(* without a second reboot; or drops an orphan's stamp.                    *)
AtomicsBusy ==
    \E d \in Daemon : \E s \in scripts[d] : s[2] \in {"atomics", "orphan"}

Resume(d) ==
    /\ ~up[d] /\ up' = Set(up, d, TRUE)
    /\ \/ /\ pending = "new" /\ ~AtomicsBusy /\ Launch(d, n[d], "orphan")
          /\ started' = Set(started, d, TRUE)
          /\ recovering' = Set(recovering, d, TRUE)
          /\ UNCHANGED <<shared, episode>>
       \/ /\ pending # "new" \/ AtomicsBusy
          /\ mark # NoMark /\ ~mark.alive /\ mark.phase = "wait-ip"
          /\ BeginSkipped(d)
       \/ /\ pending # "new" \/ AtomicsBusy
          /\ ~(mark # NoMark /\ ~mark.alive /\ mark.phase = "wait-ip")
          /\ pending' = (IF pending = "stale" /\ ~AtomicsBusy THEN "none" ELSE pending)
          /\ stamp' = (IF Orphan THEN "none" ELSE stamp)
          /\ mark' = (IF Orphan THEN NoMark ELSE mark)
          /\ UNCHANGED <<episode, scripts, started, recovering>>
    /\ UNCHANGED <<limited, buttons, deaths>>

OcNext ==
    \/ Ages
    \/ \E d \in Daemon :
          \/ \E ip \in BOOLEAN : Limit(d, ip)
          \/ \E ip, skip \in BOOLEAN : Manual(d, ip, skip)
          \/ LimitClears(d) \/ ProxyUp(d) \/ Button(d) \/ FiveMinutes(d)
          \/ TickNew(d) \/ TickSame(d) \/ TickWaits(d)
          \/ \E s \in Script : ScriptEnds(d, s)
          \/ DaemonDies(d) \/ Resume(d)

(* Scripts end and hours pass; the interval timer ticks, and the probe is  *)
(* answered again and again, be it with the old address.                   *)
OcFairness ==
    \A d \in Daemon :
        /\ WF_ocVars(FiveMinutes(d))
        /\ WF_ocVars(TickSame(d)) /\ WF_ocVars(~known[d] /\ TickNew(d))
        /\ WF_ocVars(\E s \in Script : FirstEnds(d, s))
        /\ WF_ocVars(\E s \in Script : AgainEnds(d, s))

OcSpec == OcInit /\ [][OcNext]_ocVars
OcFairSpec == OcSpec /\ OcFairness

(***************************************************************************)
(* Properties.                                                             *)
(***************************************************************************)
(* The type invariant of the recovery.                                     *)
OcTypeOK ==
    /\ stamp \in {"none", "young", "old"} /\ pending \in {"none", "new", "stale"}
    /\ mark \in [by : Daemon, phase : {"reboot", "wait-ip"},
                 alive : BOOLEAN, beats : BOOLEAN] \cup {NoMark}
    /\ up \in [Daemon -> BOOLEAN] /\ ep \in [Daemon -> {"none", "open", "done"}]
    /\ known \in [Daemon -> BOOLEAN] /\ own \in [Daemon -> BOOLEAN]
    /\ since \in [Daemon -> {"unset", "recent", "waited"}]
    /\ hits \in [Daemon -> 0..2] /\ busy \in [Daemon -> BOOLEAN]
    /\ polls \in [Daemon -> Nat] /\ scripts \in [Daemon -> SUBSET Script]
    /\ limited \in [Daemon -> BOOLEAN] /\ started \in [Daemon -> BOOLEAN]
    /\ recovering \in [Daemon -> BOOLEAN]
    /\ n \in [Daemon -> 0..MaxEpisodes] /\ reboots \in [Daemon -> Nat]
    /\ kills \in [Daemon -> Nat] /\ buttons \in Nat /\ deaths \in Nat

(* An episode kills the seats at most once, whatever timers earlier        *)
(* episodes left running and whatever callbacks arrive late; and by itself *)
(* it reboots the modem at most twice.                                     *)
EpisodeBounded == \A d \in Daemon : kills[d] <= 1 /\ reboots[d] <= 2

(* An open episode comes to its atomics unless the daemon dies: a carrier  *)
(* that keeps its address, a second reboot or a late callback of an        *)
(* earlier episode do not leave it waiting for ever.                       *)
EpisodeEnds == \A d \in Daemon : Active(d) ~> ~Active(d)
=============================================================================
