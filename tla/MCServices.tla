----------------------------- MODULE MCServices -----------------------------
(* The services around the mail queue, each on an instance of its own: the  *)
(* variable part chooses one of them, and the others stay as they began.    *)
EXTENDS AckLedger, NotifyActs, RoomCalls, TermPool, QueueStore, OcLimit, Targets,
        Connectivity, TLC

CONSTANTS sa, sb, m1, m2, m3, m4, x, y, p, q,
          n1, n2, n3, t1, t2, t3, t4, w1, w2, c1, c2, d1,
          g1, g2, g3, go, gp, pa, pb

VARIABLE part

ServiceVars == <<ackvars, actvars, callVars, tpvars, storeVars, ocVars, targetVars,
                 connVars>>

(* m1 peer mail, m2 mail for the lane of sb, m3 an acknowledgement that     *)
(* goes back, m4 scheduled mail with the text of m2.                        *)
MCFrom == (m1 :> sa) @@ (m2 :> sa) @@ (m3 :> sb) @@ (m4 :> sa)
MCTo == (m1 :> sb) @@ (m2 :> sb) @@ (m3 :> sa) @@ (m4 :> sb)
MCAskOf == (m1 :> x) @@ (m2 :> y) @@ (m3 :> x) @@ (m4 :> y)

(* n1 with two links, the first notification; n2 and n3 with an answer each.*)
MCNoteOf == (t1 :> n1) @@ (t2 :> n1) @@ (t3 :> n2) @@ (t4 :> n3)

(* Two workers that call each other.                                        *)
MCCaller == (c1 :> w1) @@ (c2 :> w2)
MCCallee == (c1 :> w2) @@ (c2 :> w1)

(* Two scopes with one goal, and a slice.                                   *)
MCGoalOf == (g1 :> go) @@ (g2 :> go) @@ (g3 :> gp)

MCPanes == <<pa, pb>>

AckFrozen == UNCHANGED ackvars
ActFrozen == UNCHANGED actvars
CallFrozen == UNCHANGED callVars
PoolFrozen == UNCHANGED tpvars
StoreFrozen == UNCHANGED storeVars
OcFrozen == UNCHANGED ocVars
TargetFrozen == UNCHANGED targetVars
ConnFrozen == UNCHANGED connVars

-----------------------------------------------------------------------------
(* Bounds, on steps no fairness is asked of.  Asks that travel as mail and  *)
(* prompts that are typed meet in the second scene only.                    *)
AckAsks ==
    /\ part = "asks" /\ AckNext
    /\ painted' = {} /\ posted'[m4] = 0 /\ ~\E s \in Seat : QuietEnds(s)
AckPrompts ==
    /\ part = "prompts" /\ AckNext
    /\ posted'[m1] = 0 /\ posted'[m2] = 0 /\ posted'[m3] = 0
    /\ ackFaults' = 0 /\ dropped' = {}
    /\ \A r \in ledger' : r.by \notin {"explicit", "operator"}

(* Timers and buttons of two episodes without deaths; deaths and files.     *)
OcTimers ==
    /\ part = "timers" /\ OcNext
    /\ deaths' = 0 /\ limited' = limited
    /\ stamp' = "old" => stamp = "old"
    /\ \A d \in Daemon, s \in Script : s \in scripts'[d] => s[2] # "proxy"
OcFiles ==
    /\ part = "files" /\ OcNext
    /\ buttons' = 0
    /\ \A d \in Daemon : polls'[d] < 2 /\ known'[d] /\ (n'[d] = 2 => deaths' = 1)

(* A scope that is due, asked about, closed or superseded, and a due slice. *)
TargetScene ==
    /\ part = "targets" /\ TargetNext
    /\ late' \in {{}, {g1}, {g1, g3}} /\ pressed'[g2] = 0 /\ pressed'[g3] = 0
    /\ entry'[g1].status # "none"
    /\ entry'[g2].status \in {"none", "active"} /\ entry'[g3].status \in {"none", "active"}

(* pa loses its connection, pb that, its credit, its quota or its program;  *)
(* the probe's lock is met with pb at work.                                 *)
ProxyScene ==
    /\ part = "proxy" /\ ConnNext
    /\ screen'[pa] \in {"works", "connect"}
    /\ locks' > 0 => screen'[pb] = "works"

ServicesInit ==
    /\ AckInit /\ ActInit /\ CallInit /\ TpInit /\ StoreInit /\ OcInit /\ TargetInit
    /\ ConnInit
    /\ part \in {"asks", "prompts", "acts", "calls", "pool", "store", "timers", "files",
                "targets", "proxy"}
    /\ part # "calls" => \A a \in Answer : on[a] = c1 /\ verdict[a] = "declined"
    /\ part # "store" => native

ServicesNext ==
    /\ UNCHANGED part
    /\ \/ /\ AckAsks \/ AckPrompts
          /\ ActFrozen /\ CallFrozen /\ PoolFrozen /\ StoreFrozen /\ OcFrozen /\ TargetFrozen
          /\ ConnFrozen
       \/ /\ part = "acts" /\ ActNext
          /\ AckFrozen /\ CallFrozen /\ PoolFrozen /\ StoreFrozen /\ OcFrozen /\ TargetFrozen
          /\ ConnFrozen
       \/ /\ part = "calls" /\ CallNext
          /\ AckFrozen /\ ActFrozen /\ PoolFrozen /\ StoreFrozen /\ OcFrozen /\ TargetFrozen
          /\ ConnFrozen
       \/ /\ part = "pool" /\ TpNext
          /\ AckFrozen /\ ActFrozen /\ CallFrozen /\ StoreFrozen /\ OcFrozen /\ TargetFrozen
          /\ ConnFrozen
       \/ /\ part = "store" /\ StoreNext
          /\ AckFrozen /\ ActFrozen /\ CallFrozen /\ PoolFrozen /\ OcFrozen /\ TargetFrozen
          /\ ConnFrozen
       \/ /\ OcTimers \/ OcFiles
          /\ AckFrozen /\ ActFrozen /\ CallFrozen /\ PoolFrozen /\ StoreFrozen /\ TargetFrozen
          /\ ConnFrozen
       \/ /\ TargetScene
          /\ AckFrozen /\ ActFrozen /\ CallFrozen /\ PoolFrozen /\ StoreFrozen /\ OcFrozen
          /\ ConnFrozen
       \/ /\ ProxyScene
          /\ AckFrozen /\ ActFrozen /\ CallFrozen /\ PoolFrozen /\ StoreFrozen /\ OcFrozen
          /\ TargetFrozen

(* AckFairness, TpFairness and OcFairness, each in the scenes of its part.  *)
Oc == part \in {"timers", "files"}

ServicesFairness ==
    /\ WF_ackvars(part \in {"asks", "prompts"} /\ Sweep)
    /\ WF_tpvars(part = "pool" /\ DrainPool)
    /\ \A j \in Job : WF_tpvars(part = "pool" /\ OnExit(j))
                     /\ WF_tpvars(part = "pool" /\ OnTimeout(j))
    /\ \A d \in Daemon :
        /\ WF_ocVars(Oc /\ FiveMinutes(d))
        /\ WF_ocVars(Oc /\ TickSame(d)) /\ WF_ocVars(Oc /\ ~known[d] /\ TickNew(d))
        /\ WF_ocVars(Oc /\ \E s \in Script : FirstEnds(d, s))
        /\ WF_ocVars(Oc /\ \E s \in Script : AgainEnds(d, s))
    /\ WF_targetVars(part = "targets" /\ BeginTargets)
    /\ WF_targetVars(part = "targets" /\ FireNext)
    /\ WF_connVars(part = "proxy" /\ Poll)
    /\ WF_connVars(part = "proxy" /\ PollAcks)
    /\ WF_connVars(part = "proxy" /\ Wave)

ServicesSpec ==
    /\ ServicesInit /\ [][ServicesNext]_<<ServiceVars, part>>
    /\ ServicesFairness

(* The type invariants of the eight.                                        *)
ServicesTypeOK ==
    /\ AckTypeOK /\ ActTypeOK /\ CallTypeOK /\ TpTypeOK /\ StoreTypeOK /\ OcTypeOK
    /\ TargetTypeOK /\ ConnTypeOK
=============================================================================
