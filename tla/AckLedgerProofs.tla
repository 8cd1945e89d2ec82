--------------------------- MODULE AckLedgerProofs ---------------------------
(* Theorems about AckLedger, for any seats, mail, prompts and bounds.       *)
EXTENDS AckLedger, TLAPS

Closer == {"explicit", "filed", "pane-reply", "operator"}

Same(q, r) == q.seat = r.seat /\ q.ask = r.ask /\ q.source = r.source /\ q.at = r.at

-----------------------------------------------------------------------------
(* What the two operations on the ledger do to any set of rows.             *)

LEMMA Texts ==
    ASSUME NEW m \in Mail
    PROVE  AskOf[m] \in Text /\ To[m] \in Seat /\ From[m] \in Seat
BY AckAssumption DEF Text

LEMMA OpenRows ==
    ASSUME NEW rows \in SUBSET Row
    PROVE  OpenIn(rows) \subseteq rows /\ \A r \in OpenIn(rows) : r \in Row /\ r.by = "nobody"
BY DEF OpenIn, IsOpen

(* new has one more open row for the ask than rows, or one was there.       *)
Opens(new, rows, seat, ask, source, t) ==
    /\ new \in SUBSET Row /\ rows \subseteq new
    /\ \A r \in new \ rows :
          /\ r.seat = seat /\ r.ask = ask /\ r.source = source
          /\ r.at = t /\ r.by = "nobody"
          /\ ~Known(rows, seat, ask)
    /\ \E r \in new : r.seat = seat /\ r.ask = ask

LEMMA OpenedRows ==
    ASSUME NEW rows \in SUBSET Row, NEW seat \in Seat, NEW ask \in Text,
           NEW source \in {"operator", "inbox", "peer"}, NEW t \in Nat
    PROVE  Opens(Opened(rows, seat, ask, source, t), rows, seat, ask, source, t)
<1> DEFINE row == [seat |-> seat, ask |-> ask, source |-> source, at |-> t, by |-> "nobody"]
<1>1. row \in Row
  BY DEF Row
<1>2. CASE Known(rows, seat, ask)
  BY <1>2 DEF Opened, Known, OpenIn, Opens
<1>3. CASE ~Known(rows, seat, ask)
  <2>1. Opened(rows, seat, ask, source, t) = rows \cup {row}
    BY <1>3 DEF Opened
  <2>2. QED
    BY <1>1, <1>3, <2>1 DEF Opens
<1>4. QED
  BY <1>2, <1>3

LEMMA ClosedRows ==
    ASSUME NEW rows \in SUBSET Row, NEW some \in SUBSET OpenIn(rows), NEW who \in Closer
    PROVE  /\ ClosedBy(rows, some, who) \in SUBSET Row
           /\ OpenIn(ClosedBy(rows, some, who)) \subseteq OpenIn(rows)
           /\ \A r \in rows : ~IsOpen(r) => r \in ClosedBy(rows, some, who)
           /\ \A r \in rows : \E q \in ClosedBy(rows, some, who) : Same(q, r)
           /\ \A q \in ClosedBy(rows, some, who) :
                 q \in rows \/ (q.by = who /\ \E r \in some : Same(q, r))
<1>1. \A r \in some : r \in rows /\ r \in Row /\ r.by = "nobody"
  BY OpenRows
<1>2. ASSUME NEW r \in some
      PROVE  /\ [r EXCEPT !.by = who] \in Row /\ [r EXCEPT !.by = who].by = who
             /\ Same([r EXCEPT !.by = who], r)
  BY <1>1 DEF Row, Same, Closer
<1>3. ClosedBy(rows, some, who) \in SUBSET Row
  BY <1>2 DEF ClosedBy
<1>4. \A q \in ClosedBy(rows, some, who) :
         q \in rows \/ (q.by = who /\ \E r \in some : Same(q, r))
  BY <1>2 DEF ClosedBy
<1>5. OpenIn(ClosedBy(rows, some, who)) \subseteq OpenIn(rows)
  BY <1>4 DEF OpenIn, IsOpen, Closer
<1>6. \A r \in rows : ~IsOpen(r) => r \in ClosedBy(rows, some, who)
  BY <1>1 DEF ClosedBy, IsOpen
<1>7. ASSUME NEW r \in rows
      PROVE  \E q \in ClosedBy(rows, some, who) : Same(q, r)
  <2>1. CASE r \in some
    BY <1>2, <2>1 DEF ClosedBy
  <2>2. CASE r \notin some
    BY <2>2 DEF ClosedBy, Same
  <2>3. QED
    BY <2>1, <2>2
<1>8. QED
  BY <1>3, <1>4, <1>5, <1>6, <1>7

LEMMA AskRows ==
    ASSUME AckTypeOK, NEW m \in Mail, NEW t \in Nat
    PROVE  /\ AfterAsk(m, t) \in SUBSET Row
           /\ ledger \subseteq AfterAsk(m, t)
           /\ \A r \in AfterAsk(m, t) \ ledger :
                 /\ r.seat = To[m] /\ r.ask = AskOf[m] /\ r.source # "operator"
                 /\ r.at = t /\ r.by = "nobody"
                 /\ ~Known(ledger, To[m], AskOf[m])
           /\ m \notin AckClass =>
                 \E r \in AfterAsk(m, t) : r.seat = To[m] /\ r.ask = AskOf[m]
<1> DEFINE source == IF m \in Inbox THEN "inbox" ELSE "peer"
<1>1. ledger \in SUBSET Row /\ source \in {"operator", "inbox", "peer"} /\ source # "operator"
  BY DEF AckTypeOK
<1>2. CASE m \in AckClass
  BY <1>1, <1>2 DEF AfterAsk
<1>3. CASE m \notin AckClass
  <2>1. AfterAsk(m, t) = Opened(ledger, To[m], AskOf[m], source, t)
    BY <1>3 DEF AfterAsk
  <2> HIDE DEF source
  <2>2. To[m] \in Seat /\ AskOf[m] \in Text
    BY Texts
  <2>3. Opens(AfterAsk(m, t), ledger, To[m], AskOf[m], source, t)
    BY <1>1, <2>1, <2>2, OpenedRows
  <2>4. QED
    BY <1>1, <2>3 DEF Opens
<1>4. QED
  BY <1>2, <1>3

(* The rows of the prompts that the sweep opens.                            *)
LEMMA PromptRows ==
    ASSUME AckTypeOK
    PROVE  /\ WithPrompts \in SUBSET Row
           /\ ledger \subseteq WithPrompts
           /\ \A r \in WithPrompts \ ledger :
                 /\ r.by = "nobody" /\ r.source = "operator"
                 /\ ~Known(ledger, r.seat, r.ask)
                 /\ [seat |-> r.seat, ask |-> r.ask, at |-> r.at] \in prompts
<1> DEFINE row(p) == [seat |-> p.seat, ask |-> p.ask, source |-> "operator", at |-> p.at,
                      by |-> "nobody"]
<1>1. ASSUME NEW p \in prompts
      PROVE  /\ row(p) \in Row
             /\ [seat |-> p.seat, ask |-> p.ask, at |-> p.at] = p
  BY DEF AckTypeOK, Row, Text
<1>2. WithPrompts = ledger \cup {row(p) : p \in {q \in prompts : ~Known(ledger, q.seat, q.ask)}}
  BY DEF WithPrompts
<1>3. ASSUME NEW r \in WithPrompts, r \notin ledger
      PROVE  \E p \in prompts : r = row(p) /\ ~Known(ledger, p.seat, p.ask)
  BY <1>2, <1>3
<1>4. ASSUME NEW r \in WithPrompts, r \notin ledger
      PROVE  /\ r \in Row /\ r.by = "nobody" /\ r.source = "operator"
             /\ ~Known(ledger, r.seat, r.ask)
             /\ [seat |-> r.seat, ask |-> r.ask, at |-> r.at] \in prompts
  <2>1. PICK p \in prompts : r = row(p) /\ ~Known(ledger, p.seat, p.ask)
    BY <1>3, <1>4
  <2>2. r.seat = p.seat /\ r.ask = p.ask /\ r.at = p.at /\ r.by = "nobody" /\ r.source = "operator"
    BY <2>1
  <2>3. [seat |-> r.seat, ask |-> r.ask, at |-> r.at] = p
    BY <1>1, <2>2
  <2>4. QED
    BY <1>1, <2>1, <2>2, <2>3
<1>5. QED
  BY <1>2, <1>4 DEF AckTypeOK

(* The sweep: rows are added, then some of them closed, then more.          *)
Told == ClosedBy(WithPrompts, Answered(WithPrompts), "pane-reply")

LEMMA SweepShape ==
    ASSUME AckTypeOK, Sweep
    PROVE  /\ Answered(WithPrompts) \in SUBSET OpenIn(WithPrompts)
           /\ Told \in SUBSET Row
           /\ Filed(Told) \in SUBSET OpenIn(Told)
           /\ ledger' = ClosedBy(Told, Filed(Told), "filed")
           /\ ledger' \in SUBSET Row
<1>1. Answered(WithPrompts) \in SUBSET OpenIn(WithPrompts)
  BY DEF Answered
<1>2. Told \in SUBSET Row
  BY <1>1, PromptRows, ClosedRows DEF Told, Closer
<1>3. Filed(Told) \in SUBSET OpenIn(Told)
  BY DEF Filed
<1>4. ledger' = ClosedBy(Told, Filed(Told), "filed")
  BY DEF Sweep, Told
<1>5. QED
  BY <1>1, <1>2, <1>3, <1>4, ClosedRows DEF Closer

-----------------------------------------------------------------------------
(* How each step changes the ledger.                                        *)

LEMMA LedgerShape ==
    ASSUME AckTypeOK, [AckNext]_ackvars
    PROVE  \/ ledger' = ledger
           \/ \E m \in Mail, t \in Nat : ledger' = AfterAsk(m, t)
           \/ \E some \in SUBSET OpenIn(ledger), who \in {"explicit", "operator"} :
                 ledger' = ClosedBy(ledger, some, who)
           \/ Sweep
<1>1. now \in Nat /\ now + 1 \in Nat /\ \A m \in Mail : posted[m] \in Nat
  BY DEF AckTypeOK
<1>2. ASSUME NEW m \in Mail, Post(m)
      PROVE  ledger' = ledger \/ ledger' = AfterAsk(m, now + 1)
  BY <1>2 DEF Post
<1>3. ASSUME NEW m \in Mail, Deliver(m)
      PROVE  \E t \in Nat : ledger' = AfterAsk(m, t)
  BY <1>1, <1>3 DEF Deliver, AskedAt
<1>4. ASSUME NEW m \in Mail, CrashInDelivery(m)
      PROVE  ledger' = ledger \/ ledger' = AfterAsk(m, now + 1)
  BY <1>4 DEF CrashInDelivery
<1>5. ASSUME NEW m \in Mail, Drop(m)
      PROVE  ledger' = ledger
  BY <1>5 DEF Drop
<1>6. ASSUME NEW s \in Seat, AckPaneStep(s)
      PROVE  \/ ledger' = ledger
             \/ \E some \in SUBSET OpenIn(ledger) : ledger' = ClosedBy(ledger, some, "operator")
  <2>1. CASE ClearSeat(s)
    BY <2>1 DEF ClearSeat, Cleared
  <2>2. CASE ~ClearSeat(s)
    BY <1>6, <2>2 DEF AckPaneStep, Observe, QuietEnds, store
  <2>3. QED
    BY <2>1, <2>2
<1>7. ASSUME NEW r \in ledger, Clear(r)
      PROVE  {r} \in SUBSET OpenIn(ledger) /\ ledger' = ClosedBy(ledger, {r}, "explicit")
  BY <1>7 DEF Clear, OpenIn
<1>8. CASE CrashAck \/ UNCHANGED ackvars
  BY <1>8 DEF CrashAck, store, ackvars
<1>9. QED
  BY <1>1, <1>2, <1>3, <1>4, <1>5, <1>6, <1>7, <1>8 DEF AckNext, AckMailStep

-----------------------------------------------------------------------------
(* Typing.                                                                  *)

LEMMA LedgerTyped ==
    ASSUME AckTypeOK, [AckNext]_ackvars
    PROVE  ledger' \in SUBSET Row
<1>1. ledger \in SUBSET Row
  BY DEF AckTypeOK
<1>2. \A m \in Mail, t \in Nat : AfterAsk(m, t) \in SUBSET Row
  BY AskRows
<1>3. \A some \in SUBSET OpenIn(ledger), who \in {"explicit", "operator"} :
         ClosedBy(ledger, some, who) \in SUBSET Row
  BY <1>1, ClosedRows DEF Closer
<1>4. Sweep => ledger' \in SUBSET Row
  BY SweepShape
<1>5. QED
  BY <1>1, <1>2, <1>3, <1>4, LedgerShape

LEMMA AckTypeStep ==
    ASSUME AckTypeOK, [AckNext]_ackvars
    PROVE  AckTypeOK'
<1> DEFINE WatchOK ==
        /\ draft \in [Seat -> Prompt \cup {NoText}]
        /\ quiet \subseteq Seat /\ replied \subseteq Seat /\ painted \subseteq Seat
        /\ arm \in [Seat -> {"off", "armed", "busy"}]
        /\ prompts \subseteq [seat : Seat, ask : Prompt, at : Nat]
        /\ busyAt \in [Seat -> Nat] /\ asked \in [Seat -> Nat]
<1> DEFINE RestOK ==
        /\ posted \in [Mail -> Nat] /\ shown \in [Mail -> Nat] /\ pastes \in [Mail -> Nat]
        /\ dropped \subseteq Mail /\ now \in Nat /\ ackFaults \in 0..MaxAckFaults
<1>1. WatchOK /\ RestOK
  BY DEF AckTypeOK
<1>2. SUFFICES WatchOK' /\ RestOK'
  BY LedgerTyped DEF AckTypeOK
<1> HIDE DEF WatchOK, RestOK
<1>3. ASSUME NEW m \in Mail, NoteInject(To[m]),
             UNCHANGED <<prompts, replied, painted, busyAt, asked>>
      PROVE  WatchOK'
  BY <1>1, <1>3, Texts DEF NoteInject, WatchOK
<1>4. ASSUME UNCHANGED watch
      PROVE  WatchOK'
  BY <1>1, <1>4 DEF watch, WatchOK
<1>5. ASSUME Forget
      PROVE  WatchOK' /\ ackFaults' \in 0..MaxAckFaults
  BY <1>1, <1>5, AckAssumption DEF Forget, WatchOK, RestOK
<1>6. ASSUME NEW m \in Mail, Post(m)
      PROVE  WatchOK' /\ RestOK'
  BY <1>1, <1>4, <1>6 DEF Post, RestOK
<1>7. ASSUME NEW m \in Mail, Deliver(m)
      PROVE  WatchOK' /\ RestOK'
  <2>1. RestOK'
    BY <1>1, <1>7 DEF Deliver, Shown, RestOK
  <2>2. CASE m \in Inbox \cap AckClass
    BY <1>4, <1>7, <2>1, <2>2 DEF Deliver, Shown, watch
  <2>3. CASE m \notin Inbox \cap AckClass
    BY <1>3, <1>7, <2>1, <2>3 DEF Deliver, Shown
  <2>4. QED
    BY <2>2, <2>3
<1>8. ASSUME NEW m \in Mail, Drop(m)
      PROVE  WatchOK' /\ RestOK'
  BY <1>1, <1>4, <1>8 DEF Drop, RestOK
<1>9. ASSUME NEW m \in Mail, CrashInDelivery(m)
      PROVE  WatchOK' /\ RestOK'
  <2>1. shown' \in [Mail -> Nat] /\ pastes' \in [Mail -> Nat] /\ now' \in Nat
    BY <1>1, <1>9 DEF CrashInDelivery, RestOK
  <2>2. QED
    BY <1>1, <1>5, <1>9, <2>1 DEF CrashInDelivery, RestOK
<1>10. ASSUME NEW s \in Seat, NEW text \in Prompt \cup {NoText}, NEW echo \in BOOLEAN,
              NEW phase \in {"idle", "busy", "other"}, Observe(s, text, echo, phase)
       PROVE  WatchOK' /\ RestOK'
  <2> DEFINE submit == Submitted(s, text, echo)
  <2>1. UNCHANGED <<posted, shown, pastes, dropped, ackFaults>> /\ now' \in Nat
    BY <1>1, <1>10 DEF Observe, store, RestOK
  <2>2. prompts' \subseteq [seat : Seat, ask : Prompt, at : Nat]
    <3>1. prompts' = IF submit THEN prompts \cup {[seat |-> s, ask |-> draft[s], at |-> now']}
                     ELSE prompts
      BY <1>10 DEF Observe
    <3>2. submit => draft[s] \in Prompt
      BY <1>1 DEF Submitted, WatchOK
    <3>3. QED
      BY <1>1, <2>1, <3>1, <3>2 DEF WatchOK
  <2>3. draft' \in [Seat -> Prompt \cup {NoText}] /\ UNCHANGED quiet
    BY <1>1, <1>10 DEF Observe, WatchOK
  <2>4. arm' \in [Seat -> {"off", "armed", "busy"}]
    BY <1>1, <1>10 DEF Observe, Armed, WatchOK
  <2>5. /\ painted' \subseteq Seat /\ replied' \subseteq Seat
        /\ busyAt' \in [Seat -> Nat] /\ asked' \in [Seat -> Nat]
    BY <1>1, <1>10, <2>1 DEF Observe, WatchOK
  <2>6. WatchOK'
    BY <1>1, <2>2, <2>3, <2>4, <2>5 DEF WatchOK
  <2>7. QED
    BY <1>1, <2>1, <2>6 DEF RestOK
<1>11. ASSUME NEW s \in Seat, QuietEnds(s)
       PROVE  WatchOK' /\ RestOK'
  BY <1>1, <1>11 DEF QuietEnds, store, WatchOK, RestOK
<1>12. ASSUME NEW s \in Seat, ClearSeat(s)
       PROVE  WatchOK' /\ RestOK'
  BY <1>1, <1>4, <1>12 DEF ClearSeat, RestOK
<1>13. ASSUME NEW r \in ledger, Clear(r)
       PROVE  WatchOK' /\ RestOK'
  BY <1>1, <1>4, <1>13 DEF Clear, RestOK
<1>14. CASE Sweep
  BY <1>1, <1>14 DEF Sweep, WatchOK, RestOK
<1>15. CASE CrashAck
  BY <1>1, <1>5, <1>15 DEF CrashAck, store, RestOK
<1>16. CASE UNCHANGED ackvars
  BY <1>1, <1>4, <1>16 DEF ackvars, store, RestOK
<1>17. QED
  BY <1>6, <1>7, <1>8, <1>9, <1>10, <1>11, <1>12, <1>13, <1>14, <1>15, <1>16
  DEF AckNext, AckMailStep, AckPaneStep

(* The variables of the ledger keep their types.                            *)
THEOREM AckTypes == AckSpec => []AckTypeOK
<1>1. AckInit => AckTypeOK
  BY AckAssumption DEF AckInit, AckTypeOK
<1>2. QED
  BY <1>1, AckTypeStep, PTL DEF AckSpec

-----------------------------------------------------------------------------
(* Closed rows, and rows as such, stay.                                     *)

LEMMA LedgerGrows ==
    ASSUME AckTypeOK, [AckNext]_ackvars
    PROVE  /\ \A r \in ledger : ~IsOpen(r) => r \in ledger'
           /\ \A r \in ledger : \E q \in ledger' : Same(q, r)
<1>1. ledger \in SUBSET Row
  BY DEF AckTypeOK
<1>2. \A r \in ledger : Same(r, r)
  BY DEF Same
<1>3. CASE \E m \in Mail, t \in Nat : ledger' = AfterAsk(m, t)
  BY <1>2, <1>3, AskRows
<1>4. CASE \E some \in SUBSET OpenIn(ledger), who \in {"explicit", "operator"} :
              ledger' = ClosedBy(ledger, some, who)
  BY <1>1, <1>4, ClosedRows DEF Closer
<1>5. CASE Sweep
  <2>1. /\ \A r \in WithPrompts : ~IsOpen(r) => r \in Told
        /\ \A r \in WithPrompts : \E q \in Told : Same(q, r)
    BY <1>5, SweepShape, PromptRows, ClosedRows DEF Told, Closer
  <2>2. /\ \A r \in Told : ~IsOpen(r) => r \in ledger'
        /\ \A r \in Told : \E q \in ledger' : Same(q, r)
    BY <1>5, SweepShape, ClosedRows DEF Closer
  <2>3. \A r \in WithPrompts : ~IsOpen(r) => r \in ledger'
    BY <2>1, <2>2
  <2>4. ASSUME NEW r \in WithPrompts
        PROVE  \E q \in ledger' : Same(q, r)
    BY <2>1, <2>2 DEF Same
  <2>5. QED
    BY <2>3, <2>4, PromptRows
<1>6. QED
  BY <1>2, <1>3, <1>4, <1>5, LedgerShape

(* A row that is closed stays as it is.                                     *)
THEOREM ClosedRowsStay == AckSpec => AckedIsFinal
<1>1. AckTypeOK /\ [AckNext]_ackvars
         => [\A r \in ledger : ~IsOpen(r) => r \in ledger']_ackvars
  BY LedgerGrows
<1>2. QED
  BY <1>1, AckTypes, PTL DEF AckSpec, AckedIsFinal

-----------------------------------------------------------------------------
(* One open row for an ask.  Inductive with the prompts that wait for the   *)
(* sweep: there is one of a pane at most, since a pane is looked at once    *)
(* between two sweeps.                                                      *)

OneOpenIn(rows) ==
    \A q, r \in OpenIn(rows) : q.seat = r.seat /\ q.ask = r.ask => q = r

PromptInv ==
    /\ \A p, q \in prompts : p.seat = q.seat => p = q
    /\ \A p \in prompts : p.seat \in painted
    /\ replied \subseteq painted

LEMMA PromptStep ==
    ASSUME AckTypeOK, PromptInv, [AckNext]_ackvars
    PROVE  PromptInv'
<1>1. ASSUME NEW s \in Seat, NEW text, NEW echo, NEW phase, Observe(s, text, echo, phase)
      PROVE  PromptInv'
  <2>1. /\ s \notin painted /\ painted' = painted \cup {s}
        /\ prompts' = prompts \/ prompts' = prompts \cup {[seat |-> s, ask |-> draft[s], at |-> now']}
        /\ replied' \subseteq replied \cup {s}
    BY <1>1 DEF Observe
  <2>2. QED
    BY <2>1 DEF PromptInv
<1>2. CASE prompts' = {} /\ replied' = {}
  BY <1>2 DEF PromptInv
<1>3. CASE UNCHANGED <<prompts, replied, painted>>
  BY <1>3 DEF PromptInv
<1>4. ASSUME NEW m \in Mail, AckMailStep(m)
      PROVE  PromptInv'
  BY <1>2, <1>3, <1>4 DEF AckMailStep, Post, Deliver, Shown, Drop, CrashInDelivery, Forget, watch
<1>5. ASSUME NEW s \in Seat, AckPaneStep(s)
      PROVE  PromptInv'
  BY <1>1, <1>3, <1>5 DEF AckPaneStep, QuietEnds, ClearSeat, watch
<1>6. ASSUME NEW r \in ledger, Clear(r)
      PROVE  PromptInv'
  BY <1>3, <1>6 DEF Clear, watch
<1>7. CASE Sweep \/ CrashAck
  BY <1>2, <1>7 DEF Sweep, CrashAck, Forget
<1>8. CASE UNCHANGED ackvars
  BY <1>3, <1>8 DEF ackvars, watch
<1>9. QED
  BY <1>4, <1>5, <1>6, <1>7, <1>8 DEF AckNext

LEMMA OneOpenStep ==
    ASSUME AckTypeOK, PromptInv, OneOpenIn(ledger), [AckNext]_ackvars
    PROVE  OneOpenIn(ledger')
<1>1. ledger \in SUBSET Row
  BY DEF AckTypeOK
<1>2. ASSUME NEW m \in Mail, NEW t \in Nat, ledger' = AfterAsk(m, t)
      PROVE  OneOpenIn(ledger')
  <2>1. \A r \in OpenIn(ledger') : r \in OpenIn(ledger) \/
           (r.seat = To[m] /\ r.ask = AskOf[m] /\ r.source # "operator" /\ r \notin ledger)
    BY <1>2, AskRows DEF OpenIn
  <2>2. SUFFICES ASSUME NEW q \in OpenIn(ledger'), NEW r \in OpenIn(ledger'),
                        q.seat = r.seat, q.ask = r.ask
                 PROVE  q = r
    BY DEF OneOpenIn
  <2>3. CASE q \in ledger /\ r \in ledger
    BY <2>2, <2>3 DEF OneOpenIn, OpenIn
  <2>4. CASE q \notin ledger /\ r \notin ledger
    <3>1. CASE m \in AckClass
      BY <1>2, <2>2, <2>4, <3>1 DEF AfterAsk, OpenIn
    <3>2. CASE m \notin AckClass
      BY <1>2, <2>2, <2>4, <3>2 DEF AfterAsk, Opened, OpenIn
    <3>3. QED
      BY <3>1, <3>2
  <2>5. CASE q \in ledger /\ r \notin ledger
    <3>1. ~Known(ledger, To[m], AskOf[m]) /\ r.seat = To[m] /\ r.ask = AskOf[m]
      BY <1>2, <2>2, <2>5, AskRows DEF OpenIn
    <3>2. q \in OpenIn(ledger)
      BY <2>2, <2>5 DEF OpenIn
    <3>3. QED
      BY <2>2, <3>1, <3>2 DEF Known
  <2>6. CASE q \notin ledger /\ r \in ledger
    <3>1. ~Known(ledger, To[m], AskOf[m]) /\ q.seat = To[m] /\ q.ask = AskOf[m]
      BY <1>2, <2>2, <2>6, AskRows DEF OpenIn
    <3>2. r \in OpenIn(ledger)
      BY <2>2, <2>6 DEF OpenIn
    <3>3. QED
      BY <2>2, <3>1, <3>2 DEF Known
  <2>7. QED
    BY <2>3, <2>4, <2>5, <2>6
<1>3. ASSUME NEW some \in SUBSET OpenIn(ledger), NEW who \in {"explicit", "operator"},
             ledger' = ClosedBy(ledger, some, who)
      PROVE  OneOpenIn(ledger')
  BY <1>1, <1>3, ClosedRows DEF OneOpenIn, Closer
<1>4. CASE Sweep
  <2>1. OneOpenIn(WithPrompts)
    <3>1. SUFFICES ASSUME NEW q \in OpenIn(WithPrompts), NEW r \in OpenIn(WithPrompts),
                          q.seat = r.seat, q.ask = r.ask
                   PROVE  q = r
      BY DEF OneOpenIn
    <3>2. q \in WithPrompts /\ r \in WithPrompts /\ q \in Row /\ r \in Row
      BY PromptRows DEF OpenIn
    <3>3. CASE q \in ledger /\ r \in ledger
      BY <3>1, <3>3 DEF OneOpenIn, OpenIn
    <3>4. CASE q \notin ledger /\ r \notin ledger
      <4>1. /\ [seat |-> q.seat, ask |-> q.ask, at |-> q.at] \in prompts
            /\ [seat |-> r.seat, ask |-> r.ask, at |-> r.at] \in prompts
            /\ q.by = r.by /\ q.source = r.source
        BY <3>2, <3>4, PromptRows
      <4>2. [seat |-> q.seat, ask |-> q.ask, at |-> q.at] = [seat |-> r.seat, ask |-> r.ask, at |-> r.at]
        BY <3>1, <4>1 DEF PromptInv
      <4>3. q.at = r.at
        BY <4>2
      <4>4. QED
        BY <3>1, <3>2, <4>1, <4>3 DEF Row
    <3>5. CASE q \in ledger /\ r \notin ledger
      BY <3>1, <3>2, <3>5, PromptRows DEF Known, OpenIn
    <3>6. CASE q \notin ledger /\ r \in ledger
      BY <3>1, <3>2, <3>6, PromptRows DEF Known, OpenIn
    <3>7. QED
      BY <3>3, <3>4, <3>5, <3>6
  <2>2. OpenIn(Told) \subseteq OpenIn(WithPrompts)
    BY <1>4, SweepShape, PromptRows, ClosedRows DEF Told, Closer
  <2>3. OpenIn(ledger') \subseteq OpenIn(Told)
    BY <1>4, SweepShape, ClosedRows DEF Closer
  <2>4. QED
    BY <2>1, <2>2, <2>3 DEF OneOpenIn
<1>5. QED
  BY <1>2, <1>3, <1>4, LedgerShape

(* An ask is open for its seat once, however many times it is asked.        *)
THEOREM OneOpenRowPerAsk == AckSpec => []OneOpenPerAsk
<1>1. AckInit => PromptInv /\ OneOpenIn(ledger)
  BY DEF AckInit, PromptInv, OneOpenIn, OpenIn
<1>2. AckTypeOK /\ PromptInv /\ OneOpenIn(ledger) /\ [AckNext]_ackvars
         => PromptInv' /\ OneOpenIn(ledger)'
  <2>1. OneOpenIn(ledger') => OneOpenIn(ledger)'
    BY DEF OneOpenIn, OpenIn
  <2>2. QED
    BY <2>1, PromptStep, OneOpenStep
<1>3. OneOpenIn(ledger) => OneOpenPerAsk
  BY DEF OneOpenIn, OneOpenPerAsk
<1>4. QED
  BY <1>1, <1>2, <1>3, AckTypes, PTL DEF AckSpec

-----------------------------------------------------------------------------
(* Asks that were shown have a row; no two deaths are needed to forget one. *)

LEMMA TrackStep ==
    ASSUME AckTypeOK, AskTracked, [AckNext]_ackvars
    PROVE  AskTracked'
<1>1. SUFFICES ASSUME NEW m \in Mail \ AckClass, shown'[m] # 0, ackFaults' = 0
               PROVE  \E r \in ledger' : r.seat = To[m] /\ r.ask = AskOf[m]
  BY DEF AskTracked
<1>2. CASE shown[m] # 0 /\ ackFaults = 0
  BY <1>2, LedgerGrows DEF AskTracked, Same
<1>3. CASE ackFaults # 0 \/ shown[m] = 0
  <2>1. ~Forget
    BY <1>1 DEF Forget, AckTypeOK
  <2>2. \A k \in Mail : ~CrashInDelivery(k)
    BY <2>1 DEF CrashInDelivery
  <2>3. ASSUME NEW k \in Mail, Deliver(k)
        PROVE  \E r \in ledger' : r.seat = To[m] /\ r.ask = AskOf[m]
    <3>1. ackFaults' = ackFaults /\ shown' = [shown EXCEPT ![k] = now']
      BY <2>3 DEF Deliver
    <3>2. k = m
      BY <1>1, <1>3, <3>1 DEF AckTypeOK
    <3>3. AskedAt(k) \in Nat /\ ledger' = AfterAsk(k, AskedAt(k))
      BY <2>3 DEF Deliver, AskedAt, AckTypeOK
    <3>4. QED
      BY <3>2, <3>3, AskRows
  <2>4. ~UNCHANGED <<shown, ackFaults>>
    BY <1>1, <1>3
  <2>5. ASSUME NEW k \in Mail, Post(k) \/ Drop(k)
        PROVE  FALSE
    BY <2>4, <2>5 DEF Post, Drop
  <2>6. ASSUME NEW s \in Seat, AckPaneStep(s)
        PROVE  FALSE
    BY <2>4, <2>6 DEF AckPaneStep, Observe, QuietEnds, ClearSeat, store
  <2>7. ~Sweep /\ ~CrashAck /\ ~UNCHANGED ackvars /\ \A r \in ledger : ~Clear(r)
    BY <2>1, <2>4 DEF Sweep, CrashAck, Clear, store, ackvars
  <2>8. \E k \in Mail : Deliver(k)
    BY <2>2, <2>5, <2>6, <2>7 DEF AckNext, AckMailStep
  <2>9. QED
    BY <2>3, <2>8
<1>4. QED
  BY <1>2, <1>3

(* An ask that was shown has a row, unless the daemon died on the way.      *)
THEOREM ShownAsksAreTracked == AckSpec => []AskTracked
<1>1. AckInit => AskTracked
  BY DEF AckInit, AskTracked
<1>2. QED
  BY <1>1, TrackStep, AckTypes, PTL DEF AckSpec

-----------------------------------------------------------------------------
(* Pastes.  Mail not yet marked as shown was pasted once for a death, at    *)
(* most.                                                                    *)

PasteInv ==
    \A m \in Mail :
        /\ pastes[m] <= 1 + ackFaults
        /\ shown[m] = 0 => pastes[m] <= ackFaults

LEMMA PasteStep ==
    ASSUME AckTypeOK, PasteInv, [AckNext]_ackvars
    PROVE  PasteInv'
<1>1. /\ now \in Nat /\ ackFaults \in Nat
      /\ pastes \in [Mail -> Nat] /\ shown \in [Mail -> Nat]
  BY DEF AckTypeOK
<1>2. CASE UNCHANGED <<pastes, shown, ackFaults>>
  BY <1>2 DEF PasteInv
<1>3. CASE UNCHANGED <<pastes, shown>> /\ ackFaults' = ackFaults + 1
  BY <1>1, <1>3 DEF PasteInv
<1>4. ASSUME NEW m \in Mail, Deliver(m)
      PROVE  PasteInv'
  <2>1. /\ shown[m] = 0 /\ now' = now + 1 /\ ackFaults' = ackFaults
        /\ pastes' = [pastes EXCEPT ![m] = @ + 1] /\ shown' = [shown EXCEPT ![m] = now']
    BY <1>4 DEF Deliver, Shown, Pending
  <2>2. QED
    BY <1>1, <2>1 DEF PasteInv
<1>5. ASSUME NEW m \in Mail, CrashInDelivery(m)
      PROVE  PasteInv'
  <2>1. /\ shown[m] = 0 /\ ackFaults' = ackFaults + 1
        /\ pastes' = [pastes EXCEPT ![m] = @ + 1]
        /\ \A k \in Mail : k # m => shown'[k] = shown[k]
    BY <1>1, <1>5 DEF CrashInDelivery, Forget, Pending
  <2>2. QED
    BY <1>1, <2>1 DEF PasteInv
<1>6. ASSUME NEW m \in Mail, AckMailStep(m)
      PROVE  PasteInv'
  BY <1>2, <1>4, <1>5, <1>6 DEF AckMailStep, Post, Drop
<1>7. ASSUME NEW s \in Seat, AckPaneStep(s)
      PROVE  PasteInv'
  BY <1>2, <1>7 DEF AckPaneStep, Observe, QuietEnds, ClearSeat, store
<1>8. ASSUME NEW r \in ledger, Clear(r)
      PROVE  PasteInv'
  BY <1>2, <1>8 DEF Clear
<1>9. CASE Sweep \/ CrashAck
  BY <1>2, <1>3, <1>9 DEF Sweep, CrashAck, Forget, store
<1>10. CASE UNCHANGED ackvars
  BY <1>2, <1>10 DEF ackvars, store
<1>11. QED
  BY <1>6, <1>7, <1>8, <1>9, <1>10 DEF AckNext

(* Mail is pasted once, and once more for a death.                          *)
THEOREM PastesArePaidFor == AckSpec => []PastedOncePerDeath
<1>1. AckInit => PasteInv
  BY AckAssumption DEF AckInit, PasteInv
<1>2. PasteInv => PastedOncePerDeath
  BY DEF PasteInv, PastedOncePerDeath
<1>3. QED
  BY <1>1, <1>2, PasteStep, AckTypes, PTL DEF AckSpec

-----------------------------------------------------------------------------
(* Replies in the pane.  Nothing carries a time that has not come; and when *)
(* the watch of a pane has seen the agent at work, every prompt of the seat *)
(* so far, opened or not, is older than that.                               *)

ClockInv ==
    /\ \A r \in ledger : r.source = "operator" => r.at <= now
    /\ \A p \in prompts : p.at <= now

Seen(s) ==
    /\ \A r \in ledger : r.source = "operator" /\ r.seat = s => r.at <= busyAt[s]
    /\ \A p \in prompts : p.seat = s => p.at <= busyAt[s]

ReplyInv ==
    /\ PromptInv /\ ClockInv
    /\ \A s \in Seat : arm[s] = "busy" \/ s \in replied => Seen(s)

(* Where the rows of the operator come from.                                *)
LEMMA OperatorRows ==
    ASSUME AckTypeOK, [AckNext]_ackvars, NEW r \in ledger', r.source = "operator"
    PROVE  \/ \E q \in ledger : Same(r, q)
           \/ Sweep /\ [seat |-> r.seat, ask |-> r.ask, at |-> r.at] \in prompts
<1>1. ledger \in SUBSET Row
  BY DEF AckTypeOK
<1>2. \A q \in ledger : Same(q, q)
  BY DEF Same
<1>3. CASE \E m \in Mail, t \in Nat : ledger' = AfterAsk(m, t)
  BY <1>2, <1>3, AskRows
<1>4. CASE \E some \in SUBSET OpenIn(ledger), who \in {"explicit", "operator"} :
              ledger' = ClosedBy(ledger, some, who)
  BY <1>1, <1>2, <1>4, ClosedRows, OpenRows DEF Closer
<1>5. CASE Sweep
  <2>1. \E q \in Told : Same(r, q)
    <3>1. r \in Told \/ \E q \in Filed(Told) : Same(r, q)
      BY <1>5, SweepShape, ClosedRows DEF Closer
    <3>2. Filed(Told) \subseteq Told
      BY DEF Filed, OpenIn
    <3>3. QED
      BY <3>1, <3>2 DEF Same
  <2>2. ASSUME NEW q \in Told
        PROVE  \E k \in WithPrompts : Same(q, k)
    <3>1. q \in WithPrompts \/ \E k \in Answered(WithPrompts) : Same(q, k)
      BY <1>5, <2>2, SweepShape, PromptRows, ClosedRows DEF Told, Closer
    <3>2. Answered(WithPrompts) \subseteq WithPrompts
      BY DEF Answered, OpenIn
    <3>3. QED
      BY <3>1, <3>2 DEF Same
  <2>3. PICK k \in WithPrompts : Same(r, k)
    BY <2>1, <2>2 DEF Same
  <2>4. CASE k \in ledger
    BY <2>3, <2>4
  <2>5. CASE k \notin ledger
    BY <1>5, <2>3, <2>5, PromptRows DEF Same
  <2>6. QED
    BY <2>4, <2>5
<1>6. QED
  BY <1>2, <1>3, <1>4, <1>5, LedgerShape

(* A step that looks at no pane keeps what is known of them.                *)
LEMMA ReplyKept ==
    ASSUME AckTypeOK, PromptInv', ReplyInv, [AckNext]_ackvars,
           prompts' \subseteq prompts, now' \in {now, now + 1}, busyAt' = busyAt,
           \A s \in Seat : arm'[s] = "busy" \/ s \in replied' =>
                              arm[s] = "busy" \/ s \in replied
    PROVE  ReplyInv'
<1>1. ASSUME NEW r \in ledger', r.source = "operator"
      PROVE  \/ \E q \in ledger : Same(r, q)
             \/ \E p \in prompts : p.seat = r.seat /\ p.at = r.at
  <2>1. CASE \E q \in ledger : Same(r, q)
    BY <2>1
  <2>2. CASE [seat |-> r.seat, ask |-> r.ask, at |-> r.at] \in prompts
    BY <2>2
  <2>3. QED
    BY <1>1, <2>1, <2>2, OperatorRows
<1>2. ClockInv'
  <2>1. \A r \in ledger' : r.source = "operator" => r.at <= now
    BY <1>1 DEF Same, ReplyInv, ClockInv
  <2>2. \A r \in ledger' : r.at \in Nat
    BY LedgerTyped DEF Row
  <2>3. now \in Nat /\ \A p \in prompts : p.at \in Nat
    BY DEF AckTypeOK
  <2>4. QED
    BY <2>1, <2>2, <2>3 DEF ReplyInv, ClockInv
<1>3. ASSUME NEW s \in Seat, arm'[s] = "busy" \/ s \in replied'
      PROVE  Seen(s)'
  <2>1. Seen(s)
    BY <1>3 DEF ReplyInv
  <2>2. \A r \in ledger' : r.source = "operator" /\ r.seat = s => r.at <= busyAt[s]
    BY <1>1, <2>1 DEF Same, Seen
  <2>3. QED
    BY <2>1, <2>2 DEF Seen
<1>4. QED
  BY <1>2, <1>3 DEF ReplyInv

LEMMA ObserveKeeps ==
    ASSUME AckTypeOK, PromptInv', ReplyInv, NEW s \in Seat, NEW text, NEW echo, NEW phase,
           Observe(s, text, echo, phase)
    PROVE  ReplyInv'
<1> DEFINE submit == Submitted(s, text, echo)
<1>1. /\ s \notin painted /\ ledger' = ledger
      /\ now' = IF submit THEN now + 1 ELSE now
      /\ prompts' = IF submit THEN prompts \cup {[seat |-> s, ask |-> draft[s], at |-> now']}
                    ELSE prompts
  BY DEF Observe, store
<1>2. now \in Nat /\ \A r \in ledger : r.at \in Nat
  BY DEF AckTypeOK, Row
<1>3. \A p \in prompts : p.at \in Nat /\ p.at <= now
  BY DEF AckTypeOK, ReplyInv, ClockInv
<1>4. now' \in Nat /\ now <= now' /\ \A p \in prompts' : p.at <= now'
  BY <1>1, <1>2, <1>3
<1>5. \A r \in ledger' : r.source = "operator" => r.at <= now'
  BY <1>1, <1>2, <1>4 DEF ReplyInv, ClockInv
<1>6. ClockInv'
  BY <1>4, <1>5 DEF ClockInv
<1> HIDE DEF submit
<1>7. ASSUME NEW u \in Seat, arm'[u] = "busy" \/ u \in replied'
      PROVE  Seen(u)'
  <2>1. CASE u # s
    <3>1. busyAt'[u] = busyAt[u] /\ arm'[u] = arm[u] /\ (u \in replied' <=> u \in replied)
      BY <2>1 DEF Observe, AckTypeOK
    <3>2. Seen(u)
      BY <1>7, <3>1 DEF ReplyInv
    <3>3. \A p \in prompts' : p.seat = u => p \in prompts
      BY <1>1, <2>1
    <3>4. QED
      BY <1>1, <3>1, <3>2, <3>3 DEF Seen
  <2>2. CASE u = s /\ phase = "busy"
    <3>1. busyAt'[u] = now'
      BY <2>2 DEF Observe, AckTypeOK
    <3>2. QED
      BY <1>4, <1>5, <3>1 DEF Seen
  <2>3. CASE u = s /\ phase # "busy"
    <3>1. s \notin replied
      BY <1>1 DEF ReplyInv, PromptInv
    <3>2. Armed(s, submit) = "busy" /\ busyAt' = busyAt
      BY <1>7, <2>3, <3>1 DEF Observe, AckTypeOK, submit
    <3>3. ~submit /\ arm[s] = "busy"
      BY <3>2 DEF Armed
    <3>4. Seen(s) /\ prompts' = prompts
      BY <1>1, <3>3 DEF ReplyInv
    <3>5. QED
      BY <1>1, <2>3, <3>2, <3>4 DEF Seen
  <2>4. QED
    BY <2>1, <2>2, <2>3
<1>8. QED
  BY <1>6, <1>7 DEF ReplyInv

LEMMA ReplyStep ==
    ASSUME AckTypeOK, ReplyInv, [AckNext]_ackvars
    PROVE  ReplyInv'
<1>1. PromptInv'
  BY PromptStep DEF ReplyInv
<1>2. CASE UNCHANGED watch /\ now' \in {now, now + 1}
  BY <1>1, <1>2, ReplyKept DEF watch
<1>3. CASE Forget /\ now' \in {now, now + 1}
  BY <1>1, <1>3, ReplyKept DEF Forget, AckTypeOK
<1>4. ASSUME NEW m \in Mail, Deliver(m)
      PROVE  ReplyInv'
  <2>1. now' = now + 1 /\ UNCHANGED <<prompts, replied, busyAt>>
    BY <1>4 DEF Deliver, Shown
  <2>2. \A s \in Seat : arm'[s] = "busy" => arm[s] = "busy"
    BY <1>4, Texts DEF Deliver, NoteInject, AckTypeOK
  <2>3. QED
    BY <1>1, <2>1, <2>2, ReplyKept
<1>5. ASSUME NEW m \in Mail, AckMailStep(m)
      PROVE  ReplyInv'
  BY <1>2, <1>3, <1>4, <1>5 DEF AckMailStep, Post, Drop, CrashInDelivery
<1>6. ASSUME NEW s \in Seat, QuietEnds(s)
      PROVE  ReplyInv'
  BY <1>1, <1>6, ReplyKept DEF QuietEnds
<1>7. ASSUME NEW s \in Seat, AckPaneStep(s)
      PROVE  ReplyInv'
  BY <1>1, <1>2, <1>6, <1>7, ObserveKeeps DEF AckPaneStep, ClearSeat
<1>8. ASSUME NEW r \in ledger, Clear(r)
      PROVE  ReplyInv'
  BY <1>2, <1>8 DEF Clear
<1>9. CASE Sweep
  BY <1>1, <1>9, ReplyKept DEF Sweep
<1>10. CASE CrashAck
  BY <1>3, <1>10 DEF CrashAck
<1>11. CASE UNCHANGED ackvars
  BY <1>2, <1>11 DEF ackvars
<1>12. QED
  BY <1>5, <1>7, <1>8, <1>9, <1>10, <1>11 DEF AckNext

(* Which rows a step closes as answered in the pane.                        *)
LEMMA ReplyRows ==
    ASSUME AckTypeOK, ReplyInv, [AckNext]_ackvars, NEW r \in ledger', r \notin ledger,
           r.by = "pane-reply"
    PROVE  busyAt[r.seat] >= r.at
<1>1. ledger \in SUBSET Row
  BY DEF AckTypeOK
<1>2. Sweep
  <2>1. ASSUME NEW m \in Mail, NEW t \in Nat, ledger' = AfterAsk(m, t)
        PROVE  FALSE
    BY <2>1, AskRows
  <2>2. ASSUME NEW some \in SUBSET OpenIn(ledger), NEW who \in {"explicit", "operator"},
               ledger' = ClosedBy(ledger, some, who)
        PROVE  FALSE
    BY <1>1, <2>2, ClosedRows DEF Closer
  <2>3. QED
    BY <2>1, <2>2, LedgerShape
<1>3. r \in Told
  BY <1>2, SweepShape, ClosedRows DEF Closer
<1>4. r \in WithPrompts \/ \E k \in Answered(WithPrompts) : Same(r, k)
  BY <1>2, <1>3, SweepShape, PromptRows, ClosedRows DEF Told, Closer
<1>5. PICK k \in Answered(WithPrompts) : Same(r, k)
  BY <1>4, PromptRows
<1>6. k \in WithPrompts /\ k.source = "operator" /\ k.seat \in replied /\ k \in Row
  BY PromptRows DEF Answered, OpenIn
<1>7. Seen(k.seat) /\ k.seat \in Seat
  BY <1>6 DEF ReplyInv, Row
<1>8. k.at <= busyAt[k.seat]
  <2>1. CASE k \in ledger
    BY <1>6, <1>7, <2>1 DEF Seen
  <2>2. CASE k \notin ledger
    <3>1. [seat |-> k.seat, ask |-> k.ask, at |-> k.at] \in prompts
      BY <1>6, <2>2, PromptRows
    <3>2. QED
      BY <1>7, <3>1 DEF Seen
  <2>3. QED
    BY <2>1, <2>2
<1>9. k.at \in Nat /\ busyAt[k.seat] \in Nat
  BY <1>6, <1>7 DEF Row, AckTypeOK
<1>10. QED
  BY <1>5, <1>8, <1>9 DEF Same

(* What makes a reply the later one.  Nothing was shown or submitted at a   *)
(* time that has not come; while a pane is armed nothing was pasted into it *)
(* since its last prompt, and when it was seen at work the work was seen    *)
(* with that prompt or after it.                                            *)
ArmInv ==
    /\ \A m \in Mail : shown[m] <= now
    /\ \A s \in Seat : asked[s] <= now
    /\ \A s \in Seat : arm[s] # "off" =>
          \A m \in Mail : To[m] = s /\ NotedPaste(m) => shown[m] < asked[s]
    /\ \A s \in Seat : arm[s] = "busy" => busyAt[s] >= asked[s]

(* A step that neither looks at a pane nor pastes arms no pane.             *)
LEMMA ArmKept ==
    ASSUME AckTypeOK, ArmInv, UNCHANGED <<shown, asked, busyAt>>, now' \in {now, now + 1},
           \A s \in Seat : arm'[s] # "off" => arm'[s] = arm[s]
    PROVE  ArmInv'
  BY DEF AckTypeOK, ArmInv, NotedPaste

LEMMA PasteDisarms ==
    ASSUME AckTypeOK, ArmInv, NEW m \in Mail, now' = now + 1, UNCHANGED <<asked, busyAt>>,
           shown' = [shown EXCEPT ![m] = now'],
           \A s \in Seat : arm'[s] # "off" => arm'[s] = arm[s] /\ ~(To[m] = s /\ NotedPaste(m))
    PROVE  ArmInv'
<1>1. \A k \in Mail : shown'[k] = IF k = m THEN now + 1 ELSE shown[k]
  BY DEF AckTypeOK
<1>2. QED
  BY <1>1 DEF AckTypeOK, ArmInv, NotedPaste

LEMMA ObserveArms ==
    ASSUME AckTypeOK, ArmInv, NEW s \in Seat, NEW text, NEW echo, NEW phase,
           Observe(s, text, echo, phase)
    PROVE  ArmInv'
<1> DEFINE submit == Submitted(s, text, echo)
<1>1. /\ shown' = shown /\ now' = IF submit THEN now + 1 ELSE now
      /\ asked' = IF submit THEN [asked EXCEPT ![s] = now'] ELSE asked
      /\ busyAt' = IF phase = "busy" THEN [busyAt EXCEPT ![s] = now'] ELSE busyAt
  BY DEF Observe, store
<1>2. now \in Nat /\ now' \in Nat /\ now <= now'
  BY <1>1 DEF AckTypeOK
<1>3. ASSUME NEW u \in Seat
      PROVE  /\ u = s /\ submit => asked'[u] = now'
             /\ u # s \/ ~submit => asked'[u] = asked[u]
             /\ u = s /\ phase = "busy" => busyAt'[u] = now'
             /\ u # s \/ phase # "busy" => busyAt'[u] = busyAt[u]
  <2>1. CASE submit
    BY <1>1, <2>1 DEF AckTypeOK
  <2>2. CASE ~submit
    BY <1>1, <2>2 DEF AckTypeOK
  <2>3. QED
    BY <2>1, <2>2
<1>4. \A u \in Seat : u # s => arm'[u] = arm[u]
  BY DEF Observe, AckTypeOK
<1>5. /\ arm'[s] # "off" => submit \/ arm[s] # "off"
      /\ arm'[s] = "busy" => phase = "busy" \/ (arm[s] = "busy" /\ ~submit)
  BY DEF Observe, Armed, AckTypeOK, submit
<1>6. \A m \in Mail : shown[m] \in Nat /\ shown[m] <= now
  BY DEF ArmInv, AckTypeOK
<1>7. ASSUME NEW u \in Seat
      PROVE  asked[u] \in Nat /\ busyAt[u] \in Nat /\ asked[u] <= now
  BY DEF ArmInv, AckTypeOK
<1>8. submit => now' = now + 1
  BY <1>1
<1> HIDE DEF submit
<1>9. ASSUME NEW u \in Seat
      PROVE  asked'[u] <= now' /\ asked'[u] \in Nat
  <2>1. CASE u = s /\ submit
    BY <2>1, <1>2, <1>3
  <2>2. CASE u # s \/ ~submit
    <3>1. asked'[u] = asked[u]
      BY <2>2, <1>3
    <3>2. QED
      BY <3>1, <1>2, <1>7
  <2>3. QED
    BY <2>1, <2>2
<1>10. ASSUME NEW u \in Seat, arm'[u] # "off", NEW m \in Mail, To[m] = u, NotedPaste(m)
       PROVE  shown[m] < asked'[u]
  <2>1. CASE u = s /\ submit
    <3>1. asked'[u] = now + 1 /\ shown[m] \in Nat /\ shown[m] <= now
      BY <2>1, <1>3, <1>6, <1>8
    <3>2. QED
      BY <3>1, <1>2
  <2>2. CASE u # s \/ ~submit
    <3>1. arm[u] # "off" /\ asked'[u] = asked[u]
      BY <2>2, <1>3, <1>4, <1>5, <1>10
    <3>2. shown[m] < asked[u]
      BY <3>1, <1>10 DEF ArmInv
    <3>3. QED
      BY <3>1, <3>2
  <2>3. QED
    BY <2>1, <2>2
<1>11. ASSUME NEW u \in Seat, arm'[u] = "busy"
       PROVE  busyAt'[u] >= asked'[u]
  <2>1. CASE u = s /\ phase = "busy"
    BY <2>1, <1>2, <1>3, <1>9
  <2>2. CASE u # s \/ phase # "busy"
    <3>1. arm[u] = "busy" /\ asked'[u] = asked[u] /\ busyAt'[u] = busyAt[u]
      BY <2>2, <1>3, <1>4, <1>5, <1>11
    <3>2. busyAt[u] >= asked[u]
      BY <3>1 DEF ArmInv
    <3>3. QED
      BY <3>1, <3>2
  <2>3. QED
    BY <2>1, <2>2
<1>12. QED
  BY <1>1, <1>2, <1>6, <1>9, <1>10, <1>11 DEF ArmInv, NotedPaste

LEMMA ArmStep ==
    ASSUME AckTypeOK, ArmInv, [AckNext]_ackvars
    PROVE  ArmInv'
<1>1. CASE UNCHANGED <<shown, watch>> /\ now' \in {now, now + 1}
  BY <1>1, ArmKept DEF watch
<1>2. CASE Forget /\ UNCHANGED shown /\ now' \in {now, now + 1}
  BY <1>2, ArmKept DEF Forget
<1>3. ASSUME NEW m \in Mail, Deliver(m)
      PROVE  ArmInv'
  <2>1. now' = now + 1 /\ shown' = [shown EXCEPT ![m] = now'] /\ UNCHANGED <<asked, busyAt>>
    BY <1>3 DEF Deliver, Shown
  <2>2. \A s \in Seat : arm'[s] # "off" => arm'[s] = arm[s] /\ ~(To[m] = s /\ NotedPaste(m))
    BY <1>3 DEF Deliver, NoteInject, NotedPaste, AckTypeOK
  <2>3. QED
    BY <2>1, <2>2, PasteDisarms
<1>4. ASSUME NEW m \in Mail, CrashInDelivery(m)
      PROVE  ArmInv'
  <2>1. Forget /\ now' = now + 1 /\ shown' = IF m \in Inbox THEN shown ELSE [shown EXCEPT ![m] = now']
    BY <1>4 DEF CrashInDelivery
  <2>2. UNCHANGED <<asked, busyAt>> /\ \A s \in Seat : arm'[s] = "off"
    BY <2>1 DEF Forget
  <2>3. QED
    BY <1>2, <2>1, <2>2, PasteDisarms
<1>5. ASSUME NEW m \in Mail, AckMailStep(m)
      PROVE  ArmInv'
  BY <1>1, <1>3, <1>4, <1>5 DEF AckMailStep, Post, Drop
<1>6. ASSUME NEW s \in Seat, AckPaneStep(s)
      PROVE  ArmInv'
  <2>1. CASE QuietEnds(s)
    BY <2>1, ArmKept DEF QuietEnds, store
  <2>2. CASE ClearSeat(s)
    BY <2>2, <1>1 DEF ClearSeat
  <2>3. QED
    BY <1>6, <2>1, <2>2, ObserveArms DEF AckPaneStep
<1>7. ASSUME NEW r \in ledger, Clear(r)
      PROVE  ArmInv'
  BY <1>1, <1>7 DEF Clear
<1>8. CASE Sweep
  BY <1>8, ArmKept DEF Sweep
<1>9. CASE CrashAck
  BY <1>2, <1>9 DEF CrashAck, store
<1>10. CASE UNCHANGED ackvars
  BY <1>1, <1>10 DEF ackvars, store
<1>11. QED
  BY <1>5, <1>6, <1>7, <1>8, <1>9, <1>10 DEF AckNext

(* A reply is noted by the look that finds an armed pane at rest after work.*)
LEMMA ReplyNoted ==
    ASSUME AckTypeOK, ArmInv, [AckNext]_ackvars, NEW s \in Seat, s \in replied' \ replied
    PROVE  /\ asked'[s] = asked[s] /\ busyAt[s] >= asked[s]
           /\ \A m \in Mail : To[m] = s /\ NotedPaste(m) => shown[m] < asked[s]
<1>1. \E u \in Seat : \E text, echo, phase : Observe(u, text, echo, phase)
  BY DEF AckNext, AckMailStep, AckPaneStep, Post, Deliver, Shown, Drop, CrashInDelivery, Forget,
         QuietEnds, ClearSeat, Clear, Sweep, CrashAck, ackvars, watch
<1>2. PICK u \in Seat : \E text, echo, phase : Observe(u, text, echo, phase)
  BY <1>1
<1>3. PICK text, echo, phase : Observe(u, text, echo, phase)
  BY <1>2
<1>4. u = s /\ ~Submitted(s, text, echo) /\ arm[s] = "busy"
  BY <1>3 DEF Observe, Armed
<1>5. asked' = asked
  BY <1>3, <1>4 DEF Observe
<1>6. QED
  BY <1>4, <1>5 DEF ArmInv

(* A reply is noted, and closes prompts, only after work that was seen with *)
(* the last prompt or after it, at rest, with nothing pasted between        *)
(* (trackOperatorReplyCycle, noteDaemonInject, ackSweepTick).               *)
THEOREM RepliesComeLater == AckSpec => ReplyIsLater
<1> DEFINE Later ==
       /\ \A r \in ledger' \ ledger : r.by = "pane-reply" => busyAt[r.seat] >= r.at
       /\ \A s \in replied' \ replied :
             /\ asked'[s] = asked[s] /\ busyAt[s] >= asked[s]
             /\ \A m \in Mail : To[m] = s /\ NotedPaste(m) => shown[m] < asked[s]
<1>1. AckInit => ReplyInv /\ ArmInv
  BY DEF AckInit, ReplyInv, PromptInv, ClockInv, ArmInv
<1>2. AckTypeOK /\ AckTypeOK' /\ ReplyInv /\ ArmInv /\ [AckNext]_ackvars => [Later]_ackvars
  <2>1. AckTypeOK' => replied' \subseteq Seat
    BY DEF AckTypeOK
  <2>2. QED
    BY <2>1, ReplyRows, ReplyNoted
<1>3. AckTypeOK /\ ReplyInv /\ ArmInv /\ [AckNext]_ackvars => ReplyInv' /\ ArmInv'
  BY ReplyStep, ArmStep
<1>4. QED
  BY <1>1, <1>2, <1>3, AckTypes, PTL DEF AckSpec, ReplyIsLater, Later
=============================================================================
