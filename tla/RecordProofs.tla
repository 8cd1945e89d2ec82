---------------------------- MODULE RecordProofs -----------------------------
(***************************************************************************)
(* Theorems about what the daemon keeps on record: NotifyActs, RoomCalls,  *)
(* QueueStore and TermPool, for any links, calls, rows, jobs and workers.  *)
(***************************************************************************)
EXTENDS NotifyActs, RoomCalls, QueueStore, TermPool, FiniteSetTheorems, TLAPS

-----------------------------------------------------------------------------
(* The registry and the file, as functions.                                 *)

LEMMA Registries ==
    ASSUME NEW reg \in [Token -> Stamp], NEW n \in Note, disk \in [Token -> Stamp]
    PROVE  /\ Stamped(reg, n) \in [Token -> Stamp]
           /\ Hydrated(reg) \in [Token -> Stamp]
           /\ \A t \in Token :
                 /\ Stamped(reg, n)[t] = Absent <=> reg[t] = Absent
                 /\ Hydrated(reg)[t] = Absent <=> reg[t] = Absent /\ disk[t] = Absent
BY ActAssumption DEF Stamped, Hydrated, Stamp

(* A registration puts its links into the registry and leaves the others.   *)
WithLinks(n) == [t \in Token |-> IF NoteOf[t] = n THEN NoCard ELSE mem[t]]

LEMMA RegisterShape ==
    ASSUME ActTypeOK, NEW n \in Note, Register(n)
    PROVE  /\ mem' \in [Token -> Stamp]
           /\ mem' = Stamped(WithLinks(n), n)
           /\ \A t \in Token : mem'[t] = Absent <=> NoteOf[t] # n /\ mem[t] = Absent
           /\ \/ disk' = mem' /\ saved' = saved \cup Live(mem') /\ actFaults' = actFaults
              \/ /\ disk' = disk /\ saved' = saved
                 /\ actFaults < MaxActFaults /\ actFaults' = actFaults + 1
           /\ \/ notes' = [notes EXCEPT ![n] = "sent"]
              \/ notes' = notes /\ actFaults' = actFaults + 1
           /\ handling = NoToken /\ n \notin registered
           /\ registered' = registered \cup {n}
           /\ UNCHANGED <<handling, executed, expired>>
<1>1. WithLinks(n) \in [Token -> Stamp] /\ NoCard # Absent
  BY ActAssumption DEF WithLinks, Stamp, ActTypeOK
<1>2. mem' = Stamped(WithLinks(n), n)
  BY DEF Register, WithLinks
<1>3. mem' \in [Token -> Stamp]
  BY <1>1, <1>2, Registries DEF ActTypeOK
<1>4. \A t \in Token : mem'[t] = Absent <=> NoteOf[t] # n /\ mem[t] = Absent
  <2>1. \A t \in Token : mem'[t] = Absent <=> WithLinks(n)[t] = Absent
    BY <1>1, <1>2, Registries DEF ActTypeOK
  <2>2. QED
    BY <1>1, <2>1 DEF WithLinks
<1>5. \/ disk' = mem' /\ saved' = saved \cup Live(mem') /\ actFaults' = actFaults
      \/ /\ disk' = disk /\ saved' = saved
         /\ actFaults < MaxActFaults /\ actFaults' = actFaults + 1
  BY DEF Register, Save, SavedAs, Lost
<1>6. \/ notes' = [notes EXCEPT ![n] = "sent"]
      \/ notes' = notes /\ actFaults' = actFaults + 1
  BY DEF Register, Lost
<1>7. /\ handling = NoToken /\ n \notin registered
      /\ registered' = registered \cup {n}
      /\ UNCHANGED <<handling, executed, expired>>
  BY DEF Register
<1>8. QED
  BY <1>2, <1>3, <1>4, <1>5, <1>6, <1>7

LEMMA EndShape ==
    ASSUME End
    PROVE  /\ handling # NoToken /\ handling' = NoToken
           /\ \/ disk' = mem /\ saved' = saved \cup Live(mem) /\ actFaults' = actFaults
              \/ /\ disk' = disk /\ saved' = saved
                 /\ actFaults < MaxActFaults /\ actFaults' = actFaults + 1
           /\ \/ notes' = Marked(NoteOf[handling])
              \/ notes' = notes /\ actFaults' = actFaults + 1
           /\ UNCHANGED <<mem, executed, registered, expired>>
<1>1. \/ disk' = mem /\ saved' = saved \cup Live(mem) /\ actFaults' = actFaults
      \/ /\ disk' = disk /\ saved' = saved
         /\ actFaults < MaxActFaults /\ actFaults' = actFaults + 1
  BY DEF End, Save, SavedAs, Lost
<1>2. \/ notes' = Marked(NoteOf[handling])
      \/ notes' = notes /\ actFaults' = actFaults + 1
  BY DEF End, Lost
<1>3. QED
  BY <1>1, <1>2 DEF End

-----------------------------------------------------------------------------
(* Typing.                                                                  *)

LEMMA ActTypeStep ==
    ASSUME ActTypeOK, [ActNext]_actvars
    PROVE  ActTypeOK'
<1> USE ActAssumption
<1>1. ASSUME NEW n \in Note, Register(n)
      PROVE  ActTypeOK'
  <2>1. notes' \in [Note -> {"none", "sent", "acted"}]
    BY <1>1, RegisterShape DEF ActTypeOK
  <2>2. disk' \in [Token -> Stamp] /\ saved' \subseteq Token /\ actFaults' \in 0..MaxActFaults
    BY <1>1, RegisterShape DEF ActTypeOK, Live
  <2>3. QED
    BY <1>1, <2>1, <2>2, RegisterShape DEF ActTypeOK
<1>2. ASSUME NEW n \in Note, Expire(n)
      PROVE  ActTypeOK'
  BY <1>2 DEF Expire, ActTypeOK, Stamp
<1>3. ASSUME NEW t \in Token, Begin(t)
      PROVE  ActTypeOK'
  BY <1>3 DEF Begin, Taken, ActTypeOK, Stamp
<1>4. CASE End
  <2>1. notes' \in [Note -> {"none", "sent", "acted"}]
    BY <1>4, EndShape DEF Marked, ActTypeOK
  <2>2. disk' \in [Token -> Stamp] /\ saved' \subseteq Token /\ actFaults' \in 0..MaxActFaults
    BY <1>4, EndShape DEF ActTypeOK, Live
  <2>3. QED
    BY <1>4, <2>1, <2>2, EndShape DEF ActTypeOK
<1>5. CASE Repair
  BY <1>5, Registries DEF Repair, Hydrated, ActTypeOK, Stamp
<1>6. CASE CrashActs
  BY <1>6, Registries DEF CrashActs, Hydrated, ActTypeOK, Stamp
<1>7. CASE UNCHANGED actvars
  BY <1>7 DEF actvars, ActTypeOK
<1>8. QED
  BY <1>1, <1>2, <1>3, <1>4, <1>5, <1>6, <1>7 DEF ActNext

(* The variables keep their types, and no link is in the registry while its *)
(* handler runs.                                                            *)
THEOREM ActTypes == ActSpec => []ActTypeOK
<1>1. ActInit => ActTypeOK
  BY ActAssumption DEF ActInit, ActTypeOK, Stamp
<1>2. QED
  BY <1>1, ActTypeStep, PTL DEF ActSpec

-----------------------------------------------------------------------------
(* One-shot.  A link that can still be used, because it is in the registry  *)
(* or would come back from the file, was acted on once less.                *)

ShotInv ==
    \A t \in Token :
        /\ executed[t] <= 1 + actFaults
        /\ mem[t] # Absent => executed[t] <= actFaults
        /\ disk[t] # Absent /\ handling # t => executed[t] <= actFaults
        /\ NoteOf[t] \notin registered =>
              executed[t] = 0 /\ mem[t] = Absent /\ disk[t] = Absent

LEMMA ShotStep ==
    ASSUME ActTypeOK, ShotInv, [ActNext]_actvars
    PROVE  ShotInv'
<1> USE ActAssumption
<1>1. ASSUME NEW n \in Note, Register(n)
      PROVE  ShotInv'
  <2>1. SUFFICES ASSUME NEW t \in Token
                 PROVE  /\ executed[t] <= 1 + actFaults'
                        /\ mem'[t] # Absent => executed[t] <= actFaults'
                        /\ disk'[t] # Absent => executed[t] <= actFaults'
                        /\ NoteOf[t] \notin registered' =>
                              executed[t] = 0 /\ mem'[t] = Absent /\ disk'[t] = Absent
    BY <1>1, RegisterShape DEF ShotInv
  <2>2. executed[t] \in Nat /\ actFaults \in Nat /\ actFaults' \in {actFaults, actFaults + 1}
    BY <1>1, RegisterShape DEF ActTypeOK
  <2>3. mem'[t] # Absent => executed[t] <= actFaults
    BY <1>1, <2>2, RegisterShape DEF ShotInv
  <2>4. disk[t] # Absent => executed[t] <= actFaults
    BY <1>1, RegisterShape DEF ShotInv
  <2>5. NoteOf[t] \notin registered' => executed[t] = 0 /\ mem'[t] = Absent /\ disk[t] = Absent
    BY <1>1, RegisterShape DEF ShotInv
  <2>6. disk' = mem' \/ disk' = disk
    BY <1>1, RegisterShape
  <2>7. executed[t] <= 1 + actFaults
    BY DEF ShotInv
  <2>8. QED
    BY <2>2, <2>3, <2>4, <2>5, <2>6, <2>7
<1>2. ASSUME NEW n \in Note, Expire(n)
      PROVE  ShotInv'
  BY <1>2 DEF Expire, ShotInv, ActTypeOK
<1>3. ASSUME NEW t \in Token, Begin(t)
      PROVE  ShotInv'
  <2>1. executed \in [Token -> Nat] /\ actFaults \in Nat /\ mem[t] # Absent
    BY <1>3 DEF Begin, ActTypeOK
  <2>2. /\ executed' = [executed EXCEPT ![t] = @ + 1] /\ mem' = [mem EXCEPT ![t] = Absent]
        /\ handling' = t /\ handling = NoToken
        /\ UNCHANGED <<disk, registered, actFaults>>
    BY <1>3 DEF Begin, Taken
  <2>3. QED
    BY <2>1, <2>2 DEF ShotInv, ActTypeOK
<1>4. CASE End
  <2>1. SUFFICES ASSUME NEW t \in Token
                 PROVE  /\ executed[t] <= 1 + actFaults'
                        /\ mem[t] # Absent => executed[t] <= actFaults'
                        /\ disk'[t] # Absent => executed[t] <= actFaults'
                        /\ NoteOf[t] \notin registered =>
                              executed[t] = 0 /\ mem[t] = Absent /\ disk'[t] = Absent
    BY <1>4, EndShape DEF ShotInv
  <2>2. executed[t] \in Nat /\ actFaults \in Nat
    BY DEF ActTypeOK
  <2>3. \/ disk' = mem /\ actFaults' = actFaults
        \/ disk' = disk /\ actFaults' = actFaults + 1
    BY <1>4, EndShape
  <2>4. QED
    BY <2>2, <2>3 DEF ShotInv
<1>5. CASE Repair
  <2>1. handling = NoToken /\ UNCHANGED <<disk, handling, executed, registered, actFaults>>
    BY <1>5 DEF Repair
  <2>2. \A t \in Token : mem'[t] # Absent => mem[t] # Absent \/ disk[t] # Absent
    BY <1>5 DEF Repair, Hydrated
  <2>3. QED
    BY <2>1, <2>2 DEF ShotInv
<1>6. CASE CrashActs
  <2>1. actFaults' = actFaults + 1 /\ UNCHANGED <<disk, executed, registered>>
    BY <1>6 DEF CrashActs
  <2>2. \A t \in Token : mem'[t] # Absent => disk[t] # Absent
    BY <1>6 DEF CrashActs, Hydrated
  <2>3. \A t \in Token : executed[t] \in Nat /\ actFaults \in Nat
    BY DEF ActTypeOK
  <2>4. QED
    BY <2>1, <2>2, <2>3 DEF ShotInv
<1>7. CASE UNCHANGED actvars
  BY <1>7 DEF actvars, ShotInv
<1>8. QED
  BY <1>1, <1>2, <1>3, <1>4, <1>5, <1>6, <1>7 DEF ActNext

(* A link is acted on once, and once more for each failed write or death.   *)
THEOREM LinksAreOneShot == ActSpec => []OneShot
<1>1. ActInit => ShotInv
  BY DEF ActInit, ShotInv
<1>2. ActTypeOK /\ ShotInv /\ [ActNext]_actvars => ShotInv'
  BY ShotStep
<1>3. ShotInv => OneShot
  BY DEF ShotInv, OneShot
<1>4. QED
  BY <1>1, <1>2, <1>3, ActTypes, PTL DEF ActSpec

-----------------------------------------------------------------------------
(* Links that reached the file.  Inductive with the file itself, which a    *)
(* restart reads.                                                           *)

Usable(t) == executed[t] = 0 /\ NoteOf[t] \notin expired

FileInv == \A t \in saved : Usable(t) => mem[t] # Absent /\ disk[t] # Absent

LEMMA FileStep ==
    ASSUME ActTypeOK, FileInv, [ActNext]_actvars
    PROVE  FileInv'
<1> USE ActAssumption DEF Usable
<1>1. ASSUME NEW n \in Note, Register(n)
      PROVE  FileInv'
  <2>1. UNCHANGED <<executed, expired>>
    BY <1>1, RegisterShape
  <2>2. \A t \in saved : Usable(t) => mem'[t] # Absent
    BY <1>1, RegisterShape DEF FileInv, ActTypeOK
  <2>3. CASE disk' = mem' /\ saved' = saved \cup Live(mem')
    BY <2>1, <2>2, <2>3 DEF FileInv, Live
  <2>4. CASE disk' = disk /\ saved' = saved
    BY <2>1, <2>2, <2>4 DEF FileInv
  <2>5. QED
    BY <1>1, <2>3, <2>4, RegisterShape
<1>2. ASSUME NEW n \in Note, Expire(n)
      PROVE  FileInv'
  BY <1>2 DEF Expire, FileInv, ActTypeOK
<1>3. ASSUME NEW t \in Token, Begin(t)
      PROVE  FileInv'
  <2>1. executed[t] + 1 # 0
    BY DEF ActTypeOK
  <2>2. QED
    BY <1>3, <2>1 DEF Begin, Taken, FileInv, ActTypeOK
<1>4. CASE End
  <2>1. UNCHANGED <<mem, executed, expired>>
    BY <1>4, EndShape
  <2>2. CASE disk' = mem /\ saved' = saved \cup Live(mem)
    BY <2>1, <2>2 DEF FileInv, Live
  <2>3. CASE disk' = disk /\ saved' = saved
    BY <2>1, <2>3 DEF FileInv
  <2>4. QED
    BY <1>4, <2>2, <2>3, EndShape
<1>5. CASE Repair
  BY <1>5 DEF Repair, Hydrated, FileInv, ActTypeOK
<1>6. CASE CrashActs
  BY <1>6 DEF CrashActs, Hydrated, FileInv, ActTypeOK
<1>7. CASE UNCHANGED actvars
  BY <1>7 DEF actvars, FileInv
<1>8. QED
  BY <1>1, <1>2, <1>3, <1>4, <1>5, <1>6, <1>7 DEF ActNext

(* A link that reached the file works until it is used or runs out.         *)
THEOREM SavedLinksSurvive == ActSpec => []LinksSurvive
<1>1. ActInit => FileInv
  BY DEF ActInit, FileInv
<1>2. ActTypeOK /\ FileInv /\ [ActNext]_actvars => FileInv'
  BY FileStep
<1>3. FileInv => LinksSurvive
  BY DEF FileInv, Usable, LinksSurvive
<1>4. QED
  BY <1>1, <1>2, <1>3, ActTypes, PTL DEF ActSpec

-----------------------------------------------------------------------------
(* The ledger of notifications, as long as nothing has failed.              *)

RecordInv ==
    actFaults = 0 =>
        /\ \A n \in Note : n \in registered <=> notes[n] # "none"
        /\ \A n \in Note : notes[n] = "acted" => \E t \in Token : NoteOf[t] = n /\ executed[t] > 0
        /\ \A t \in Token : executed[t] > 0 /\ handling # t => notes[NoteOf[t]] = "acted"
        /\ handling # NoToken => executed[handling] > 0 /\ notes[NoteOf[handling]] # "none"

LEMMA RecordStep ==
    ASSUME ActTypeOK, ShotInv, RecordInv, [ActNext]_actvars
    PROVE  RecordInv'
<1> USE ActAssumption
<1>1. ASSUME NEW n \in Note, Register(n)
      PROVE  RecordInv'
  <2>1. SUFFICES ASSUME actFaults' = 0
                 PROVE  RecordInv'
    BY DEF RecordInv
  <2>2. actFaults = 0 /\ notes' = [notes EXCEPT ![n] = "sent"]
    BY <1>1, <2>1, RegisterShape DEF ActTypeOK
  <2>3. /\ UNCHANGED <<handling, executed>> /\ registered' = registered \cup {n}
        /\ handling = NoToken /\ notes[n] = "none"
    BY <1>1, <2>2, RegisterShape DEF RecordInv, ActTypeOK
  <2>4. \A m \in Note : m \in registered' <=> notes'[m] # "none"
    BY <2>2, <2>3 DEF RecordInv, ActTypeOK
  <2>5. \A m \in Note : notes'[m] = "acted" => \E t \in Token : NoteOf[t] = m /\ executed'[t] > 0
    BY <2>2, <2>3 DEF RecordInv, ActTypeOK
  <2>6. \A t \in Token : executed'[t] > 0 => notes'[NoteOf[t]] = "acted"
    BY <2>2, <2>3 DEF RecordInv, ActTypeOK
  <2>7. QED
    BY <2>3, <2>4, <2>5, <2>6 DEF RecordInv
<1>2. ASSUME NEW n \in Note, Expire(n)
      PROVE  RecordInv'
  BY <1>2 DEF Expire, RecordInv
<1>3. ASSUME NEW t \in Token, Begin(t)
      PROVE  RecordInv'
  <2>1. SUFFICES ASSUME actFaults' = 0
                 PROVE  RecordInv'
    BY DEF RecordInv
  <2>2. /\ executed' = [executed EXCEPT ![t] = @ + 1] /\ executed \in [Token -> Nat]
        /\ handling' = t /\ handling = NoToken /\ actFaults = 0
        /\ UNCHANGED <<notes, registered>> /\ mem[t] # Absent
    BY <1>3, <2>1 DEF Begin, ActTypeOK
  <2>3. NoteOf[t] \in registered /\ NoteOf[t] \in Note
    BY <2>2 DEF ShotInv
  <2>4. \A u \in Token : executed[u] > 0 => executed'[u] > 0
    BY <2>2
  <2>5. executed'[t] > 0
    BY <2>2
  <2>6. \A u \in Token : u # t => executed'[u] = executed[u]
    BY <2>2
  <2>7. QED
    BY <2>2, <2>3, <2>4, <2>5, <2>6 DEF RecordInv
<1>4. CASE End
  <2>1. SUFFICES ASSUME actFaults' = 0
                 PROVE  RecordInv'
    BY DEF RecordInv
  <2>2. actFaults = 0 /\ notes' = Marked(NoteOf[handling])
    BY <1>4, <2>1, EndShape DEF ActTypeOK
  <2>3. /\ handling # NoToken /\ handling' = NoToken /\ UNCHANGED <<executed, registered>>
        /\ handling \in Token /\ NoteOf[handling] \in Note
    BY <1>4, EndShape DEF ActTypeOK
  <2>4. /\ notes'[NoteOf[handling]] = "acted"
        /\ \A n \in Note : n # NoteOf[handling] => notes'[n] = notes[n]
    BY <2>2, <2>3 DEF Marked, RecordInv, ActTypeOK
  <2>5. notes[NoteOf[handling]] # "none" /\ executed[handling] > 0
    BY <2>2, <2>3 DEF RecordInv
  <2>6. \A n \in Note : n \in registered' <=> notes'[n] # "none"
    BY <2>2, <2>3, <2>4, <2>5 DEF RecordInv
  <2>7. \A n \in Note : notes'[n] = "acted" => \E t \in Token : NoteOf[t] = n /\ executed'[t] > 0
    BY <2>2, <2>3, <2>4, <2>5 DEF RecordInv
  <2>8. \A t \in Token : executed'[t] > 0 => notes'[NoteOf[t]] = "acted"
    BY <2>2, <2>3, <2>4 DEF RecordInv
  <2>9. QED
    BY <2>3, <2>6, <2>7, <2>8 DEF RecordInv
<1>5. CASE Repair
  BY <1>5 DEF Repair, RecordInv
<1>6. CASE CrashActs
  BY <1>6 DEF CrashActs, RecordInv, ActTypeOK
<1>7. CASE UNCHANGED actvars
  BY <1>7 DEF actvars, RecordInv
<1>8. QED
  BY <1>1, <1>2, <1>3, <1>4, <1>5, <1>6, <1>7 DEF ActNext

(* Short of failures a notification is on record as answered when, and only *)
(* when, one of its links was acted on.                                     *)
THEOREM AnswersAreOnRecord == ActSpec => []AnswerOnRecord
<1>1. ActInit => ShotInv /\ RecordInv
  BY DEF ActInit, ShotInv, RecordInv
<1>2. ActTypeOK /\ ShotInv /\ RecordInv /\ [ActNext]_actvars => ShotInv' /\ RecordInv'
  BY ShotStep, RecordStep
<1>3. ActTypeOK /\ RecordInv => AnswerOnRecord
  BY ActAssumption DEF RecordInv, AnswerOnRecord, ActTypeOK
<1>4. QED
  BY <1>1, <1>2, <1>3, ActTypes, PTL DEF ActSpec

-----------------------------------------------------------------------------
(* The card on an answer.  An answer that comes with a card is stamped in   *)
(* the step that registers it, so no later card finds it without one; the   *)
(* other links of a card are never stamped.                                 *)

CardOf(t, reg) ==
    NoteOf[t] \in Carded =>
        reg[t] \in (IF t \in Decide THEN {NoteOf[t], Absent} ELSE {NoCard, Absent})

CardInv == \A t \in Token : CardOf(t, mem) /\ CardOf(t, disk)

LEMMA CardStep ==
    ASSUME ActTypeOK, CardInv, [ActNext]_actvars
    PROVE  CardInv'
<1> USE ActAssumption DEF CardOf
<1>1. ASSUME NEW n \in Note, Register(n)
      PROVE  CardInv'
  <2>1. \A t \in Token : CardOf(t, mem')
    <3>1. SUFFICES ASSUME NEW t \in Token
                   PROVE  CardOf(t, mem')
      OBVIOUS
    <3>2. mem'[t] = IF n \in Carded /\ t \in Decide /\ WithLinks(n)[t] = NoCard
                    THEN n ELSE WithLinks(n)[t]
      BY <1>1, RegisterShape DEF Stamped
    <3>3. WithLinks(n)[t] = IF NoteOf[t] = n THEN NoCard ELSE mem[t]
      BY DEF WithLinks
    <3>4. CardOf(t, mem)
      BY DEF CardInv
    <3>5. QED
      BY <3>2, <3>3, <3>4
  <2>2. disk' = mem' \/ disk' = disk
    BY <1>1, RegisterShape
  <2>3. QED
    BY <2>1, <2>2 DEF CardInv
<1>2. ASSUME NEW n \in Note, Expire(n)
      PROVE  CardInv'
  BY <1>2 DEF Expire, CardInv, ActTypeOK
<1>3. ASSUME NEW t \in Token, Begin(t)
      PROVE  CardInv'
  BY <1>3 DEF Begin, Taken, CardInv, ActTypeOK
<1>4. CASE End
  <2>1. mem' = mem /\ (disk' = mem \/ disk' = disk)
    BY <1>4, EndShape
  <2>2. QED
    BY <2>1 DEF CardInv
<1>5. CASE Repair
  BY <1>5 DEF Repair, Hydrated, CardInv
<1>6. CASE CrashActs
  BY <1>6 DEF CrashActs, Hydrated, CardInv
<1>7. CASE UNCHANGED actvars
  BY <1>7 DEF actvars, CardInv
<1>8. QED
  BY <1>1, <1>2, <1>3, <1>4, <1>5, <1>6, <1>7 DEF ActNext

(* An answer names the card it was given on.                                *)
THEOREM AnswersNameTheirCard == ActSpec => []OwnCard
<1>1. ActInit => CardInv
  BY DEF ActInit, CardInv, CardOf
<1>2. ActTypeOK /\ CardInv /\ [ActNext]_actvars => CardInv'
  BY CardStep
<1>3. CardInv => OwnCard
  BY DEF CardInv, CardOf, OwnCard
<1>4. QED
  BY <1>1, <1>2, <1>3, ActTypes, PTL DEF ActSpec

-----------------------------------------------------------------------------
(* RoomCalls: typing.                                                      *)

(* The variables of the calls keep their types.                            *)
THEOREM CallTypes == CallSpec => []CallTypeOK
<1>1. CallInit => CallTypeOK
  BY DEF CallInit, CallTypeOK, Process, Status
<1>2. ASSUME CallTypeOK, [CallNext]_callVars
      PROVE  CallTypeOK'
  <2> USE CallTypeOK DEF CallTypeOK, Process, Status, Goto, Read
  <2>1. ASSUME NEW c \in Call, ReadForCall(c)
        PROVE  CallTypeOK'
    BY <2>1 DEF ReadForCall
  <2>2. ASSUME NEW c \in Call, WriteCall(c)
        PROVE  CallTypeOK'
    BY <2>2 DEF WriteCall
  <2>3. ASSUME NEW a \in Answer, Find(a)
        PROVE  CallTypeOK'
    BY <2>3 DEF Find, AfterFind
  <2>4. ASSUME NEW a \in Answer, CheckRoom(a)
        PROVE  CallTypeOK'
    BY <2>4 DEF CheckRoom
  <2>5. ASSUME NEW a \in Answer, CreateRoom(a)
        PROVE  CallTypeOK'
    BY <2>5 DEF CreateRoom
  <2>6. ASSUME NEW a \in Answer, SayConnected(a)
        PROVE  CallTypeOK'
    BY <2>6 DEF SayConnected
  <2>7. ASSUME NEW a \in Answer, Reread(a)
        PROVE  CallTypeOK'
    BY <2>7 DEF Reread
  <2>8. ASSUME NEW a \in Answer, WriteAnswer(a)
        PROVE  CallTypeOK'
    BY <2>8 DEF WriteAnswer
  <2>9. ASSUME NEW i \in Process, Killed(i)
        PROVE  CallTypeOK'
    BY <2>9 DEF Killed
  <2>10. CASE UNCHANGED callVars
    BY <2>10 DEF callVars
  <2>11. QED
    BY <1>2, <2>1, <2>2, <2>3, <2>4, <2>5, <2>6, <2>7, <2>8, <2>9, <2>10
    DEF CallNext, AnswerStep
<1>3. QED
  BY <1>1, <1>2, PTL DEF CallSpec

-----------------------------------------------------------------------------
(* One pending call for two workers.  What makes it inductive: each copy   *)
(* of the file that a command may still write back satisfies it too, and a *)
(* command about to add its call read a file without one for the pair.     *)

OnePer(rows) ==
    \A c, d \in Call :
        rows[c] = "pending" /\ rows[d] = "pending" /\ SamePair(c, d) => c = d

PairInv ==
    /\ CallTypeOK
    /\ OnePer(calls)
    /\ \A i \in Process : OnePer(seen[i])
    /\ \A c \in Call : at[c] = "write" => ~PairPending(c, seen[c])

LEMMA PairSymmetry ==
    ASSUME NEW c \in Call, NEW d \in Call, SamePair(c, d)
    PROVE  SamePair(d, c)
BY DEF SamePair

(* Adding a call where the pair has none pending.                          *)
LEMMA OnePerAdds ==
    ASSUME NEW rows \in [Call -> Status], NEW c \in Call,
           OnePer(rows), ~PairPending(c, rows)
    PROVE  OnePer([rows EXCEPT ![c] = "pending"])
<1> DEFINE new == [rows EXCEPT ![c] = "pending"]
<1>1. SUFFICES ASSUME NEW d \in Call, NEW e \in Call, new[d] = "pending",
                      new[e] = "pending", SamePair(d, e)
               PROVE  d = e
  BY DEF OnePer
<1>2. CASE d = c /\ e # c
  BY <1>1, <1>2 DEF PairPending
<1>3. CASE e = c /\ d # c
  BY <1>1, <1>3, PairSymmetry DEF PairPending
<1>4. CASE d # c /\ e # c
  BY <1>1, <1>4 DEF OnePer
<1>5. QED
  BY <1>2, <1>3, <1>4

(* Answering a call.                                                       *)
LEMMA OnePerAnswers ==
    ASSUME NEW rows \in [Call -> Status], NEW c \in Call, NEW v, v # "pending",
           OnePer(rows)
    PROVE  OnePer([rows EXCEPT ![c] = v])
BY DEF OnePer

(* Steps that touch neither the file nor a copy and begin no write.        *)
LEMMA PairKept ==
    ASSUME PairInv, CallTypeOK', UNCHANGED <<calls, seen>>,
           \A c \in Call : at'[c] = "write" => at[c] = "write"
    PROVE  PairInv'
BY DEF PairInv, OnePer, PairPending, SamePair

LEMMA PairStep ==
    ASSUME PairInv, CallTypeOK', [CallNext]_callVars
    PROVE  PairInv'
<1> USE DEF Goto
<1>1. ASSUME NEW c \in Call, ReadForCall(c)
      PROVE  PairInv'
  <2>1. calls' = calls /\ seen' = [seen EXCEPT ![c] = calls]
    BY <1>1 DEF ReadForCall, Read
  <2>2. OnePer(calls') /\ \A i \in Process : OnePer(seen'[i])
    BY <2>1 DEF PairInv, CallTypeOK, Process
  <2>3. ASSUME NEW d \in Call, at'[d] = "write"
        PROVE  ~PairPending(d, seen'[d])
    <3>1. CASE d = c
      BY <1>1, <2>1, <2>3, <3>1 DEF ReadForCall, PairInv, CallTypeOK, Process
    <3>2. CASE d # c
      BY <1>1, <2>1, <2>3, <3>2 DEF ReadForCall, PairInv, CallTypeOK, Process
    <3>3. QED
      BY <3>1, <3>2
  <2>4. QED
    BY <2>2, <2>3 DEF PairInv, OnePer, PairPending, SamePair
<1>2. ASSUME NEW c \in Call, WriteCall(c)
      PROVE  PairInv'
  <2>1. calls' = [seen[c] EXCEPT ![c] = "pending"] /\ seen' = seen
    BY <1>2 DEF WriteCall
  <2>2. OnePer(calls')
    <3>1. seen[c] \in [Call -> Status] /\ OnePer(seen[c]) /\ ~PairPending(c, seen[c])
      BY <1>2 DEF WriteCall, PairInv, CallTypeOK, Process
    <3>2. OnePer([seen[c] EXCEPT ![c] = "pending"])
      BY <3>1, OnePerAdds
    <3>3. QED
      BY <2>1, <3>2
  <2>3. \A d \in Call : at'[d] = "write" => at[d] = "write"
    BY <1>2 DEF WriteCall, PairInv, CallTypeOK, Process
  <2>4. QED
    BY <2>1, <2>2, <2>3 DEF PairInv, OnePer, PairPending, SamePair
<1>3. ASSUME NEW a \in Answer, Reread(a)
      PROVE  PairInv'
  <2>1. calls' = calls /\ seen' = [seen EXCEPT ![a] = calls]
    BY <1>3 DEF Reread, Read
  <2>2. \A i \in Process : OnePer(seen'[i])
    BY <2>1 DEF PairInv, CallTypeOK, Process
  <2>3. \A d \in Call : seen'[d] = seen[d] /\ (at'[d] = "write" => at[d] = "write")
    BY <1>3, <2>1, CallAssumption DEF Reread, PairInv, CallTypeOK, Process
  <2>4. QED
    BY <2>1, <2>2, <2>3 DEF PairInv, OnePer, PairPending, SamePair
<1>4. ASSUME NEW a \in Answer, WriteAnswer(a)
      PROVE  PairInv'
  <2>1. calls' = [seen[a] EXCEPT ![on[a]] = verdict[a]] /\ seen' = seen
    BY <1>4 DEF WriteAnswer
  <2>2. OnePer(calls')
    BY <2>1, OnePerAnswers DEF PairInv, CallTypeOK, Process
  <2>3. \A d \in Call : at'[d] = "write" => at[d] = "write"
    BY <1>4 DEF WriteAnswer, PairInv, CallTypeOK, Process
  <2>4. QED
    BY <2>1, <2>2, <2>3 DEF PairInv, OnePer, PairPending, SamePair
<1>5. ASSUME NEW a \in Answer, Find(a) \/ CheckRoom(a) \/ CreateRoom(a) \/ SayConnected(a)
      PROVE  PairInv'
  <2>1. UNCHANGED <<calls, seen>>
    BY <1>5 DEF Find, CheckRoom, CreateRoom, SayConnected
  <2>2. \A d \in Call : at'[d] = "write" => at[d] = "write"
    BY <1>5 DEF Find, AfterFind, CheckRoom, CreateRoom, SayConnected, PairInv,
                CallTypeOK, Process
  <2>3. QED
    BY <2>1, <2>2, PairKept
<1>6. ASSUME NEW i \in Process, Killed(i)
      PROVE  PairInv'
  BY <1>6, PairKept DEF Killed, PairInv, CallTypeOK, Process
<1>7. CASE UNCHANGED callVars
  BY <1>7, PairKept DEF callVars
<1>8. QED
  BY <1>1, <1>2, <1>3, <1>4, <1>5, <1>6, <1>7 DEF CallNext, AnswerStep

(* Two workers never have two pending calls between them.                  *)
THEOREM NoSecondCall == CallSpec => []OnePendingCall
<1>1. CallInit => PairInv
  BY DEF CallInit, PairInv, OnePer, CallTypeOK, Process, Status
<1>2. PairInv /\ CallTypeOK' /\ [CallNext]_callVars => PairInv'
  BY PairStep
<1>3. PairInv => OnePendingCall
  BY DEF PairInv, OnePer, OnePendingCall
<1>4. QED
  BY <1>1, <1>2, <1>3, CallTypes, PTL DEF CallSpec

-----------------------------------------------------------------------------
(* Accepted calls have their room.  Inductive together with the copies of  *)
(* the file and with the commands that are past the making of the room.    *)

RoomInv ==
    /\ \A c \in Call : calls[c] = "accepted" => log[c] # "none"
    /\ \A i \in Process, c \in Call : seen[i][c] = "accepted" => log[c] # "none"
    /\ \A a \in Answer :
          at[a] \in {"say", "reread", "rewrite"} /\ verdict[a] = "accepted"
             => log[on[a]] # "none"

LEMMA RoomStep ==
    ASSUME CallTypeOK, RoomInv, [CallNext]_callVars
    PROVE  RoomInv'
<1> USE CallTypeOK, RoomInv DEF Goto, Read, CallTypeOK, RoomInv, Process
<1>1. ASSUME NEW c \in Call, ReadForCall(c)
      PROVE  RoomInv'
  BY <1>1, CallAssumption DEF ReadForCall
<1>2. ASSUME NEW c \in Call, WriteCall(c)
      PROVE  RoomInv'
  <2>1. \A d \in Call : calls'[d] = "accepted" => seen[c][d] = "accepted"
    BY <1>2 DEF WriteCall
  <2>2. QED
    BY <1>2, <2>1, CallAssumption DEF WriteCall
<1>3. ASSUME NEW a \in Answer, Find(a)
      PROVE  RoomInv'
  BY <1>3 DEF Find, AfterFind
<1>4. ASSUME NEW a \in Answer, CheckRoom(a)
      PROVE  RoomInv'
  BY <1>4 DEF CheckRoom
<1>5. ASSUME NEW a \in Answer, CreateRoom(a)
      PROVE  RoomInv'
  BY <1>5 DEF CreateRoom
<1>6. ASSUME NEW a \in Answer, SayConnected(a)
      PROVE  RoomInv'
  BY <1>6 DEF SayConnected
<1>7. ASSUME NEW a \in Answer, Reread(a)
      PROVE  RoomInv'
  BY <1>7 DEF Reread
<1>8. ASSUME NEW a \in Answer, WriteAnswer(a)
      PROVE  RoomInv'
  <2>1. \A d \in Call : calls'[d] = "accepted" => log[d] # "none"
    <3>1. on[a] \in Call /\ seen[a] \in [Call -> Status]
      OBVIOUS
    <3>2. calls' = [seen[a] EXCEPT ![on[a]] = verdict[a]] /\ at[a] = "rewrite"
      BY <1>8 DEF WriteAnswer
    <3>3. QED
      BY <3>1, <3>2
  <2>2. QED
    BY <1>8, <2>1 DEF WriteAnswer
<1>9. ASSUME NEW i \in Process, Killed(i)
      PROVE  RoomInv'
  BY <1>9 DEF Killed
<1>10. CASE UNCHANGED callVars
  BY <1>10 DEF callVars
<1>11. QED
  BY <1>1, <1>2, <1>3, <1>4, <1>5, <1>6, <1>7, <1>8, <1>9, <1>10
  DEF CallNext, AnswerStep

(* A call is accepted only when its room is there.                         *)
THEOREM AcceptedCallsHaveRooms == CallSpec => []AcceptedHasRoom
<1>1. CallInit => RoomInv
  BY DEF CallInit, RoomInv, Process
<1>2. CallTypeOK /\ RoomInv /\ [CallNext]_callVars => RoomInv'
  BY RoomStep
<1>3. RoomInv => AcceptedHasRoom
  BY DEF RoomInv, AcceptedHasRoom
<1>4. QED
  BY <1>1, <1>2, <1>3, CallTypes, PTL DEF CallSpec

-----------------------------------------------------------------------------
(* QueueStore: typing.                                                     *)

LEMMA StoreTypeStep ==
    ASSUME StoreTypeOK, [StoreNext]_storeVars
    PROVE  StoreTypeOK'
<1> USE StoreAssumption DEF StoreTypeOK, RowState, CbState
<1>1. {"peers", "checks", "mark"} \subseteq ImportStep /\ Import[1] \in ImportStep
  BY DEF ImportStep, Import
<1>2. CASE Start
  <2>1. tableCb' \in [Cb -> CbState]
    BY <1>2 DEF Start, OpenSqlite, Reconciled
  <2>2. QED
    BY <1>1, <1>2, <2>1 DEF Start, OpenSqlite
<1>3. CASE ImportPeers /\ ImportNext
  BY <1>1, <1>3 DEF ImportPeers, ImportNext, Imported
<1>4. CASE ImportChecks /\ ImportNext
  BY <1>1, <1>4 DEF ImportChecks, ImportNext, Imported
<1>5. CASE SetMeta /\ ImportNext
  <2>1. tableCb' \in [Cb -> CbState]
    BY <1>5 DEF SetMeta, OpenSqlite, Reconciled
  <2>2. QED
    BY <1>5, <2>1 DEF SetMeta, OpenSqlite, ImportNext
<1>6. CASE ImportFails \/ StoreDies
  BY <1>6 DEF ImportFails, StoreDies
<1>7. CASE NativeChanges
  BY <1>7 DEF NativeChanges
<1>8. ASSUME NEW r \in PRow, PostRow(r)
      PROVE  StoreTypeOK'
  BY <1>8 DEF PostRow, Put
<1>9. ASSUME NEW r \in PRow, HourComes(r)
      PROVE  StoreTypeOK'
  BY <1>9 DEF HourComes
<1>10. ASSUME NEW r \in PRow, Drain(r)
       PROVE  StoreTypeOK'
  BY <1>10 DEF Drain, Put
<1>11. ASSUME NEW c \in Cb, Arm(c) \/ CancelCb(c)
       PROVE  StoreTypeOK'
  BY <1>11 DEF Arm, CancelCb, SetCb
<1>12. CASE UNCHANGED storeVars
  BY <1>12 DEF storeVars
<1>13. QED
  BY <1>2, <1>3, <1>4, <1>5, <1>6, <1>7, <1>8, <1>9, <1>10, <1>11, <1>12
  DEF StoreNext, ImportNext

(* The variables of the store keep their types.                            *)
THEOREM StoreTypes == StoreSpec => []StoreTypeOK
<1>1. ASSUME StoreInit
      PROVE  StoreTypeOK
  <2>1. file \in [PRow -> RowState] /\ table \in [PRow -> RowState]
    BY <1>1 DEF StoreInit, RowState
  <2>2. fileCb \in [Cb -> CbState] /\ tableCb \in [Cb -> CbState]
    BY <1>1 DEF StoreInit, CbState
  <2>3. native \in BOOLEAN /\ marked \in BOOLEAN
    BY <1>1, Zenon DEF StoreInit
  <2>4. /\ backend = "off" /\ due \subseteq Held /\ queued \subseteq PRow
        /\ pasted \in [PRow -> Nat] /\ breaks \in Nat /\ storeFaults \in Nat
    BY <1>1 DEF StoreInit
  <2>5. QED
    BY <2>1, <2>2, <2>3, <2>4 DEF StoreTypeOK
<1>2. QED
  BY <1>1, StoreTypeStep, PTL DEF StoreSpec

-----------------------------------------------------------------------------
(* Who owns the rows.  Until the import has set its mark, or while there   *)
(* are no files, the files do; from then on the table does, and a file is  *)
(* never opened again.  A table that an import has written while the files *)
(* still own the rows agrees with them on what is queued and what is sent. *)

Owns(rows) ==
    \A r \in PRow :
        /\ r \in queued <=> rows[r] # "none"
        /\ pasted[r] = IF rows[r] = "sent" THEN 1 ELSE 0

FileMode ==
    /\ ~marked /\ backend # "sqlite" /\ (backend \in ImportStep => native)
    /\ Owns(file)
    /\ \A r \in PRow : file[r] = "none" => table[r] = "none"
    /\ backend \in {"checks", "mark"} => Owns(table)

TableMode ==
    /\ native /\ backend \in {"off", "sqlite"}
    /\ marked \/ ~HasFiles
    /\ Owns(table)

(* The peer rows, and what goes with them, are the same.                   *)
LEMMA OwnsKept ==
    ASSUME UNCHANGED <<file, table, queued, pasted>>
    PROVE  (Owns(file) => Owns(file)') /\ (Owns(table) => Owns(table)')
BY DEF Owns

LEMMA PutOwns ==
    ASSUME StoreTypeOK, NEW r \in PRow,
           NEW rows \in [PRow -> RowState], Owns(rows), NEW new,
           \/ /\ r \notin queued /\ queued' = queued \cup {r} /\ pasted' = pasted
              /\ new = [rows EXCEPT ![r] = "pending"]
           \/ /\ rows[r] = "pending" /\ queued' = queued
              /\ pasted' = [pasted EXCEPT ![r] = @ + 1]
              /\ new = [rows EXCEPT ![r] = "sent"]
    PROVE  /\ \A s \in PRow :
                 /\ s \in queued' <=> new[s] # "none"
                 /\ pasted'[s] = IF new[s] = "sent" THEN 1 ELSE 0
           /\ \A s \in PRow : new[s] = "none" => rows[s] = "none"
BY DEF Owns, StoreTypeOK, RowState

(* A step on one row of the store that is open.                            *)
LEMMA RowSteps ==
    ASSUME StoreTypeOK, NEW r \in PRow, PostRow(r) \/ Drain(r)
    PROVE  /\ (FileMode => FileMode')
           /\ (TableMode => TableMode')
<1>1. /\ backend' = backend /\ native' = native /\ marked' = marked
      /\ fileCb' = fileCb
      /\ \/ backend = "jsonl" /\ table' = table
         \/ backend = "sqlite" /\ file' = file
  BY DEF PostRow, Drain, Put
<1>2. ASSUME FileMode
      PROVE  FileMode'
  <2>1. backend = "jsonl" /\ table' = table
    BY <1>1, <1>2 DEF FileMode
  <2>2. \/ /\ r \notin queued /\ queued' = queued \cup {r} /\ pasted' = pasted
           /\ file' = [file EXCEPT ![r] = "pending"]
        \/ /\ file[r] = "pending" /\ queued' = queued
           /\ pasted' = [pasted EXCEPT ![r] = @ + 1]
           /\ file' = [file EXCEPT ![r] = "sent"]
    BY <2>1 DEF PostRow, Drain, Put, Rows
  <2>3. /\ \A s \in PRow :
              /\ s \in queued' <=> file'[s] # "none"
              /\ pasted'[s] = IF file'[s] = "sent" THEN 1 ELSE 0
        /\ \A s \in PRow : file'[s] = "none" => file[s] = "none"
    BY <1>2, <2>2, PutOwns DEF FileMode, StoreTypeOK
  <2>4. Owns(file)'
    BY <2>3 DEF Owns
  <2>5. QED
    BY <1>1, <1>2, <2>1, <2>3, <2>4 DEF FileMode, ImportStep, Import
<1>3. ASSUME TableMode
      PROVE  TableMode'
  <2>1. backend = "sqlite" /\ file' = file
    BY <1>1, <1>3 DEF TableMode
  <2>2. \/ /\ r \notin queued /\ queued' = queued \cup {r} /\ pasted' = pasted
           /\ table' = [table EXCEPT ![r] = "pending"]
        \/ /\ table[r] = "pending" /\ queued' = queued
           /\ pasted' = [pasted EXCEPT ![r] = @ + 1]
           /\ table' = [table EXCEPT ![r] = "sent"]
    BY <2>1 DEF PostRow, Drain, Put, Rows
  <2>3. \A s \in PRow :
              /\ s \in queued' <=> table'[s] # "none"
              /\ pasted'[s] = IF table'[s] = "sent" THEN 1 ELSE 0
    BY <1>3, <2>2, PutOwns DEF TableMode, StoreTypeOK
  <2>4. Owns(table)'
    BY <2>3 DEF Owns
  <2>5. QED
    BY <1>1, <1>3, <2>1, <2>4 DEF TableMode, HasFiles
<1>4. QED
  BY <1>2, <1>3

(* The steps of the import, in the mode in which the files own the rows.   *)
LEMMA ImportSteps ==
    ASSUME StoreTypeOK, FileMode, ImportNext
    PROVE  FileMode' \/ TableMode'
<1>1. /\ UNCHANGED <<native, file, fileCb, queued, pasted>>
      /\ Owns(file) /\ Owns(file)'
  BY DEF ImportNext, FileMode, Owns
<1>2. {"peers", "checks", "mark"} = ImportStep
  BY DEF ImportStep, Import
<1>3. native /\ native'
  BY <1>1, <1>2 DEF FileMode, ImportNext, ImportPeers, ImportChecks, SetMeta
<1>4. CASE ImportPeers
  <2>1. /\ backend' = "checks" /\ marked' = marked
        /\ table' = IF \E r \in PRow : file[r] # "none" THEN file ELSE table
    BY <1>4 DEF ImportPeers, Imported, StoreTypeOK
  <2>2. CASE \E r \in PRow : file[r] # "none"
    <3>1. table' = file
      BY <2>1, <2>2
    <3>2. Owns(table)'
      BY <1>1, <3>1 DEF Owns
    <3>3. QED
      BY <1>1, <1>3, <2>1, <3>1, <3>2 DEF FileMode
  <2>3. CASE ~\E r \in PRow : file[r] # "none"
    <3>1. table' = table
      BY <2>1, <2>3
    <3>2. \A r \in PRow : table[r] = "none"
      BY <2>3 DEF FileMode
    <3>3. Owns(table)'
      BY <1>1, <2>3, <3>1, <3>2 DEF Owns
    <3>4. QED
      BY <1>1, <1>3, <2>1, <3>1, <3>3 DEF FileMode
  <2>4. QED
    BY <2>2, <2>3
<1>5. CASE ImportChecks
  <2>1. backend = "checks" /\ backend' = "mark" /\ table' = table /\ marked' = marked
    BY <1>5 DEF ImportChecks
  <2>2. Owns(table)'
    BY <1>1, <2>1 DEF FileMode, Owns
  <2>3. QED
    BY <1>1, <1>3, <2>1, <2>2 DEF FileMode
<1>6. CASE SetMeta
  <2>1. backend = "mark" /\ backend' = "sqlite" /\ table' = table /\ marked' = TRUE
    BY <1>6 DEF SetMeta, OpenSqlite
  <2>2. Owns(table)'
    BY <1>1, <2>1 DEF FileMode, Owns
  <2>3. QED
    BY <1>3, <2>1, <2>2 DEF TableMode
<1>7. QED
  BY <1>4, <1>5, <1>6 DEF ImportNext

LEMMA StoreStep ==
    ASSUME MaxBreaks = 0, StoreTypeOK, FileMode \/ TableMode, [StoreNext]_storeVars
    PROVE  FileMode' \/ TableMode'
<1>1. CASE Start
  <2>1. /\ backend = "off"
        /\ UNCHANGED <<native, file, table, fileCb, marked, queued, pasted>>
    BY <1>1 DEF Start
  <2>2. Import[1] = "peers" /\ "peers" \in ImportStep
    BY DEF Import, ImportStep
  <2>3. CASE native /\ NeedsImport
    BY <1>1, <2>1, <2>2, <2>3, OwnsKept DEF Start, OpenSqlite, NeedsImport, FileMode, TableMode
  <2>4. CASE native /\ ~NeedsImport
    <3>1. backend' = "sqlite"
      BY <1>1, <2>4 DEF Start, OpenSqlite
    <3>2. Owns(table)
      <4>1. CASE FileMode
        BY <2>4, <4>1 DEF FileMode, NeedsImport, HasFiles, Owns
      <4>2. QED
        BY <4>1 DEF TableMode
    <3>3. marked \/ ~HasFiles
      BY <2>4 DEF NeedsImport
    <3>4. Owns(table)' /\ (marked \/ ~HasFiles)'
      BY <2>1, <3>2, <3>3, OwnsKept DEF HasFiles
    <3>5. QED
      BY <2>1, <2>4, <3>1, <3>4 DEF TableMode
  <2>5. CASE ~native
    <3>1. backend' = "jsonl" /\ FileMode
      BY <1>1, <2>5 DEF Start, TableMode
    <3>2. QED
      BY <2>1, <3>1, OwnsKept DEF FileMode, ImportStep, Import
  <2>6. QED
    BY <2>3, <2>4, <2>5
<1>2. CASE ImportNext
  <2>1. backend \in {"peers", "checks", "mark"}
    BY <1>2 DEF ImportNext, ImportPeers, ImportChecks, SetMeta
  <2>2. FileMode
    BY <2>1 DEF TableMode
  <2>3. QED
    BY <1>2, <2>2, ImportSteps
<1>3. CASE ImportFails
  <2>1. /\ backend \in ImportStep /\ backend' = "jsonl"
        /\ UNCHANGED <<native, file, table, marked, queued, pasted>>
    BY <1>3 DEF ImportFails
  <2>2. FileMode
    BY <2>1 DEF TableMode, ImportStep, Import
  <2>3. QED
    BY <2>1, <2>2, OwnsKept DEF FileMode, ImportStep, Import
<1>4. CASE StoreDies
  <2>1. /\ backend' = "off"
        /\ UNCHANGED <<native, file, table, fileCb, marked, queued, pasted>>
    BY <1>4 DEF StoreDies
  <2>2. "off" \notin ImportStep
    BY DEF ImportStep, Import
  <2>3. ASSUME FileMode PROVE FileMode'
    BY <2>1, <2>2, <2>3, OwnsKept DEF FileMode
  <2>4. ASSUME TableMode PROVE TableMode'
    BY <2>1, <2>4, OwnsKept DEF TableMode, HasFiles
  <2>5. QED
    BY <2>3, <2>4
<1>5. CASE NativeChanges
  <2>1. UNCHANGED <<backend, file, table, fileCb, marked, queued, pasted>>
    BY <1>5 DEF NativeChanges
  <2>2. ~(breaks < MaxBreaks)
    BY DEF StoreTypeOK
  <2>3. ~native /\ native'
    BY <1>5, <2>2, Zenon DEF NativeChanges
  <2>4. FileMode
    BY <2>3 DEF TableMode
  <2>5. QED
    BY <2>1, <2>3, <2>4, OwnsKept DEF FileMode
<1>6. ASSUME NEW r \in PRow, PostRow(r) \/ Drain(r)
      PROVE  FileMode' \/ TableMode'
  BY <1>6, RowSteps
<1>7. ASSUME NEW r \in PRow, HourComes(r)
      PROVE  FileMode' \/ TableMode'
  <2>1. UNCHANGED <<backend, native, file, table, fileCb, marked, queued, pasted>>
    BY <1>7 DEF HourComes
  <2>2. QED
    BY <2>1, OwnsKept DEF FileMode, TableMode, HasFiles
<1>8. ASSUME NEW c \in Cb, Arm(c) \/ CancelCb(c)
      PROVE  FileMode' \/ TableMode'
  <2>1. /\ UNCHANGED <<backend, native, file, table, marked, queued, pasted>>
        /\ backend = "jsonl" \/ (backend = "sqlite" /\ fileCb' = fileCb)
    BY <1>8 DEF Arm, CancelCb, SetCb
  <2>2. ASSUME FileMode PROVE FileMode'
    BY <2>1, <2>2, OwnsKept DEF FileMode
  <2>3. ASSUME TableMode PROVE TableMode'
    BY <2>1, <2>3, OwnsKept DEF TableMode, HasFiles
  <2>4. QED
    BY <2>2, <2>3
<1>9. CASE UNCHANGED storeVars
  BY <1>9, OwnsKept DEF storeVars, FileMode, TableMode, HasFiles
<1>10. QED
  BY <1>1, <1>2, <1>3, <1>4, <1>5, <1>6, <1>7, <1>8, <1>9 DEF StoreNext

LEMMA StoreModes ==
    ASSUME MaxBreaks = 0
    PROVE  StoreSpec => [](FileMode \/ TableMode)
<1>1. StoreInit => FileMode
  BY DEF StoreInit, FileMode, Owns, ImportStep, Import
<1>2. StoreTypeOK /\ (FileMode \/ TableMode) /\ [StoreNext]_storeVars
         => FileMode' \/ TableMode'
  BY StoreStep
<1>3. QED
  BY <1>1, <1>2, StoreTypes, PTL DEF StoreSpec

(* While better-sqlite3 keeps loading once it does, every row a sender was *)
(* told is queued is in the store that is open.                            *)
THEOREM PostedRowsAreKept ==
    ASSUME MaxBreaks = 0
    PROVE  StoreSpec => []PostedKept
<1>1. StoreTypeOK /\ (FileMode \/ TableMode) => PostedKept
  BY DEF StoreTypeOK, FileMode, TableMode, Owns, PostedKept, Rows
<1>2. QED
  BY <1>1, StoreModes, StoreTypes, PTL

(* And none of them is pasted twice on the way from the files to SQLite.   *)
THEOREM ImportPastesOnce ==
    ASSUME MaxBreaks = 0
    PROVE  StoreSpec => []StorePastesOnce
<1>1. FileMode \/ TableMode => StorePastesOnce
  BY DEF FileMode, TableMode, Owns, StorePastesOnce
<1>2. QED
  BY <1>1, StoreModes, PTL

-----------------------------------------------------------------------------
(* The terminal pool.                                                      *)

(* The jobs that Kick starts and those that it cannot start: pending ones, *)
(* apart, each start at a worker of its own.                               *)
Kicked(state, take, unfit) ==
    LET run == {take[w] : w \in Idle} \ {NoJob}
    IN  /\ take \in [Idle -> Job \cup {NoJob}] /\ unfit \in SUBSET Job
        /\ \A j \in run \cup unfit : state[j] = "pending"
        /\ run \cap unfit = {}
        /\ \A v, w \in Idle : take[v] = take[w] /\ take[w] # NoJob => v = w
        /\ jobFile' = [j \in Job |-> IF j \in run THEN "running"
                                     ELSE IF j \in unfit THEN "failed" ELSE state[j]]
        /\ held' = [w \in Worker |-> IF w \in Idle THEN take[w] ELSE held[w]]
        /\ pty' = [j \in Job |-> IF j \in run THEN "live" ELSE pty[j]]
        /\ starts' = [j \in Job |-> IF j \in run THEN starts[j] + 1 ELSE starts[j]]
        /\ reports' = [j \in Job |-> IF j \in unfit THEN reports[j] + 1 ELSE reports[j]]

(* Kick is such a start.                                                   *)
LEMMA KickedJobs ==
    ASSUME PoolAssumption, NEW state, NEW order \in [Job -> Nat], Kick(state, order)
    PROVE  \E take, unfit : Kicked(state, take, unfit)
<1>1. PICK take \in [Idle -> Job \cup {NoJob}], unfit \in SUBSET Job :
        LET queue == {j \in Job : state[j] = "pending"}
            run == {take[w] : w \in Idle} \ {NoJob}
            full == \A w \in Idle : take[w] # NoJob
        IN  /\ run \subseteq queue /\ unfit \subseteq queue \ run
            /\ \A v, w \in Idle :
                  v < w /\ take[w] # NoJob =>
                      take[v] # NoJob /\ order[take[v]] < order[take[w]]
            /\ \A j \in queue \ (run \cup unfit) :
                  full /\ \A i \in run \cup unfit : order[i] < order[j]
            /\ full => \A i \in unfit : \E j \in run : order[i] < order[j]
            /\ jobFile' = [j \in Job |-> IF j \in run THEN "running"
                                         ELSE IF j \in unfit THEN "failed" ELSE state[j]]
            /\ held' = [w \in Worker |-> IF w \in Idle THEN take[w] ELSE held[w]]
            /\ pty' = [j \in Job |-> IF j \in run THEN "live" ELSE pty[j]]
            /\ starts' = [j \in Job |-> IF j \in run THEN starts[j] + 1 ELSE starts[j]]
            /\ reports' = [j \in Job |-> IF j \in unfit THEN reports[j] + 1 ELSE reports[j]]
  BY Zenon DEF Kick
<1>2. ASSUME NEW v \in Idle, NEW w \in Idle, take[v] = take[w], take[w] # NoJob
      PROVE  v = w
  <2>1. take[w] \in Job /\ order[take[w]] \in Nat
    BY <1>2
  <2>2. v \in Nat /\ w \in Nat
    BY PoolAssumption DEF Idle, Worker, PoolAssumption
  <2>3. ~(v < w) /\ ~(w < v)
    <3>1. ~(order[take[w]] < order[take[w]])
      BY <2>1
    <3>2. QED
      BY <1>1, <1>2, <3>1
  <2>4. QED
    BY <2>2, <2>3
<1>3. Kicked(state, take, unfit)
  BY <1>1, <1>2 DEF Kicked
<1>4. QED
  BY <1>3

(* A kick keeps the types of what it writes.                               *)
LEMMA KickTypes ==
    ASSUME TpTypeOK, NEW state \in [Job -> JobStatus], NEW take, NEW unfit,
           Kicked(state, take, unfit)
    PROVE  /\ jobFile' \in [Job -> JobStatus]
           /\ held' \in [Worker -> Job \cup {NoJob}]
           /\ pty' \in [Job -> {"none", "live", "ended", "gone"}]
           /\ starts' \in [Job -> Nat] /\ reports' \in [Job -> Nat]
  BY DEF TpTypeOK, JobStatus, Idle, Kicked

(* A new row gets the next line of the file.                               *)
LEMMA OrderKept ==
    ASSUME PoolAssumption, TpTypeOK, NEW j \in Job
    PROVE  [jobOrder EXCEPT ![j] = Cardinality({i \in Job : jobFile[i] # "none"}) + 1]
              \in [Job -> Nat]
<1> DEFINE rows == {i \in Job : jobFile[i] # "none"}
<1>1. IsFiniteSet(rows)
  BY FS_Subset, rows \subseteq Job DEF PoolAssumption
<1>2. Cardinality(rows) \in Nat
  BY <1>1, FS_CardinalityType
<1>3. QED
  BY <1>2 DEF TpTypeOK

(* Every step of the pool keeps the types.                                 *)
LEMMA TpTypeStep ==
    ASSUME PoolAssumption, TpTypeOK, [TpNext]_tpvars
    PROVE  TpTypeOK'
<1>1. ASSUME NEW j \in Job, Enqueue(j) PROVE TpTypeOK'
  <2> DEFINE order == [jobOrder EXCEPT ![j] = Cardinality({i \in Job : jobFile[i] # "none"}) + 1]
             state == [jobFile EXCEPT ![j] = "pending"]
  <2>1. jobOrder' = order /\ Kick(state, order) /\ UNCHANGED <<attached, timedOut, sock, poolFaults>>
    BY <1>1, Zenon DEF Enqueue
  <2>2. order \in [Job -> Nat]
    BY OrderKept
  <2>3. state \in [Job -> JobStatus]
    BY DEF TpTypeOK, JobStatus
  <2> HIDE DEF order, state
  <2>4. PICK take, unfit : Kicked(state, take, unfit)
    BY <2>1, <2>2, KickedJobs
  <2>5. QED
    BY <2>1, <2>2, <2>3, <2>4, KickTypes DEF TpTypeOK
<1>2. ASSUME DrainPool PROVE TpTypeOK'
  <2>1. PICK take, unfit : Kicked(jobFile, take, unfit)
    BY <1>2, KickedJobs DEF DrainPool, TpTypeOK
  <2>2. QED
    BY <1>2, <2>1, KickTypes DEF DrainPool, TpTypeOK
<1>3. ASSUME NEW w \in Worker, NEW status \in {"done", "failed"}, held[w] \in Job, Finalize(w, status),
             UNCHANGED <<jobOrder, poolFaults>>,
             pty' \in [Job -> {"none", "live", "ended", "gone"}], timedOut' \subseteq Job,
             starts' = starts
      PROVE  TpTypeOK'
  BY <1>3 DEF TpTypeOK, JobStatus, Finalize, Hangup, Freed
<1>4. ASSUME NEW j \in Job, TpJobStep(j), ~Enqueue(j) PROVE TpTypeOK'
  <2>1. CASE ProcessEnds(j)
    BY <2>1 DEF ProcessEnds, TpTypeOK, pool, jobHistory
  <2>2. CASE OnExit(j)
    <3>1. pty' \in [Job -> {"none", "live", "ended", "gone"}] /\ timedOut' \subseteq Job
      BY <2>2 DEF OnExit, TpTypeOK
    <3>2. CASE Holder(j) = {}
      BY <2>2, <3>1, <3>2 DEF OnExit, TpTypeOK, pool
    <3>3. CASE Holder(j) # {}
      BY <2>2, <3>1, <3>3, <1>3 DEF OnExit, Holder
    <3>4. QED
      BY <3>2, <3>3
  <2>3. CASE OnTimeout(j)
    <3>1. pty' \in [Job -> {"none", "live", "ended", "gone"}] /\ timedOut' \subseteq Job
      BY <2>3 DEF OnTimeout, TpTypeOK
    <3>2. QED
      BY <2>3, <3>1, <1>3 DEF OnTimeout, Holder
  <2>4. CASE Cancel(j)
    BY <2>4 DEF Cancel, TpTypeOK, pool, jobHistory, JobStatus
  <2>5. QED
    BY <1>4, <2>1, <2>2, <2>3, <2>4 DEF TpJobStep
<1>5. ASSUME NEW c \in Client, TpSocketStep(c) PROVE TpTypeOK'
  <2>1. ASSUME NEW w \in Worker, Attach(c, w) PROVE TpTypeOK'
    BY <2>1 DEF Attach, TpTypeOK, jobHistory
  <2>2. CASE OnSocketError(c)
    BY <2>2 DEF OnSocketError, Cleanup, TpTypeOK, jobHistory
  <2>3. CASE OnSocketClose(c)
    BY <2>3 DEF OnSocketClose, Cleanup, TpTypeOK, jobHistory
  <2>4. QED
    BY <1>5, <2>1, <2>2, <2>3 DEF TpSocketStep
<1>6. CASE CrashPool
  <2>1. 1 \in Worker
    BY DEF PoolAssumption, Worker
  <2>2. QED
    BY <1>6, <2>1 DEF CrashPool, AfterCrash, TpTypeOK, jobHistory, PoolAssumption
<1>7. CASE UNCHANGED tpvars
  BY <1>7 DEF tpvars, pool, jobHistory, TpTypeOK
<1>8. QED
  BY <1>1, <1>2, <1>4, <1>5, <1>6, <1>7 DEF TpNext

(* The pool starts well typed.                                             *)
LEMMA TpInitType == ASSUME PoolAssumption, TpInit PROVE TpTypeOK
<1>1. 1 \in Worker
  BY DEF PoolAssumption, Worker
<1>2. QED
  BY <1>1 DEF TpInit, TpTypeOK, JobStatus, PoolAssumption

(* The file of jobs, the workers, the processes and the sockets keep their *)
(* types.                                                                  *)
THEOREM PoolTypes == TpSpec => []TpTypeOK
  BY PoolAssumption, TpInitType, TpTypeStep, PTL DEF TpSpec

(* What makes JobsOnce inductive: a job that waits or is not yet there was *)
(* neither started nor reported; a live process has a worker until its     *)
(* time is up; what a worker holds has a process and was not reported, and *)
(* no other holds it.                                                      *)
JobInv ==
    \A j \in Job :
        /\ jobFile[j] \in {"none", "pending"} => pty[j] = "none" /\ reports[j] = 0
        /\ pty[j] = "none" => starts[j] = 0
        /\ starts[j] <= 1 /\ reports[j] <= 1
        /\ pty[j] = "live" /\ j \notin timedOut => \E w \in Worker : held[w] = j
        /\ \A w \in Worker : held[w] = j =>
              /\ pty[j] \in {"live", "ended"} /\ reports[j] = 0
              /\ \A v \in Worker : held[v] = j => v = w

(* A kick starts jobs that never ran, each at one worker.                  *)
LEMMA KickInv ==
    ASSUME PoolAssumption, TpTypeOK, JobInv, NEW state, NEW take, NEW unfit,
           Kicked(state, take, unfit), timedOut' = timedOut,
           \A j \in Job : state[j] = jobFile[j] \/ (jobFile[j] = "none" /\ state[j] = "pending")
    PROVE  JobInv'
<1> DEFINE run == {take[w] : w \in Idle} \ {NoJob}
<1>1. run \subseteq Job /\ unfit \subseteq Job
  BY DEF Kicked
<1>2. ASSUME NEW j \in Job, j \in run \cup unfit
      PROVE  pty[j] = "none" /\ reports[j] = 0 /\ starts[j] = 0 /\ \A w \in Worker : held[w] # j
  BY <1>2 DEF Kicked, JobInv
<1>3. \A w \in Worker : held'[w] = IF w \in Idle THEN take[w] ELSE held[w]
  BY DEF Kicked
<1>4. \A v, w \in Idle : take[v] = take[w] /\ take[w] # NoJob => v = w
  BY DEF Kicked
<1>5. \A w \in Idle : take[w] # NoJob => take[w] \in run
  OBVIOUS
<1>6. \A j \in run : \E w \in Worker : held'[w] = j
  BY <1>3 DEF Idle
<1>7. ASSUME NEW j \in Job
      PROVE  /\ jobFile'[j] = IF j \in run THEN "running" ELSE IF j \in unfit THEN "failed" ELSE state[j]
             /\ pty'[j] = IF j \in run THEN "live" ELSE pty[j]
             /\ starts'[j] = IF j \in run THEN starts[j] + 1 ELSE starts[j]
             /\ reports'[j] = IF j \in unfit THEN reports[j] + 1 ELSE reports[j]
             /\ ~(j \in run /\ j \in unfit)
  BY DEF Kicked
<1>8. NoJob \notin Job
  BY DEF PoolAssumption
<1> HIDE DEF run
<1>9. ASSUME NEW j \in Job
      PROVE  /\ jobFile'[j] \in {"none", "pending"} => pty'[j] = "none" /\ reports'[j] = 0
             /\ pty'[j] = "none" => starts'[j] = 0
             /\ starts'[j] <= 1 /\ reports'[j] <= 1
  BY <1>2, <1>7 DEF JobInv, TpTypeOK
<1>10. ASSUME NEW j \in Job, pty'[j] = "live", j \notin timedOut'
       PROVE  \E w \in Worker : held'[w] = j
  <2>1. CASE j \in run
    BY <2>1, <1>6
  <2>2. CASE j \notin run
    BY <2>2, <1>3, <1>7, <1>8, <1>10 DEF JobInv, Idle
  <2>3. QED
    BY <2>1, <2>2
<1>11. ASSUME NEW j \in Job, NEW w \in Worker, held'[w] = j
       PROVE  /\ pty'[j] \in {"live", "ended"} /\ reports'[j] = 0
              /\ \A v \in Worker : held'[v] = j => v = w
  <2>1. CASE w \in Idle
    <3>1. j \in run /\ take[w] = j /\ j # NoJob
      BY <2>1, <1>3, <1>5, <1>8, <1>11
    <3>2. \A v \in Worker : held'[v] = j => v \in Idle /\ take[v] = j
      BY <3>1, <1>1, <1>2, <1>3
    <3>3. QED
      BY <2>1, <3>1, <3>2, <1>2, <1>4, <1>7
  <2>2. CASE w \notin Idle
    <3>1. held[w] = j /\ j \notin run /\ j \notin unfit
      BY <2>2, <1>1, <1>2, <1>3, <1>11
    <3>2. \A v \in Worker : held'[v] = j => held[v] = j
      BY <3>1, <1>3, <1>5, <1>8
    <3>3. QED
      BY <3>1, <3>2, <1>7 DEF JobInv
  <2>3. QED
    BY <2>1, <2>2
<1>12. QED
  BY <1>9, <1>10, <1>11 DEF JobInv

(* Every step of the pool keeps JobInv.                                    *)
LEMMA JobStep ==
    ASSUME PoolAssumption, TpTypeOK, JobInv, [TpNext]_tpvars
    PROVE  JobInv'
<1>1. ASSUME NEW j \in Job, Enqueue(j) PROVE JobInv'
  <2> DEFINE order == [jobOrder EXCEPT ![j] = Cardinality({i \in Job : jobFile[i] # "none"}) + 1]
             state == [jobFile EXCEPT ![j] = "pending"]
  <2>1. Kick(state, order) /\ jobFile[j] = "none" /\ timedOut' = timedOut
    BY <1>1, Zenon DEF Enqueue
  <2>2. order \in [Job -> Nat]
    BY OrderKept
  <2>3. \A i \in Job : state[i] = jobFile[i] \/ (jobFile[i] = "none" /\ state[i] = "pending")
    BY <2>1 DEF TpTypeOK
  <2> HIDE DEF order, state
  <2>4. PICK take, unfit : Kicked(state, take, unfit)
    BY <2>1, <2>2, KickedJobs
  <2>5. QED
    BY <2>1, <2>3, <2>4, KickInv
<1>2. ASSUME DrainPool PROVE JobInv'
  <2>1. PICK take, unfit : Kicked(jobFile, take, unfit)
    BY <1>2, KickedJobs DEF DrainPool, TpTypeOK
  <2>2. QED
    BY <1>2, <2>1, KickInv DEF DrainPool
<1>3. ASSUME NEW j \in Job, NEW w \in Worker, NEW status \in {"done", "failed"},
             NEW exit \in {"live", "ended", "gone"}, held[w] = j, Finalize(w, status),
             pty' = [pty EXCEPT ![j] = exit], starts' = starts,
             timedOut \subseteq timedOut', exit = "live" => j \in timedOut'
      PROVE  JobInv'
  <2>1. \A i \in Job : /\ jobFile'[i] = IF i = j THEN status ELSE jobFile[i]
                       /\ reports'[i] = IF i = j THEN reports[i] + 1 ELSE reports[i]
                       /\ pty'[i] = IF i = j THEN exit ELSE pty[i]
    BY <1>3 DEF Finalize, TpTypeOK
  <2>2. \A v \in Worker : held'[v] = IF v = w THEN NoJob ELSE held[v]
    BY <1>3 DEF Finalize, Freed, TpTypeOK
  <2>3. NoJob \notin Job
    BY DEF PoolAssumption
  <2>4. \A v \in Worker : held'[v] # j
    BY <1>3, <2>2, <2>3 DEF JobInv
  <2>5. QED
    BY <1>3, <2>1, <2>2, <2>3, <2>4 DEF JobInv, TpTypeOK
<1>4. ASSUME NEW j \in Job, TpJobStep(j), ~Enqueue(j) PROVE JobInv'
  <2>1. CASE ProcessEnds(j)
    BY <2>1 DEF ProcessEnds, JobInv, TpTypeOK, pool, jobHistory
  <2>2. CASE OnExit(j)
    <3>1. CASE Holder(j) = {}
      BY <2>2, <3>1 DEF OnExit, Holder, JobInv, TpTypeOK, pool
    <3>2. CASE Holder(j) # {}
      BY <2>2, <3>2, <1>3 DEF OnExit, Holder
    <3>3. QED
      BY <3>1, <3>2
  <2>3. CASE OnTimeout(j)
    <3>1. PICK w \in Worker : held[w] = j /\ Finalize(w, "failed")
      BY <2>3 DEF OnTimeout, Holder
    <3>2. pty' = [pty EXCEPT ![j] = pty[j]] /\ pty[j] \in {"live", "ended"}
      BY <2>3 DEF OnTimeout, TpTypeOK
    <3>3. starts' = starts /\ timedOut \subseteq timedOut' /\ j \in timedOut'
      BY <2>3 DEF OnTimeout
    <3>4. QED
      BY <3>1, <3>2, <3>3, <1>3
  <2>4. CASE Cancel(j)
    BY <2>4 DEF Cancel, JobInv, TpTypeOK, pool, jobHistory
  <2>5. QED
    BY <1>4, <2>1, <2>2, <2>3, <2>4 DEF TpJobStep
<1>5. ASSUME NEW c \in Client, TpSocketStep(c) PROVE JobInv'
  BY <1>5 DEF TpSocketStep, Attach, OnSocketError, OnSocketClose, JobInv,
               jobHistory
<1>6. CASE CrashPool
  BY <1>6 DEF CrashPool, AfterCrash, JobInv, TpTypeOK, jobHistory, PoolAssumption
<1>7. CASE UNCHANGED tpvars
  BY <1>7 DEF tpvars, pool, jobHistory, JobInv
<1>8. QED
  BY <1>1, <1>2, <1>4, <1>5, <1>6, <1>7 DEF TpNext

(* A job is spawned and reported at most once; while its process may still *)
(* run, only its time-out reports it (kickTerminalPool, finalizeJob, the   *)
(* timer and onExit of startJob).                                          *)
THEOREM JobsRunOnce == TpSpec => []JobsOnce
<1>1. TpInit => JobInv
  BY PoolAssumption DEF TpInit, JobInv, PoolAssumption
<1>2. TpTypeOK /\ JobInv /\ [TpNext]_tpvars => JobInv'
  BY PoolAssumption, JobStep
<1>3. TpTypeOK /\ JobInv => JobsOnce
  BY DEF JobInv, JobsOnce, TpTypeOK
<1>4. QED
  BY PoolTypes, <1>1, <1>2, <1>3, PTL DEF TpSpec

-----------------------------------------------------------------------------
(* The pool and the contract of a queue of jobs.                            *)

(* The stages of the jobs, and the counts, have their types after a step.   *)
LEMMA StageKept ==
    ASSUME TpTypeOK'
    PROVE  /\ [j \in Job |-> PoolStage[jobFile'[j]]] \in [Job -> {"none", "waiting", "running", "over"}]
           /\ starts' \in [Job -> Nat]
<1>1. \A s \in JobStatus : PoolStage[s] \in {"none", "waiting", "running", "over"}
  BY DEF JobStatus, PoolStage
<1>2. QED
  BY <1>1 DEF TpTypeOK

(* A job that was started by a kick had not been started before.            *)
LEMMA KickGoes ==
    ASSUME PoolAssumption, TpTypeOK, TpTypeOK', JobInv, NEW state, NEW take, NEW unfit,
           Kicked(state, take, unfit),
           \A j \in Job : state[j] = jobFile[j] \/ (jobFile[j] = "none" /\ state[j] = "pending")
    PROVE  Jobs!Step
<1> DEFINE run == {take[w] : w \in Idle} \ {NoJob}
<1>1. ASSUME NEW j \in Job
      PROVE  /\ jobFile'[j] = IF j \in run THEN "running" ELSE IF j \in unfit THEN "failed" ELSE state[j]
             /\ starts'[j] = IF j \in run THEN starts[j] + 1 ELSE starts[j]
             /\ j \in run \cup unfit => state[j] = "pending" /\ jobFile[j] \in {"none", "pending"}
  BY DEF Kicked
<1> HIDE DEF run
<1>2. ASSUME NEW j \in Job
      PROVE  Jobs!Begins(j) \/ Jobs!Goes(j)
  <2>1. /\ jobFile[j] \in JobStatus /\ jobFile'[j] \in JobStatus
        /\ starts[j] \in Nat /\ starts'[j] \in Nat
    BY DEF TpTypeOK
  <2>2. CASE j \in run
    <3>1. starts[j] = 0 /\ starts'[j] = 1
      BY <1>1, <2>1, <2>2 DEF JobInv
    <3>2. QED
      BY <1>1, <2>2, <3>1 DEF Jobs!Begins, PoolStage
  <2>3. CASE j \notin run
    BY <1>1, <2>1, <2>3 DEF Jobs!Goes, PoolStage, JobStatus
  <2>4. QED
    BY <2>2, <2>3
<1>3. QED
  BY <1>2, StageKept DEF Jobs!Step

(* A step that starts nothing, and puts no row back in the queue.           *)
LEMMA RowGoes ==
    ASSUME TpTypeOK, TpTypeOK', starts' = starts,
           \A j \in Job : jobFile'[j] = jobFile[j] \/ jobFile'[j] \in {"done", "failed"}
    PROVE  Jobs!Step
<1>1. ASSUME NEW j \in Job
      PROVE  Jobs!Goes(j)
  <2>1. jobFile[j] \in JobStatus /\ jobFile'[j] \in JobStatus
    BY DEF TpTypeOK
  <2>2. QED
    BY <2>1 DEF Jobs!Goes, PoolStage, JobStatus
<1>2. QED
  BY <1>1, StageKept DEF Jobs!Step

LEMMA PoolGoes ==
    ASSUME PoolAssumption, TpTypeOK, TpTypeOK', JobInv, [TpNext]_tpvars
    PROVE  Jobs!Step
<1>1. ASSUME NEW j \in Job, Enqueue(j) PROVE Jobs!Step
  <2> DEFINE order == [jobOrder EXCEPT ![j] = Cardinality({i \in Job : jobFile[i] # "none"}) + 1]
             state == [jobFile EXCEPT ![j] = "pending"]
  <2>1. Kick(state, order) /\ jobFile[j] = "none"
    BY <1>1, Zenon DEF Enqueue
  <2>2. order \in [Job -> Nat]
    BY OrderKept
  <2>3. \A i \in Job : state[i] = jobFile[i] \/ (jobFile[i] = "none" /\ state[i] = "pending")
    BY <2>1 DEF TpTypeOK
  <2> HIDE DEF order, state
  <2>4. PICK take, unfit : Kicked(state, take, unfit)
    BY <2>1, <2>2, KickedJobs
  <2>5. QED
    BY <2>3, <2>4, KickGoes
<1>2. ASSUME DrainPool PROVE Jobs!Step
  <2>1. PICK take, unfit : Kicked(jobFile, take, unfit)
    BY <1>2, KickedJobs DEF DrainPool, TpTypeOK
  <2>2. QED
    BY <2>1, KickGoes
<1>3. ASSUME NEW j \in Job, TpJobStep(j), ~Enqueue(j) PROVE Jobs!Step
  <2>1. CASE ProcessEnds(j)
    BY <2>1, RowGoes DEF ProcessEnds, jobHistory
  <2>2. CASE OnExit(j)
    <3>1. starts' = starts /\ \A i \in Job : jobFile'[i] = jobFile[i] \/ jobFile'[i] \in {"done", "failed"}
      BY <2>2 DEF OnExit, Finalize, TpTypeOK
    <3>2. QED
      BY <3>1, RowGoes
  <2>3. CASE OnTimeout(j)
    <3>1. starts' = starts /\ \A i \in Job : jobFile'[i] = jobFile[i] \/ jobFile'[i] \in {"done", "failed"}
      BY <2>3 DEF OnTimeout, Finalize, TpTypeOK
    <3>2. QED
      BY <3>1, RowGoes
  <2>4. CASE Cancel(j)
    BY <2>4, RowGoes DEF Cancel, TpTypeOK, jobHistory
  <2>5. QED
    BY <1>3, <2>1, <2>2, <2>3, <2>4 DEF TpJobStep
<1>4. ASSUME NEW c \in Client, TpSocketStep(c) PROVE Jobs!Step
  BY <1>4, RowGoes DEF TpSocketStep, Attach, OnSocketError, OnSocketClose, jobHistory
<1>5. CASE CrashPool
  BY <1>5, RowGoes DEF CrashPool, AfterCrash, jobHistory
<1>6. CASE UNCHANGED tpvars
  BY <1>6, RowGoes DEF tpvars, pool, jobHistory
<1>7. QED
  BY <1>1, <1>2, <1>3, <1>4, <1>5, <1>6 DEF TpNext

(* The terminal pool keeps the contract of a queue of jobs: a job is begun  *)
(* once and what is over stays over, however cancel, timeout, exit and      *)
(* crashes of the daemon follow one another (kickTerminalPool, finalizeJob).*)
THEOREM PoolKeepsContract == TpSpec => KeepsJobContract
<1>1. TpInit => JobInv
  BY PoolAssumption DEF TpInit, JobInv, PoolAssumption
<1>2. TpTypeOK /\ JobInv /\ [TpNext]_tpvars => JobInv'
  BY PoolAssumption, JobStep
<1>3. TpTypeOK /\ TpTypeOK' /\ JobInv /\ [TpNext]_tpvars => [Jobs!Next]_(Jobs!vars)
  BY PoolAssumption, PoolGoes DEF Jobs!Next
<1>4. TpInit => Jobs!Init
  BY DEF TpInit, Jobs!Init, PoolStage
<1>5. QED
  BY PoolTypes, <1>1, <1>2, <1>3, <1>4, PTL DEF TpSpec, KeepsJobContract, Jobs!Spec
=============================================================================
