----------------------------- MODULE NotifyActs -----------------------------
(* The one-shot links of operator notifications: the registry in the        *)
(* daemon's memory, its copy in the file of act cards, the ledger of        *)
(* notifications, and the handler that runs what a link stands for.         *)
EXTENDS Integers, FiniteSets

CONSTANTS
    Note,          \* registrations, one notification each
    Carded,        \* those registered with a card
    Token, NoteOf, \* the links, and the registration each belongs to
    Decide,        \* links that mail an [operator-decide] answer
    NoToken, NoCard, Absent,
    MaxActFaults   \* bound on failed writes and deaths of the daemon

ASSUME ActAssumption ==
    /\ NoteOf \in [Token -> Note]
    /\ Carded \subseteq Note /\ Decide \subseteq Token
    /\ NoToken \notin Token /\ NoCard \notin Note /\ Absent \notin Note \cup {NoCard}
    /\ MaxActFaults \in Nat

VARIABLES
    mem,        \* the registry: the card each link is stamped with, or Absent
    disk,       \* the same in ACT-CARDS, as it was saved last
    notes,      \* the ledger of notifications
    handling,   \* the link whose handler runs; no other handler does
    executed,   \* history: how often a link was acted on
    registered, expired,
    saved,      \* history: links that were in the file once
    actFaults

actvars == <<mem, disk, notes, handling, executed, registered, expired, saved, actFaults>>

Stamp == Note \cup {NoCard, Absent}

ActTypeOK ==
    /\ mem \in [Token -> Stamp] /\ disk \in [Token -> Stamp]
    /\ notes \in [Note -> {"none", "sent", "acted"}]
    /\ handling \in Token \cup {NoToken}
    /\ handling # NoToken => mem[handling] = Absent
    /\ executed \in [Token -> Nat]
    /\ registered \subseteq Note /\ expired \subseteq Note
    /\ saved \subseteq Token
    /\ actFaults \in 0..MaxActFaults

ActInit ==
    /\ mem = [t \in Token |-> Absent] /\ disk = [t \in Token |-> Absent]
    /\ notes = [n \in Note |-> "none"]
    /\ handling = NoToken
    /\ executed = [t \in Token |-> 0]
    /\ registered = {} /\ expired = {} /\ saved = {}
    /\ actFaults = 0

Live(reg) == {t \in Token : reg[t] # Absent}

-----------------------------------------------------------------------------
(* Mutated form: only the links of notifications nobody has answered yet.   *)
Unanswered(reg) == [t \in Token |-> IF notes[NoteOf[t]] = "acted" THEN Absent ELSE reg[t]]

(* Mutated form: links are added to the file and never taken out.           *)
Appended(reg) == [t \in Token |-> IF reg[t] = Absent THEN disk[t] ELSE reg[t]]

(* saveActRegistry: the file becomes a copy of the registry.  A write that  *)
(* throws is logged and leaves the file behind.                             *)
SavedAs(reg) == reg

Save(reg) ==
    /\ disk' = SavedAs(reg)
    /\ saved' = saved \cup Live(reg)
    /\ UNCHANGED actFaults

Lost ==
    /\ actFaults < MaxActFaults
    /\ actFaults' = actFaults + 1
    /\ UNCHANGED <<disk, saved>>

(* annotatePeerMsgsWithCard: every answer in the registry that has no card  *)
(* yet, of this registration or not.                                        *)
Stamped(reg, n) ==
    [t \in Token |-> IF n \in Carded /\ t \in Decide /\ reg[t] = NoCard THEN n ELSE reg[t]]

(* POST /act/register: the registry, then the ledger, then the file.        *)
Register(n) ==
    LET fresh == [t \in Token |-> IF NoteOf[t] = n THEN NoCard ELSE mem[t]]
        reg == Stamped(fresh, n)
    IN  /\ n \notin registered /\ handling = NoToken
        /\ registered' = registered \cup {n}
        /\ mem' = reg
        /\ \/ notes' = [notes EXCEPT ![n] = "sent"] /\ (Save(reg) \/ Lost)
           \/ notes' = notes /\ Lost
        /\ UNCHANGED <<handling, executed, expired>>

-----------------------------------------------------------------------------
(* GET /act/v1/<token>: take and executeNotifyAct.  A command of a run link *)
(* may keep the daemon for two minutes.                                     *)

Taken(t) == [mem EXCEPT ![t] = Absent]

Begin(t) ==
    /\ handling = NoToken /\ mem[t] # Absent
    /\ handling' = t
    /\ mem' = Taken(t)
    /\ executed' = [executed EXCEPT ![t] = @ + 1]
    /\ UNCHANGED <<disk, notes, registered, expired, saved, actFaults>>

(* Mutated form: it finds it by its card.                                   *)
MarkedByCard(n) ==
    IF notes[n] = "sent" /\ n \in Carded THEN [notes EXCEPT ![n] = "acted"] ELSE notes

(* markNotificationActed finds the notification by its link.                *)
Marked(n) == IF notes[n] = "sent" THEN [notes EXCEPT ![n] = "acted"] ELSE notes

(* Then the answer is recorded and the file written; an exception in the    *)
(* execution or in a write skips the rest.                                  *)
End ==
    /\ handling # NoToken
    /\ handling' = NoToken
    /\ \/ notes' = Marked(NoteOf[handling]) /\ (Save(mem) \/ Lost)
       \/ notes' = notes /\ Lost
    /\ UNCHANGED <<mem, executed, registered, expired>>

-----------------------------------------------------------------------------
(* hydrate: what the file has is put back, over what the registry has.      *)
Hydrated(reg) == [t \in Token |-> IF disk[t] # Absent THEN disk[t] ELSE reg[t]]

(* POST /repair.                                                            *)
Repair ==
    /\ handling = NoToken
    /\ mem' = Hydrated(mem)
    /\ UNCHANGED <<disk, notes, handling, executed, registered, expired, saved, actFaults>>

(* The links of a registration run out: neither pruneExpired nor a restore  *)
(* keeps them.                                                              *)
Expire(n) ==
    /\ n \in registered \ expired
    /\ expired' = expired \cup {n}
    /\ mem' = [t \in Token |-> IF NoteOf[t] = n THEN Absent ELSE mem[t]]
    /\ disk' = [t \in Token |-> IF NoteOf[t] = n THEN Absent ELSE disk[t]]
    /\ UNCHANGED <<notes, handling, executed, registered, saved, actFaults>>

(* The daemon dies, in a handler or between two, and starts again.          *)
CrashActs ==
    /\ actFaults < MaxActFaults
    /\ actFaults' = actFaults + 1
    /\ mem' = Hydrated([t \in Token |-> Absent])
    /\ handling' = NoToken
    /\ UNCHANGED <<disk, notes, executed, registered, expired, saved>>

-----------------------------------------------------------------------------
ActNext ==
    \/ \E n \in Note : Register(n) \/ Expire(n)
    \/ \E t \in Token : Begin(t)
    \/ End \/ Repair \/ CrashActs

ActSpec == ActInit /\ [][ActNext]_actvars
-----------------------------------------------------------------------------
(* Properties.                                                              *)

(* A link is one-shot: it is acted on once, and once more for each failed   *)
(* write or death, repairs and restarts included.                           *)
OneShot == \A t \in Token : executed[t] <= 1 + actFaults

(* A link that reached the file works until it is used or runs out, through *)
(* restarts, repairs and the answers to its siblings.                       *)
LinksSurvive ==
    \A t \in saved : executed[t] = 0 /\ NoteOf[t] \notin expired => mem[t] # Absent

(* Short of failures the ledger shows a notification as answered when, and  *)
(* only when, one of its links was acted on.                                *)
AnswerOnRecord ==
    handling = NoToken /\ actFaults = 0 =>
        \A n \in Note : notes[n] = "acted" <=> \E t \in Token : NoteOf[t] = n /\ executed[t] > 0

(* An answer names the card it was given on, whatever is registered after.  *)
OwnCard == \A t \in Token : NoteOf[t] \in Carded => mem[t] \in {NoteOf[t], NoCard, Absent}
=============================================================================
