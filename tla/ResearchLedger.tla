--------------------------- MODULE ResearchLedger ---------------------------
(***************************************************************************)
(* The journal of a protected research installation: ResearchLedger         *)
(* (research/ledger.py), an append-only file of events and the separately    *)
(* durable head that commits to a prefix of it, and guard_dataset, which     *)
(* every reader of a dataset asks.                                          *)
(*                                                                         *)
(* One owner at a time holds the lock of the journal; another is refused,    *)
(* which changes nothing.  An event's place stands for its sequence number   *)
(* and the digest of the event before it, a head for the events it binds.    *)
(* Every write, fsync and rename is a step, the process can die or the power *)
(* can fail before each, and the operator can lose or restore one file.      *)
(***************************************************************************)
EXTENDS Integers, Sequences, FiniteSets, SequencesExt

CONSTANTS
    Holdouts,       \* reservations, each the hour at which its final range starts
    Snapshots,      \* datasets, by the digest of their manifest
    Development,    \* those that end before development_end and carry no label
    QualifiedInputs,\* the development-only inputs check_pi02_input() accepts
    Pilots,         \* trials, by trial_id
    PilotAttempts,  \* attempts of a trial
    PilotBudget,    \* trials of a phase that may be registered
    MaxEntries,     \* _MAX_EVENTS
    MaxHour,        \* bound: readings of the clock
    MaxDamages      \* bound: files lost or restored from an old copy

ASSUME ResearchAssumption ==
    /\ Development \subseteq Snapshots /\ QualifiedInputs \subseteq Snapshots
    /\ {PilotBudget, MaxEntries, MaxHour, MaxDamages} \subseteq Nat
    /\ Holdouts \subseteq Nat /\ PilotAttempts \subseteq Nat

VARIABLES
    shelf,          \* the files: journal, a line cut short behind it, head
    hardened,       \* what a power loss leaves of them at least
    desk,           \* the ledger that is open
    granted,        \* events whose caller was told to go on when they were appended
    hour,           \* external: the clock
    damages         \* external: files lost or restored so far

researchVars == <<shelf, hardened, desk, granted, hour, damages>>

NoEntry == [kind |-> "none"]
NoHead == <<NoEntry>>
Shut == [at |-> "shut", events |-> <<>>, entry |-> NoEntry]

\* active(): either file is there.
Protected == shelf.made \/ shelf.head # NoHead

(* Loading.                                                                 *)

ChainHolds(events) ==
    /\ \A i \in 1 .. Len(events) : events[i].kind = "reservation" <=> i = 1
    /\ \A i \in 2 .. Len(events) : events[i - 1].hour <= events[i].hour

\* The line is whole, the chain unbroken, and the head binds a prefix of it.
Accepts(files) ==
    /\ ~files.torn /\ ChainHolds(files.journal)
    /\ IF files.head = NoHead THEN files.journal = <<>>
       ELSE IsPrefix(files.head, files.journal)

\* _load() moves the head up to what it has read, and syncs only the head.
OpenResearch ==
    /\ desk = Shut
    /\ shelf' = [shelf EXCEPT !.made = TRUE]
    /\ desk' = IF ~Accepts(shelf) THEN Shut
               ELSE [at |-> IF shelf.head = shelf.journal THEN "open" ELSE "replace",
                     events |-> shelf.journal, entry |-> NoEntry]
    /\ UNCHANGED <<hardened, granted, hour, damages>>

\* close(): at the end of a `with`, and after the first failure.
CloseResearch ==
    /\ desk.at \in {"open", "failed"}
    /\ desk' = Shut
    /\ UNCHANGED <<shelf, hardened, granted, hour, damages>>

(* What the owner of an open ledger asks for.                               *)

Entry(kind, subject, body, attempt) ==
    [kind |-> kind, subject |-> subject, body |-> body, attempt |-> attempt, hour |-> hour]
Trials(id) == {e \in ToSet(desk.events) : e.kind = "trial" /\ e.subject = id}

CanAppend ==
    /\ desk.at = "open"
    /\ Len(desk.events) < MaxEntries
    /\ desk.events # <<>> => Last(desk.events).hour <= hour

(* Mutant: a caller that is told to go on before its event is on the disk. *)
AppendGranting(entry) ==
    /\ CanAppend
    /\ desk' = [desk EXCEPT !.at = "write", !.entry = entry]
    /\ granted' = granted \cup (IF entry.kind = "access_denied" THEN {} ELSE {entry})
    /\ UNCHANGED <<shelf, hardened, hour, damages>>

AppendEntry(entry) ==
    /\ CanAppend
    /\ desk' = [desk EXCEPT !.at = "write", !.entry = entry]
    /\ UNCHANGED <<shelf, hardened, granted, hour, damages>>

\* The final range must still lie in the future, and nothing replaces it.
ReserveHoldout(start) ==
    /\ desk.events = <<>>
    /\ hour < start
    /\ AppendEntry(Entry("reservation", start, "reserve", 0))

(* Admission: inspect stands for export as well; a build from raw objects is *)
(* never allowed; a scan is no operation the journal knows, and raises.      *)
Admissible == [inspect |-> Development, build |-> {}, pi02 |-> QualifiedInputs]

CheckDataset(snapshot, operation) ==
    /\ desk.events # <<>>
    /\ LET kind == IF snapshot \in Admissible[operation] THEN "access_allowed"
                   ELSE "access_denied"
       IN  AppendEntry(Entry(kind, snapshot, operation, 0))

\* A trial is registered before it starts, within the budget, and each of its
\* phases is written once; a repeated one returns without an event.
RecordTrial(id, phase, n) ==
    /\ desk.events # <<>>
    /\ ~\E e \in Trials(id) : e.body = phase /\ e.attempt = n
    /\ phase # "registered" => Trials(id) # {}
    /\ phase \in {"registered", "started"} =>
         Cardinality({i \in DOMAIN desk.events :
                        desk.events[i].kind = "trial" /\ desk.events[i].body = phase})
           < PilotBudget
    /\ AppendEntry(Entry("trial", id, phase, n))

(* The rest of _append() and of _anchor(): write, sync, replace, sync.       *)

WriteEntry ==
    /\ desk.at = "write"
    /\ shelf' = [shelf EXCEPT !.journal = Append(@, desk.entry)]
    /\ desk' = [desk EXCEPT !.at = "sync"]
    /\ UNCHANGED <<hardened, granted, hour, damages>>

SyncEntry ==
    /\ desk.at = "sync"
    /\ hardened' = [hardened EXCEPT !.journal = Len(shelf.journal)]
    /\ desk' = [desk EXCEPT !.at = "replace", !.events = Append(@, desk.entry)]
    /\ UNCHANGED <<shelf, granted, hour, damages>>

ReplaceHead ==
    /\ desk.at = "replace"
    /\ shelf' = [shelf EXCEPT !.head = desk.events]
    /\ hardened' = [hardened EXCEPT !.heads = @ \cup {desk.events}]
    /\ desk' = [desk EXCEPT !.at = "settle"]
    /\ UNCHANGED <<granted, hour, damages>>

\* The directory is synced, and the caller goes on or is refused.
SettleHead ==
    /\ desk.at = "settle"
    /\ hardened' = [hardened EXCEPT !.heads = {shelf.head}]
    /\ granted' = IF desk.entry.kind \in {"none", "access_denied"} THEN granted
                  ELSE granted \cup {desk.entry}
    /\ desk' = [desk EXCEPT !.at = "open", !.entry = NoEntry]
    /\ UNCHANGED <<shelf, hour, damages>>

Appending == desk.at \in {"write", "sync", "replace", "settle"}
CutShort == [shelf EXCEPT !.torn = TRUE]

\* A write, an fsync or a rename fails, a write in the middle of its line too:
\* _load() raises, _append() leaves a ledger that serves nothing more.
ResearchFails ==
    /\ Appending
    /\ desk' = IF desk.entry = NoEntry THEN Shut ELSE [desk EXCEPT !.at = "failed"]
    /\ \/ UNCHANGED shelf
       \/ desk.at = "write" /\ shelf' = CutShort
    /\ UNCHANGED <<hardened, granted, hour, damages>>

\* The process is killed; what it has written stays.
KillOwner ==
    /\ desk # Shut
    /\ desk' = Shut
    /\ \/ UNCHANGED shelf
       \/ desk.at = "write" /\ shelf' = CutShort
    /\ UNCHANGED <<hardened, granted, hour, damages>>

\* The host loses power: lines and a head that were not synced may be gone.
LosePower ==
    /\ desk' = Shut
    /\ \E n \in hardened.journal .. Len(shelf.journal), head \in hardened.heads :
         /\ shelf' = [shelf EXCEPT !.journal = SubSeq(@, 1, n), !.head = head,
                                   !.torn = @ /\ n = Len(shelf.journal),
                                   !.made = @ /\ (n > 0 \/ head # NoHead)]
         /\ hardened' = [journal |-> n, heads |-> {head}]
    /\ UNCHANGED <<granted, hour, damages>>

(* Outside.                                                                 *)

\* While no owner runs, the operator loses the head, or puts back an old copy
\* of the journal, without the line cut short, or of the head.
DamageFile ==
    /\ desk = Shut
    /\ damages < MaxDamages
    /\ damages' = damages + 1
    /\ \/ \E n \in 0 .. Len(shelf.journal) :
            /\ shelf' = [shelf EXCEPT !.journal = SubSeq(@, 1, n), !.torn = FALSE,
                                      !.made = @ /\ n > 0]
            /\ hardened' = [journal |-> n, heads |-> {shelf.head}]
       \/ \E head \in {NoHead} \cup
            (IF shelf.head = NoHead THEN {} ELSE {SubSeq(shelf.head, 1, n) : n \in 0 .. Len(shelf.head)}) :
            /\ shelf' = [shelf EXCEPT !.head = head]
            /\ hardened' = [journal |-> Len(shelf.journal), heads |-> {head}]
    /\ shelf' # shelf
    /\ UNCHANGED <<desk, granted, hour>>

ClockReads ==
    /\ desk.at = "open"
    /\ hour' \in (0 .. MaxHour) \ {hour}
    /\ UNCHANGED <<shelf, hardened, desk, granted, damages>>

ResearchInit ==
    /\ shelf = [made |-> FALSE, journal |-> <<>>, torn |-> FALSE, head |-> NoHead]
    /\ hardened = [journal |-> 0, heads |-> {NoHead}]
    /\ desk = Shut
    /\ granted = {}
    /\ hour = 0
    /\ damages = 0

ResearchNext ==
    \/ OpenResearch \/ CloseResearch
    \/ \E start \in Holdouts : ReserveHoldout(start)
    \/ \E snapshot \in Snapshots, operation \in DOMAIN Admissible :
         CheckDataset(snapshot, operation)
    \/ \E id \in Pilots : \/ RecordTrial(id, "registered", 0)
                          \/ \E phase \in {"started", "succeeded"}, n \in PilotAttempts :
                               RecordTrial(id, phase, n)
    \/ WriteEntry \/ SyncEntry \/ ReplaceHead \/ SettleHead
    \/ ResearchFails \/ KillOwner \/ LosePower \/ DamageFile \/ ClockReads

ResearchSpec == ResearchInit /\ [][ResearchNext]_researchVars

(***************************************************************************)
(* Properties                                                              *)
(***************************************************************************)
\* Whatever a caller was told to go on with is in every journal a later owner
\* accepts, and the installation stays protected, however the process dies,
\* the power fails or one file is lost or put back (_load, _append, _anchor).
AuditStands ==
    granted # {} => /\ Protected
                    /\ Accepts(shelf) => granted \subseteq ToSet(shelf.journal)

\* "The journal is synced before advancing the separately synced head": what
\* the head on the disk binds, the journal keeps through a power loss
\* (_append, _load_anchor).
HeadIsSynced ==
    \A head \in hardened.heads \ {NoHead} : damages = 0 => Len(head) <= hardened.journal
=============================================================================
