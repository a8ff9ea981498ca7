---------------------------- MODULE EvidenceProofs ----------------------------
(***************************************************************************)
(* Proofs about the evidence a forecast rests on, for journals, histories  *)
(* and failures without bound: the ResearchLedger, the ForecastLedger, the *)
(* Dataset and the Clock.  What was granted outlives damage to one file; a *)
(* certificate and a success are backed by the journal; a replay sees      *)
(* nothing of its future, and what is held out is not fitted; a boundary   *)
(* is not called past too early.                                           *)
(***************************************************************************)
EXTENDS ResearchLedger, ForecastLedger, Dataset, Clock, FiniteSetTheorems, FunctionTheorems,
        WellFoundedInduction, TLAPS

-----------------------------------------------------------------------------
(* Sets made into sequences, and the largest of bounded numbers.            *)

LessNat == {ss \in Nat \X Nat : ss[1] < ss[2]}

LEMMA LeastNatural ==
  ASSUME NEW T \in SUBSET Nat, T # {}
  PROVE  \E m \in T : \A n \in T : m <= n
<1>1. LessNat = OpToRel(<, Nat)
  BY DEF OpToRel, LessNat
<1>2. IsWellFoundedOn(LessNat, Nat)
  BY <1>1, NatLessThanWellFounded
<1>3. PICK m \in T : \A y \in T : <<y, m>> \notin LessNat
  BY <1>2, WFMin
<1>4. ASSUME NEW n \in T PROVE m <= n
  <2>1. m \in Nat /\ n \in Nat
    OBVIOUS
  <2>2. <<n, m>> \notin LessNat
    BY <1>3
  <2>3. n < m => <<n, m>> \in LessNat
    BY <2>1 DEF LessNat
  <2> QED BY <2>1, <2>2, <2>3
<1> QED BY <1>4

LEMMA GreatestBounded ==
  ASSUME NEW b \in Nat, NEW T \in SUBSET (0 .. b), T # {}
  PROVE  \E m \in T : \A n \in T : n <= m
<1> DEFINE gaps == {b - n : n \in T}
<1>1. \A n \in T : n \in Nat /\ n <= b /\ b - n \in Nat
  OBVIOUS
<1>2. gaps \in SUBSET Nat /\ gaps # {}
  BY <1>1
<1>3. PICK g \in gaps : \A h \in gaps : g <= h
  BY <1>2, LeastNatural
<1>4. PICK m \in T : g = b - m
  BY <1>3
<1>5. ASSUME NEW n \in T PROVE n <= m
  <2>1. g <= b - n
    BY <1>3
  <2> QED BY <1>1, <1>4, <2>1
<1> QED BY <1>5

LEMMA SequenceOfSet ==
  ASSUME NEW E, NEW S \in SUBSET E, IsFiniteSet(S)
  PROVE  /\ SetToSeq(S) \in Seq(E)
         /\ \A i \in DOMAIN SetToSeq(S) : SetToSeq(S)[i] \in S
         /\ \A i, k \in DOMAIN SetToSeq(S) : SetToSeq(S)[i] = SetToSeq(S)[k] => i = k
<1> DEFINE n == Cardinality(S)
<1>1. n \in Nat /\ ExistsBijection(1 .. n, S)
  BY FS_CardinalityType
<1>2. PICK f \in [1 .. n -> S] : IsInjective(f)
  BY <1>1 DEF ExistsBijection, Bijection, Injection
<1>3. SetToSeq(S) \in [1 .. n -> S] /\ IsInjective(SetToSeq(S))
  BY <1>2 DEF SetToSeq
<1>4. SetToSeq(S) \in Seq(E)
  BY <1>1, <1>3
<1> QED BY <1>3, <1>4 DEF IsInjective

-----------------------------------------------------------------------------
(***************************************************************************)
(* The research journal.  Whatever was granted is in the part of the        *)
(* journal that was synced, and in every head that a power loss can leave;   *)
(* damage to one file leaves one of the two.                                 *)
(***************************************************************************)
Requests == {"reserve", "inspect", "build", "pi02", "registered", "started", "succeeded"}
ResearchEntries ==
    [kind : {"reservation", "access_allowed", "access_denied", "trial"},
     subject : Holdouts \cup Snapshots \cup Pilots, body : Requests,
     attempt : PilotAttempts \cup {0}, hour : Nat]
Lines == ResearchEntries \cup {NoEntry}

ResearchTypes ==
    /\ shelf \in [made : BOOLEAN, journal : Seq(Lines), torn : BOOLEAN, head : Seq(Lines)]
    /\ hardened \in [journal : Nat, heads : SUBSET Seq(Lines)]
    /\ hardened.journal <= Len(shelf.journal)
    /\ desk \in [at : {"shut", "open", "write", "sync", "replace", "settle", "failed"},
                 events : Seq(Lines), entry : Lines]
    /\ granted \subseteq ResearchEntries
    /\ hour \in Nat /\ damages \in Nat

InJournal ==
    /\ granted \subseteq {shelf.journal[i] : i \in 1 .. hardened.journal}
    /\ shelf.journal # <<>> => shelf.made
InHeads == \A h \in hardened.heads \cup {shelf.head} : granted \subseteq ToSet(h)

Audit ==
    /\ damages = 0 => InJournal /\ InHeads
    /\ damages = 1 => InJournal \/ InHeads

(* What the owner knows of the files, and that it knows all that was granted. *)
DeskTrue ==
    /\ desk.at \in {"open", "write", "replace", "settle"} => desk.events = shelf.journal
    /\ desk.at = "sync" => shelf.journal = Append(desk.events, desk.entry)
    /\ desk.at \notin {"shut", "failed"} =>
         shelf.made /\ (damages <= 1 => granted \subseteq ToSet(desk.events))
    /\ desk.at = "settle" => shelf.head = desk.events
    /\ desk.at \in {"replace", "settle"} /\ desk.entry # NoEntry =>
         /\ hardened.journal = Len(shelf.journal)
         /\ desk.entry \in ToSet(desk.events)

ResearchInv == ResearchTypes /\ Audit /\ DeskTrue

-----------------------------------------------------------------------------
LEMMA PrefixHolds ==
    ASSUME NEW S, NEW s \in Seq(S), NEW t \in Seq(S), IsPrefix(s, t)
    PROVE  ToSet(s) \subseteq ToSet(t)
<1>1. Len(s) <= Len(t) /\ \A i \in 1 .. Len(s) : SubSeq(s, 1, Len(s))[i] = SubSeq(t, 1, Len(s))[i]
  BY DEF IsPrefix
<1>2. \A i \in 1 .. Len(s) : s[i] = t[i] /\ i \in 1 .. Len(t)
  BY <1>1
<1> QED BY <1>2 DEF ToSet

LEMMA Appended ==
    ASSUME NEW S, NEW s \in Seq(S), NEW e \in S
    PROVE  /\ Append(s, e) \in Seq(S) /\ Len(Append(s, e)) = Len(s) + 1
           /\ ToSet(Append(s, e)) = ToSet(s) \cup {e}
           /\ \A i \in 1 .. Len(s) : Append(s, e)[i] = s[i]
<1>1. /\ Append(s, e) \in Seq(S) /\ Len(Append(s, e)) = Len(s) + 1
      /\ Append(s, e)[Len(s) + 1] = e
      /\ \A i \in 1 .. Len(s) : Append(s, e)[i] = s[i]
  OBVIOUS
<1>2. DOMAIN Append(s, e) = 1 .. Len(s) + 1 /\ DOMAIN s = 1 .. Len(s) /\ Len(s) \in Nat
  OBVIOUS
<1>3. 1 .. Len(s) + 1 = (1 .. Len(s)) \cup {Len(s) + 1}
  BY <1>2
<1> QED BY <1>1, <1>2, <1>3 DEF ToSet

LEMMA CutBack ==
    ASSUME NEW S, NEW s \in Seq(S), NEW n \in 0 .. Len(s)
    PROVE  /\ SubSeq(s, 1, n) \in Seq(S) /\ Len(SubSeq(s, 1, n)) = n
           /\ \A i \in 1 .. n : SubSeq(s, 1, n)[i] = s[i]
OBVIOUS

LEMMA ResearchFields ==
    ASSUME ResearchTypes
    PROVE  /\ shelf.made \in BOOLEAN /\ shelf.torn \in BOOLEAN
           /\ shelf.journal \in Seq(Lines) /\ shelf.head \in Seq(Lines)
           /\ hardened.journal \in Nat /\ hardened.heads \in SUBSET Seq(Lines)
           /\ hardened.journal <= Len(shelf.journal)
           /\ desk.at \in {"shut", "open", "write", "sync", "replace", "settle", "failed"}
           /\ desk.events \in Seq(Lines) /\ desk.entry \in Lines
           /\ NoEntry \in Lines /\ NoHead \in Seq(Lines) /\ <<>> \in Seq(Lines)
           /\ \A e \in granted : e \in Lines /\ e.kind # "none"
           /\ Shut.at = "shut" /\ Shut.events = <<>> /\ Shut.entry = NoEntry
BY DEF ResearchTypes, Lines, ResearchEntries, NoEntry, NoHead, Shut

LEMMA ResearchInitHolds == ResearchInit => ResearchInv
<1> SUFFICES ASSUME ResearchInit PROVE ResearchInv
  OBVIOUS
<1>1. NoEntry \in Lines /\ NoHead \in Seq(Lines) /\ <<>> \in Seq(Lines)
  BY DEF Lines, NoHead
<1>2. ResearchTypes
  BY <1>1 DEF ResearchInit, ResearchTypes, Shut
<1>3. Audit /\ DeskTrue
  BY DEF ResearchInit, Audit, InJournal, InHeads, DeskTrue, Shut
<1> QED BY <1>2, <1>3 DEF ResearchInv

(* The three conjuncts of the audit, when the files and the grants stay. *)
LEMMA AuditKept ==
    ASSUME Audit, UNCHANGED <<hardened, granted, damages>>, shelf'.journal = shelf.journal,
           shelf'.head = shelf.head, shelf.made => shelf'.made
    PROVE  Audit'
BY DEF Audit, InJournal, InHeads

LEMMA OpenResearchStep == ASSUME ResearchInv, OpenResearch PROVE ResearchInv'
<1>1. ResearchTypes /\ Audit
  BY DEF ResearchInv
<1> USE DEF OpenResearch
<1>2. shelf' = [shelf EXCEPT !.made = TRUE] /\ UNCHANGED <<hardened, granted, hour, damages>>
  OBVIOUS
<1>3. /\ shelf'.made /\ shelf'.journal = shelf.journal /\ shelf'.head = shelf.head
      /\ shelf'.torn = shelf.torn
      /\ shelf' \in [made : BOOLEAN, journal : Seq(Lines), torn : BOOLEAN, head : Seq(Lines)]
  BY <1>1, <1>2 DEF ResearchTypes
<1>4. Audit'
  BY <1>1, <1>2, <1>3, AuditKept
<1>5. CASE ~Accepts(shelf)
  <2>1. desk' = Shut
    BY <1>5
  <2>2. ResearchTypes'
    BY <1>1, <1>2, <1>3, <2>1, ResearchFields DEF ResearchTypes, Shut
  <2>3. DeskTrue'
    BY <2>1 DEF DeskTrue, Shut
  <2> QED BY <1>4, <2>2, <2>3 DEF ResearchInv
<1>6. CASE Accepts(shelf)
  <2>1. desk' = [at |-> IF shelf.head = shelf.journal THEN "open" ELSE "replace",
                 events |-> shelf.journal, entry |-> NoEntry]
    BY <1>6
  <2>2. desk'.at \in {"open", "replace"} /\ desk'.events = shelf.journal /\ desk'.entry = NoEntry
    BY <2>1
  <2>3. ResearchTypes'
    BY <1>1, <1>2, <1>3, <2>1, ResearchFields DEF ResearchTypes
  <2>4. damages <= 1 => granted \subseteq ToSet(shelf.journal)
    <3>1. ASSUME InJournal PROVE granted \subseteq ToSet(shelf.journal)
      <4>1. 1 .. hardened.journal \subseteq DOMAIN shelf.journal
        BY <1>1, ResearchFields
      <4> QED BY <3>1, <4>1 DEF InJournal, ToSet
    <3>2. ASSUME InHeads PROVE granted \subseteq ToSet(shelf.journal)
      <4>1. granted \subseteq ToSet(shelf.head)
        BY <3>2 DEF InHeads
      <4>2. CASE shelf.head = NoHead
        <5>1. \A e \in granted : e = NoEntry
          BY <4>1, <4>2 DEF NoHead, ToSet
        <5>2. granted = {}
          BY <1>1, <5>1, ResearchFields DEF NoEntry
        <5> QED BY <5>2
      <4>3. CASE shelf.head # NoHead
        BY <1>1, <1>6, <4>1, <4>3, PrefixHolds, ResearchFields DEF Accepts
      <4> QED BY <4>2, <4>3
    <3>3. damages \in Nat
      BY <1>1 DEF ResearchTypes
    <3> QED BY <1>1, <3>1, <3>2, <3>3 DEF Audit
  <2>5. DeskTrue'
    BY <1>2, <1>3, <2>2, <2>4 DEF DeskTrue
  <2> QED BY <1>4, <2>3, <2>5 DEF ResearchInv
<1> QED BY <1>5, <1>6

(* The owner stops, or is refused: the files keep what they have. *)
LEMMA StopStep ==
    ASSUME ResearchInv, CloseResearch \/ ClockReads \/ ResearchFails \/ KillOwner
    PROVE  ResearchInv'
<1>1. ResearchTypes /\ Audit /\ DeskTrue
  BY DEF ResearchInv
<1>2. UNCHANGED <<hardened, granted, damages>> /\ (shelf' = shelf \/ shelf' = CutShort)
  BY DEF CloseResearch, ClockReads, ResearchFails, KillOwner
<1>3. /\ shelf'.made = shelf.made /\ shelf'.journal = shelf.journal /\ shelf'.head = shelf.head
      /\ shelf' \in [made : BOOLEAN, journal : Seq(Lines), torn : BOOLEAN, head : Seq(Lines)]
  BY <1>1, <1>2 DEF CutShort, ResearchTypes
<1>4. hour' \in Nat
  BY <1>1, ResearchAssumption DEF CloseResearch, ClockReads, ResearchFails, KillOwner, ResearchTypes
<1>5. desk' = desk \/ desk' = Shut \/ desk' = [desk EXCEPT !.at = "failed"]
  BY DEF CloseResearch, ClockReads, ResearchFails, KillOwner
<1>6. desk' \in [at : {"shut", "open", "write", "sync", "replace", "settle", "failed"},
                 events : Seq(Lines), entry : Lines]
  BY <1>1, <1>5, ResearchFields DEF ResearchTypes, Shut
<1>7. desk' = desk \/ desk'.at \in {"shut", "failed"}
  BY <1>1, <1>5 DEF ResearchTypes, Shut
<1>8. ResearchTypes'
  BY <1>1, <1>2, <1>3, <1>4, <1>6 DEF ResearchTypes
<1>9. Audit'
  BY <1>1, <1>2, <1>3, AuditKept
<1>10. DeskTrue'
  <2>1. CASE desk' = desk
    BY <1>1, <1>2, <1>3, <2>1 DEF DeskTrue
  <2>2. CASE desk'.at \in {"shut", "failed"}
    BY <2>2 DEF DeskTrue
  <2> QED BY <1>7, <2>1, <2>2
<1> QED BY <1>8, <1>9, <1>10 DEF ResearchInv

(* What an owner asks for is an entry of one of the journal's kinds. *)
LEMMA RequestStep ==
    ASSUME ResearchInv,
           \/ \E start \in Holdouts : ReserveHoldout(start)
           \/ \E snapshot \in Snapshots, operation \in DOMAIN Admissible :
                CheckDataset(snapshot, operation)
           \/ \E id \in Pilots : \/ RecordTrial(id, "registered", 0)
                                 \/ \E phase \in {"started", "succeeded"}, n \in PilotAttempts :
                                      RecordTrial(id, phase, n)
    PROVE  ResearchInv'
<1>1. ResearchTypes /\ Audit /\ DeskTrue
  BY DEF ResearchInv
<1>2. hour \in Nat
  BY <1>1 DEF ResearchTypes
<1>3. PICK entry \in ResearchEntries : AppendEntry(entry)
  <2>1. CASE \E start \in Holdouts : ReserveHoldout(start)
    <3>1. PICK start \in Holdouts : ReserveHoldout(start)
      BY <2>1
    <3>2. Entry("reservation", start, "reserve", 0) \in ResearchEntries
      BY <1>2 DEF Entry, ResearchEntries, Requests
    <3> QED BY <3>1, <3>2 DEF ReserveHoldout
  <2>2. CASE \E snapshot \in Snapshots, operation \in DOMAIN Admissible :
               CheckDataset(snapshot, operation)
    <3>1. PICK snapshot \in Snapshots, operation \in DOMAIN Admissible :
               CheckDataset(snapshot, operation)
      BY <2>2
    <3>2. operation \in Requests
      BY DEF Admissible, Requests
    <3>3. \A kind \in {"access_allowed", "access_denied"} :
             Entry(kind, snapshot, operation, 0) \in ResearchEntries
      BY <1>2, <3>2 DEF Entry, ResearchEntries, Requests
    <3> QED BY <3>1, <3>3 DEF CheckDataset
  <2>3. CASE \E id \in Pilots : \/ RecordTrial(id, "registered", 0)
                                \/ \E phase \in {"started", "succeeded"}, n \in PilotAttempts :
                                     RecordTrial(id, phase, n)
    <3>1. PICK id \in Pilots, phase \in {"registered", "started", "succeeded"},
               n \in PilotAttempts \cup {0} : RecordTrial(id, phase, n)
      BY <2>3
    <3>2. Entry("trial", id, phase, n) \in ResearchEntries
      BY <1>2 DEF Entry, ResearchEntries, Requests
    <3> QED BY <3>1, <3>2 DEF RecordTrial
  <2> QED BY <2>1, <2>2, <2>3
<1>4. desk' = [desk EXCEPT !.at = "write", !.entry = entry] /\ desk.at = "open"
      /\ UNCHANGED <<shelf, hardened, granted, hour, damages>>
  BY <1>3 DEF AppendEntry, CanAppend
<1>5. desk'.at = "write" /\ desk'.entry = entry /\ desk'.events = desk.events
      /\ desk' \in [at : {"shut", "open", "write", "sync", "replace", "settle", "failed"},
                    events : Seq(Lines), entry : Lines]
  BY <1>1, <1>4 DEF ResearchTypes, Lines
<1>6. ResearchTypes'
  BY <1>1, <1>4, <1>5 DEF ResearchTypes
<1>7. Audit'
  BY <1>1, <1>4, AuditKept
<1>8. DeskTrue'
  BY <1>1, <1>4, <1>5 DEF DeskTrue
<1> QED BY <1>6, <1>7, <1>8 DEF ResearchInv

LEMMA WriteStep == ASSUME ResearchInv, WriteEntry PROVE ResearchInv'
<1>1. ResearchTypes /\ Audit /\ DeskTrue
  BY DEF ResearchInv
<1> DEFINE longer == Append(shelf.journal, desk.entry)
<1>2. /\ shelf' = [shelf EXCEPT !.journal = longer]
      /\ desk' = [desk EXCEPT !.at = "sync"] /\ desk.at = "write"
      /\ UNCHANGED <<hardened, granted, hour, damages>>
  BY DEF WriteEntry
<1>3. /\ longer \in Seq(Lines) /\ Len(longer) = Len(shelf.journal) + 1
      /\ \A i \in 1 .. Len(shelf.journal) : longer[i] = shelf.journal[i]
  BY <1>1, Appended, ResearchFields
<1> HIDE DEF longer
<1>4. /\ shelf'.made = shelf.made /\ shelf'.journal = longer /\ shelf'.head = shelf.head
      /\ shelf' \in [made : BOOLEAN, journal : Seq(Lines), torn : BOOLEAN, head : Seq(Lines)]
  BY <1>1, <1>2, <1>3 DEF ResearchTypes
<1>5. /\ desk'.at = "sync" /\ desk'.entry = desk.entry /\ desk'.events = desk.events
      /\ desk' \in [at : {"shut", "open", "write", "sync", "replace", "settle", "failed"},
                    events : Seq(Lines), entry : Lines]
  BY <1>1, <1>2 DEF ResearchTypes
<1>6. hardened.journal <= Len(longer) /\ 1 .. hardened.journal \subseteq 1 .. Len(shelf.journal)
  BY <1>1, <1>3, ResearchFields
<1>7. ResearchTypes'
  BY <1>1, <1>2, <1>4, <1>5, <1>6 DEF ResearchTypes
<1>8. shelf.made
  BY <1>1, <1>2 DEF DeskTrue
<1>9. Audit'
  <2>1. InJournal => InJournal'
    BY <1>2, <1>3, <1>4, <1>6, <1>8 DEF InJournal
  <2>2. InHeads => InHeads'
    BY <1>2, <1>4 DEF InHeads
  <2> QED BY <1>1, <1>2, <2>1, <2>2 DEF Audit
<1>10. DeskTrue'
  BY <1>1, <1>2, <1>4, <1>5, <1>8 DEF DeskTrue, longer
<1> QED BY <1>7, <1>9, <1>10 DEF ResearchInv

LEMMA SyncStep == ASSUME ResearchInv, SyncEntry PROVE ResearchInv'
<1>1. ResearchTypes /\ Audit /\ DeskTrue
  BY DEF ResearchInv
<1> DEFINE longer == Append(desk.events, desk.entry)
<1>2. /\ hardened' = [hardened EXCEPT !.journal = Len(shelf.journal)]
      /\ desk' = [desk EXCEPT !.at = "replace", !.events = longer] /\ desk.at = "sync"
      /\ UNCHANGED <<shelf, granted, hour, damages>>
  BY DEF SyncEntry
<1>3. shelf.journal = longer /\ longer \in Seq(Lines) /\ ToSet(longer) = ToSet(desk.events) \cup {desk.entry}
  BY <1>1, <1>2, Appended, ResearchFields DEF DeskTrue
<1> HIDE DEF longer
<1>4. /\ hardened'.journal = Len(shelf.journal) /\ hardened'.heads = hardened.heads
      /\ hardened' \in [journal : Nat, heads : SUBSET Seq(Lines)]
  BY <1>1, <1>2, ResearchFields DEF ResearchTypes
<1>5. /\ desk'.at = "replace" /\ desk'.entry = desk.entry /\ desk'.events = longer
      /\ desk' \in [at : {"shut", "open", "write", "sync", "replace", "settle", "failed"},
                    events : Seq(Lines), entry : Lines]
  BY <1>1, <1>2, <1>3 DEF ResearchTypes
<1>6. ResearchTypes'
  <2>1. hardened'.journal <= Len(shelf.journal)
    BY <1>1, <1>4, ResearchFields
  <2> QED BY <1>1, <1>2, <1>4, <1>5, <2>1 DEF ResearchTypes
<1>7. Audit'
  <2>1. 1 .. hardened.journal \subseteq 1 .. hardened'.journal
    BY <1>1, <1>4, ResearchFields
  <2>2. InJournal => InJournal'
    BY <1>2, <2>1 DEF InJournal
  <2>3. InHeads => InHeads'
    BY <1>2, <1>4 DEF InHeads
  <2> QED BY <1>1, <1>2, <2>2, <2>3 DEF Audit
<1>8. DeskTrue'
  BY <1>1, <1>2, <1>3, <1>4, <1>5 DEF DeskTrue
<1> QED BY <1>6, <1>7, <1>8 DEF ResearchInv

LEMMA ReplaceStep == ASSUME ResearchInv, ReplaceHead PROVE ResearchInv'
<1>1. ResearchTypes /\ Audit /\ DeskTrue
  BY DEF ResearchInv
<1>2. /\ shelf' = [shelf EXCEPT !.head = desk.events]
      /\ hardened' = [hardened EXCEPT !.heads = @ \cup {desk.events}]
      /\ desk' = [desk EXCEPT !.at = "settle"] /\ desk.at = "replace"
      /\ UNCHANGED <<granted, hour, damages>>
  BY DEF ReplaceHead
<1>3. /\ shelf'.made = shelf.made /\ shelf'.journal = shelf.journal /\ shelf'.head = desk.events
      /\ shelf' \in [made : BOOLEAN, journal : Seq(Lines), torn : BOOLEAN, head : Seq(Lines)]
  BY <1>1, <1>2 DEF ResearchTypes
<1>4. /\ hardened'.journal = hardened.journal
      /\ hardened'.heads = hardened.heads \cup {desk.events}
      /\ hardened' \in [journal : Nat, heads : SUBSET Seq(Lines)]
  BY <1>1, <1>2, ResearchFields DEF ResearchTypes
<1>5. /\ desk'.at = "settle" /\ desk'.entry = desk.entry /\ desk'.events = desk.events
      /\ desk' \in [at : {"shut", "open", "write", "sync", "replace", "settle", "failed"},
                    events : Seq(Lines), entry : Lines]
  BY <1>1, <1>2 DEF ResearchTypes
<1>6. ResearchTypes'
  BY <1>1, <1>2, <1>3, <1>4, <1>5 DEF ResearchTypes
<1>7. Audit'
  <2>1. InJournal => InJournal'
    BY <1>2, <1>3, <1>4 DEF InJournal
  <2>2. damages <= 1 /\ InHeads => InHeads'
    BY <1>1, <1>2, <1>3, <1>4 DEF InHeads, DeskTrue
  <2> QED BY <1>1, <1>2, <2>1, <2>2 DEF Audit
<1>8. DeskTrue'
  BY <1>1, <1>2, <1>3, <1>4, <1>5 DEF DeskTrue
<1> QED BY <1>6, <1>7, <1>8 DEF ResearchInv

LEMMA SettleStep == ASSUME ResearchInv, SettleHead PROVE ResearchInv'
<1>1. ResearchTypes /\ Audit /\ DeskTrue
  BY DEF ResearchInv
<1>2. /\ hardened' = [hardened EXCEPT !.heads = {shelf.head}]
      /\ desk' = [desk EXCEPT !.at = "open", !.entry = NoEntry] /\ desk.at = "settle"
      /\ UNCHANGED <<shelf, hour, damages>>
  BY DEF SettleHead
<1>3. granted' = granted \/ (desk.entry # NoEntry /\ granted' = granted \cup {desk.entry})
  BY DEF SettleHead, NoEntry
<1>4. /\ hardened'.journal = hardened.journal /\ hardened'.heads = {shelf.head}
      /\ hardened' \in [journal : Nat, heads : SUBSET Seq(Lines)]
  BY <1>1, <1>2, ResearchFields DEF ResearchTypes
<1>5. /\ desk'.at = "open" /\ desk'.events = desk.events
      /\ desk' \in [at : {"shut", "open", "write", "sync", "replace", "settle", "failed"},
                    events : Seq(Lines), entry : Lines]
  BY <1>1, <1>2, ResearchFields DEF ResearchTypes
<1>6. granted' \subseteq ResearchEntries
  BY <1>1, <1>3 DEF ResearchTypes, Lines
<1>7. ResearchTypes'
  BY <1>1, <1>2, <1>4, <1>5, <1>6 DEF ResearchTypes
<1>8. shelf.head = desk.events /\ desk.events = shelf.journal
  BY <1>1, <1>2 DEF DeskTrue
<1>9. granted' # granted =>
        /\ desk.entry \in ToSet(desk.events)
        /\ desk.entry \in {shelf.journal[i] : i \in 1 .. hardened.journal}
  <2>1. ASSUME granted' # granted
        PROVE  hardened.journal = Len(shelf.journal) /\ desk.entry \in ToSet(desk.events)
    BY <1>1, <1>2, <1>3, <2>1 DEF DeskTrue
  <2>2. DOMAIN shelf.journal = 1 .. Len(shelf.journal)
    BY <1>1, ResearchFields
  <2> QED BY <1>8, <2>1, <2>2 DEF ToSet
<1>10. Audit'
  <2>1. InJournal => InJournal'
    BY <1>2, <1>3, <1>4, <1>9 DEF InJournal
  <2>2. InHeads => InHeads'
    BY <1>2, <1>3, <1>4, <1>8, <1>9 DEF InHeads
  <2> QED BY <1>1, <1>2, <2>1, <2>2 DEF Audit
<1>11. DeskTrue'
  BY <1>1, <1>2, <1>3, <1>5, <1>8, <1>9 DEF DeskTrue
<1> QED BY <1>7, <1>10, <1>11 DEF ResearchInv

(* What was synced survives a power loss, and one of the heads does. *)
LEMMA PowerStep == ASSUME ResearchInv, LosePower PROVE ResearchInv'
<1>1. ResearchTypes /\ Audit
  BY DEF ResearchInv
<1>2. PICK n \in hardened.journal .. Len(shelf.journal), head \in hardened.heads :
        /\ shelf' = [shelf EXCEPT !.journal = SubSeq(@, 1, n), !.head = head,
                                  !.torn = @ /\ n = Len(shelf.journal),
                                  !.made = @ /\ (n > 0 \/ head # NoHead)]
        /\ hardened' = [journal |-> n, heads |-> {head}]
  BY DEF LosePower
<1>3. desk' = Shut /\ UNCHANGED <<granted, hour, damages>>
  BY DEF LosePower
<1>4. n \in Nat /\ n \in 0 .. Len(shelf.journal) /\ head \in Seq(Lines)
  BY <1>1, <1>2, ResearchFields
<1> DEFINE cut == SubSeq(shelf.journal, 1, n)
<1>5. cut \in Seq(Lines) /\ Len(cut) = n /\ \A i \in 1 .. n : cut[i] = shelf.journal[i]
  BY <1>1, <1>4, CutBack, ResearchFields
<1>6. /\ (shelf.made /\ (n > 0 \/ head # NoHead)) \in BOOLEAN
      /\ (shelf.torn /\ n = Len(shelf.journal)) \in BOOLEAN
  OBVIOUS
<1> HIDE DEF cut
<1>7. shelf' = [made |-> shelf.made /\ (n > 0 \/ head # NoHead), journal |-> cut,
                torn |-> shelf.torn /\ n = Len(shelf.journal), head |-> head]
  BY <1>1, <1>2 DEF ResearchTypes, cut
<1>8. ResearchTypes'
  <2>1. /\ shelf' \in [made : BOOLEAN, journal : Seq(Lines), torn : BOOLEAN, head : Seq(Lines)]
        /\ shelf'.journal = cut
    BY <1>4, <1>5, <1>6, <1>7
  <2>2. /\ hardened' \in [journal : Nat, heads : SUBSET Seq(Lines)]
        /\ hardened'.journal <= Len(cut)
    BY <1>2, <1>4, <1>5
  <2>3. desk' \in [at : {"shut", "open", "write", "sync", "replace", "settle", "failed"},
                   events : Seq(Lines), entry : Lines]
    BY <1>1, <1>3, ResearchFields DEF Shut
  <2> QED BY <1>1, <1>3, <2>1, <2>2, <2>3 DEF ResearchTypes
<1>9. Audit'
  <2>1. InJournal => InJournal'
    <3>1. ASSUME InJournal PROVE InJournal'
      <4>1. 1 .. hardened.journal \subseteq 1 .. n
        BY <1>1, <1>2, ResearchFields
      <4>2. granted' \subseteq {shelf'.journal[i] : i \in 1 .. hardened'.journal}
        BY <1>2, <1>3, <1>5, <1>7, <3>1, <4>1 DEF InJournal
      <4>3. cut # <<>> => n > 0 /\ shelf.journal # <<>>
        BY <1>1, <1>4, <1>5, ResearchFields
      <4> QED BY <1>7, <3>1, <4>2, <4>3 DEF InJournal
    <3> QED BY <3>1
  <2>2. InHeads => InHeads'
    BY <1>2, <1>3, <1>7 DEF InHeads
  <2> QED BY <1>1, <1>3, <2>1, <2>2 DEF Audit
<1>10. DeskTrue'
  BY <1>3 DEF DeskTrue, Shut
<1> QED BY <1>8, <1>9, <1>10 DEF ResearchInv

(* Damage to the journal leaves the heads, damage to the head the journal. *)
LEMMA DamageStep == ASSUME ResearchInv, DamageFile PROVE ResearchInv'
<1>1. ResearchTypes /\ Audit /\ DeskTrue
  BY DEF ResearchInv
<1>2. damages' = damages + 1 /\ desk = Shut /\ UNCHANGED <<desk, granted, hour>> /\ damages \in Nat
  BY <1>1 DEF DamageFile, ResearchTypes
<1>3. DeskTrue'
  BY <1>2 DEF DeskTrue, Shut
<1>4. CASE \E n \in 0 .. Len(shelf.journal) :
             /\ shelf' = [shelf EXCEPT !.journal = SubSeq(@, 1, n), !.torn = FALSE,
                                       !.made = @ /\ n > 0]
             /\ hardened' = [journal |-> n, heads |-> {shelf.head}]
  <2>1. PICK n \in 0 .. Len(shelf.journal) :
             /\ shelf' = [shelf EXCEPT !.journal = SubSeq(@, 1, n), !.torn = FALSE,
                                       !.made = @ /\ n > 0]
             /\ hardened' = [journal |-> n, heads |-> {shelf.head}]
    BY <1>4
  <2> DEFINE cut == SubSeq(shelf.journal, 1, n)
  <2>2. cut \in Seq(Lines) /\ Len(cut) = n
    BY <1>1, <2>1, CutBack, ResearchFields
  <2>3. (shelf.made /\ n > 0) \in BOOLEAN
    OBVIOUS
  <2> HIDE DEF cut
  <2>4. shelf' = [made |-> shelf.made /\ n > 0, journal |-> cut, torn |-> FALSE, head |-> shelf.head]
    BY <1>1, <2>1 DEF ResearchTypes, cut
  <2>5. ResearchTypes'
    <3>1. /\ shelf' \in [made : BOOLEAN, journal : Seq(Lines), torn : BOOLEAN, head : Seq(Lines)]
          /\ shelf'.journal = cut
      BY <1>1, <2>2, <2>3, <2>4, ResearchFields
    <3>2. n \in Nat
      BY <1>1, <2>1, ResearchFields
    <3>3. /\ hardened' \in [journal : Nat, heads : SUBSET Seq(Lines)]
          /\ hardened'.journal <= Len(cut)
      BY <1>1, <2>1, <2>2, <3>2, ResearchFields
    <3> QED BY <1>1, <1>2, <3>1, <3>3 DEF ResearchTypes
  <2>6. InHeads => InHeads'
    BY <1>2, <2>1, <2>4 DEF InHeads
  <2>7. Audit'
    BY <1>1, <1>2, <2>6 DEF Audit
  <2> QED BY <1>3, <2>5, <2>7 DEF ResearchInv
<1>5. CASE \E head \in {NoHead} \cup
             (IF shelf.head = NoHead THEN {}
              ELSE {SubSeq(shelf.head, 1, n) : n \in 0 .. Len(shelf.head)}) :
             /\ shelf' = [shelf EXCEPT !.head = head]
             /\ hardened' = [journal |-> Len(shelf.journal), heads |-> {head}]
  <2>1. PICK head \in {NoHead} \cup
             (IF shelf.head = NoHead THEN {}
              ELSE {SubSeq(shelf.head, 1, n) : n \in 0 .. Len(shelf.head)}) :
             /\ shelf' = [shelf EXCEPT !.head = head]
             /\ hardened' = [journal |-> Len(shelf.journal), heads |-> {head}]
    BY <1>5
  <2>2. head \in Seq(Lines)
    BY <1>1, <2>1, CutBack, ResearchFields
  <2>3. /\ shelf'.made = shelf.made /\ shelf'.journal = shelf.journal
        /\ shelf' \in [made : BOOLEAN, journal : Seq(Lines), torn : BOOLEAN, head : Seq(Lines)]
    BY <1>1, <2>1, <2>2 DEF ResearchTypes
  <2>4. ResearchTypes'
    BY <1>1, <1>2, <2>1, <2>2, <2>3, ResearchFields DEF ResearchTypes
  <2>5. InJournal => InJournal'
    <3>1. 1 .. hardened.journal \subseteq 1 .. hardened'.journal
      BY <1>1, <2>1, ResearchFields
    <3> QED BY <1>2, <2>3, <3>1 DEF InJournal
  <2>6. Audit'
    BY <1>1, <1>2, <2>5 DEF Audit
  <2> QED BY <1>3, <2>4, <2>6 DEF ResearchInv
<1> QED BY <1>4, <1>5 DEF DamageFile

LEMMA ResearchStep == ASSUME ResearchInv, [ResearchNext]_researchVars PROVE ResearchInv'
<1>1. CASE UNCHANGED researchVars
  BY <1>1 DEF researchVars, ResearchInv, ResearchTypes, Audit, InJournal, InHeads, DeskTrue
<1>2. CASE ResearchNext
  BY <1>2, OpenResearchStep, StopStep, RequestStep, WriteStep, SyncStep, ReplaceStep, SettleStep,
     PowerStep, DamageStep DEF ResearchNext
<1> QED BY <1>1, <1>2

-----------------------------------------------------------------------------
(* What a caller was told to go on with is in every journal a later owner    *)
(* accepts, and the installation stays protected, however often the process  *)
(* dies and the power fails, and though one of the files is lost or put back *)
(* (research/ledger.py, _load, _append, _anchor).                            *)
THEOREM GrantsAreKept == ResearchSpec => [](damages <= 1 => AuditStands)
<1>1. ResearchInit => ResearchInv
  BY ResearchInitHolds
<1>2. ResearchInv /\ [ResearchNext]_researchVars => ResearchInv'
  BY ResearchStep
<1>3. ResearchInv => (damages <= 1 => AuditStands)
  <2> SUFFICES ASSUME ResearchInv, damages <= 1, granted # {}
               PROVE  Protected /\ (Accepts(shelf) => granted \subseteq ToSet(shelf.journal))
    BY DEF AuditStands
  <2>1. ResearchTypes /\ (InJournal \/ InHeads)
    BY DEF ResearchInv, Audit, ResearchTypes
  <2>2. CASE InJournal
    <3>1. 1 .. hardened.journal \subseteq DOMAIN shelf.journal /\ 1 .. hardened.journal # {}
      BY <2>1, <2>2, ResearchFields DEF InJournal
    <3> QED BY <2>2, <3>1 DEF InJournal, Protected, ToSet
  <2>3. CASE InHeads
    <3>1. granted \subseteq ToSet(shelf.head)
      BY <2>3 DEF InHeads
    <3>2. shelf.head # NoHead
      BY <2>1, <3>1, ResearchFields DEF NoHead, NoEntry, ToSet
    <3>3. Accepts(shelf) => granted \subseteq ToSet(shelf.journal)
      BY <2>1, <3>1, <3>2, PrefixHolds, ResearchFields DEF Accepts
    <3> QED BY <3>2, <3>3 DEF Protected
  <2> QED BY <2>1, <2>2, <2>3
<1> QED BY <1>1, <1>2, <1>3, PTL DEF ResearchSpec

-----------------------------------------------------------------------------
(***************************************************************************)
(* ForecastLedger.  Every slot is in the journal and in the plan once, and  *)
(* every receipt rests on an earlier publication, every receipt of an input *)
(* on an earlier observation.  What is late stays late, since the time of   *)
(* the journal does not go back; and the phase of the session says what of  *)
(* a slot is already in the journal.                                        *)
(***************************************************************************)
(* Numbers of events: of inputs, or of revisions of the outcome.            *)
Numbers == 0 .. MaxFetches + Versions
EventKinds == {"publication", "receipt", "input", "input-observation", "input-receipt",
          "stream", "slot", "outcome", "score", "maturation"}
EventBodies == {"", "on-time", "late", "uncertain", "unknown", "clock-discontinuity",
           "recovery-unknown", "missing", "missed", "pending", "excluded"}
LedgerEvents ==
    [kind : EventKinds, slot : Nat, body : EventBodies, number : Numbers, timely : BOOLEAN]
JobRecords ==
    [state : {"none", "queued", "running", "interrupted", "expired", "cancelled", "failed",
              "succeeded"},
     content : Numbers, attempt : Nat]

LedgerTypes ==
    /\ time \in Nat /\ truth \in 0 .. Versions
    /\ journal \in Seq(LedgerEvents) /\ plan \in Seq(LedgerEvents)
    /\ owner \in {"closed", "loading", "open", "refused"} /\ heading \in BOOLEAN
    /\ input \in Numbers /\ turn \in Nat /\ job \in [Horizons -> JobRecords]

(* What a sequence of events has. *)
Has(s, kind, slot) == \E i \in DOMAIN s : s[i].kind = kind /\ s[i].slot = slot
HasContent(s, slot, content) ==
    \E i \in DOMAIN s : s[i].kind = "publication" /\ s[i].slot = slot /\ s[i].number = content
HasCertificate(s, slot) ==
    \E i \in DOMAIN s : /\ s[i].kind = "receipt" /\ s[i].slot = slot
                        /\ s[i].body # "recovery-unknown"

(* Before the position n of a journal stands what an event rests on: the     *)
(* publication of a receipt, committed by the deadline if it says so, and    *)
(* the observation that an input was certified on time for.                  *)
Rests(e, s, n) ==
    /\ e.kind = "receipt" =>
          \E k \in DOMAIN s : /\ k < n /\ s[k].kind = "publication" /\ s[k].slot = e.slot
                              /\ e.body = "on-time" => s[k].timely
    /\ e.kind = "input-receipt" /\ e.body = "on-time" =>
          \E k \in DOMAIN s : /\ k < n /\ s[k].kind = "input-observation"
                              /\ s[k].number = e.number /\ s[k].timely

OncePerSlot(s) ==
    \A i, k \in DOMAIN s :
        s[i].kind = s[k].kind /\ s[i].slot = s[k].slot
        /\ s[i].kind \in {"publication", "receipt"} => i = k

SoundJournal(s) == OncePerSlot(s) /\ \A i \in DOMAIN s : Rests(s[i], s, i)

(* What is planned may be appended to the journal. *)
SoundPlan(p, s) ==
    /\ OncePerSlot(p)
    /\ \A i \in DOMAIN p :
         /\ Rests(p[i], s, Len(s) + 1)
         /\ p[i].kind \in {"publication", "receipt"} => ~Has(s, p[i].kind, p[i].slot)

(* The clock does not go back: what was committed late is late for good. *)
LateIsLate == \A i \in DOMAIN journal : ~journal[i].timely => time > Deadline

Recorded(kind, slot) == Has(journal, kind, slot) \/ Has(plan, kind, slot)

SessionTrue ==
    /\ owner # "open" => doing = "idle"
    /\ owner \in {"closed", "refused"} => plan = <<>> /\ ~heading
    /\ doing \in {"executing", "publishing", "published", "certified"} =>
          turn \in Horizons /\ job[turn].state = "running"
    /\ doing \in {"executing", "publishing"} => ~Recorded("publication", turn)
    /\ doing = "published" => ~Recorded("receipt", turn)
    /\ doing \in {"published", "certified"} =>
          \/ HasContent(journal, turn, job[turn].content)
          \/ HasContent(plan, turn, job[turn].content)
    /\ doing = "certified" => HasCertificate(journal, turn) \/ HasCertificate(plan, turn)
    /\ doing = "observed" => Recorded("input-observation", 0)
    /\ doing = "scoring" => Recorded("outcome", turn)

Successes ==
    ~lost => \A s \in Horizons : job[s].state = "succeeded" =>
                 HasContent(journal, s, job[s].content) /\ HasCertificate(journal, s)

LedgerInv ==
    /\ LedgerTypes /\ SoundJournal(journal) /\ SoundPlan(plan, journal) /\ LateIsLate
    /\ SessionTrue /\ Successes

-----------------------------------------------------------------------------
(* The journal and the plan.                                                *)

(* Events that nothing rests on, and that a slot may have many of. *)
Free(p) ==
    \A i \in DOMAIN p :
        p[i].kind \notin {"publication", "receipt", "input-receipt"}

LEMMA FreeIsSound == ASSUME NEW p, NEW s, Free(p) PROVE SoundPlan(p, s)
BY DEF Free, SoundPlan, OncePerSlot, Rests

LEMMA EventsHave ==
    ASSUME NEW kind \in EventKinds, NEW slot \in Nat, NEW body \in EventBodies, NEW number \in Numbers
    PROVE  /\ Event(kind, slot, body, number) \in LedgerEvents
           /\ Event(kind, slot, body, number).kind = kind
           /\ Event(kind, slot, body, number).slot = slot
           /\ Event(kind, slot, body, number).body = body
           /\ Event(kind, slot, body, number).number = number
BY DEF Event, LedgerEvents

LEMMA OneEvent ==
    ASSUME NEW e \in LedgerEvents
    PROVE  <<e>> \in Seq(LedgerEvents) /\ Len(<<e>>) = 1 /\ DOMAIN <<e>> = {1} /\ <<e>>[1] = e
OBVIOUS

LEMMA OneIsSound ==
    ASSUME NEW e \in LedgerEvents, NEW s \in Seq(LedgerEvents), Rests(e, s, Len(s) + 1),
           e.kind \in {"publication", "receipt"} => ~Has(s, e.kind, e.slot)
    PROVE  SoundPlan(<<e>>, s)
BY OneEvent DEF SoundPlan, OncePerSlot

LEMMA OneAppended ==
    ASSUME NEW S, NEW s \in Seq(S), NEW e \in S
    PROVE  /\ Append(s, e) \in Seq(S) /\ Len(Append(s, e)) = Len(s) + 1
           /\ DOMAIN s = 1 .. Len(s) /\ Len(s) \in Nat
           /\ DOMAIN Append(s, e) = 1 .. Len(s) + 1
           /\ Append(s, e)[Len(s) + 1] = e
           /\ \A i \in DOMAIN s : i \in DOMAIN Append(s, e) /\ Append(s, e)[i] = s[i]
           /\ \A i \in DOMAIN Append(s, e) : i \in DOMAIN s \/ i = Len(s) + 1
OBVIOUS

LEMMA Advancing ==
    ASSUME NEW S, NEW p \in Seq(S), p # <<>>
    PROVE  /\ SubSeq(p, 2, Len(p)) \in Seq(S)
           /\ 1 \in DOMAIN p /\ p[1] \in S
           /\ DOMAIN p \subseteq Nat \ {0}
           /\ \A i \in DOMAIN SubSeq(p, 2, Len(p)) :
                 i + 1 \in DOMAIN p /\ i + 1 # 1 /\ SubSeq(p, 2, Len(p))[i] = p[i + 1]
           /\ \A i \in DOMAIN p : i = 1 \/ \E k \in DOMAIN SubSeq(p, 2, Len(p)) :
                                              SubSeq(p, 2, Len(p))[k] = p[i]
<1> DEFINE q == SubSeq(p, 2, Len(p))
<1>1. Len(p) \in Nat /\ Len(p) # 0 /\ DOMAIN p = 1 .. Len(p)
  OBVIOUS
<1>2. /\ q \in Seq(S) /\ Len(q) = Len(p) - 1 /\ DOMAIN q = 1 .. Len(p) - 1
      /\ \A k \in 1 .. Len(p) - 1 : q[k] = p[k + 1]
  BY <1>1
<1>3. ASSUME NEW i \in DOMAIN p, i # 1 PROVE \E k \in DOMAIN q : q[k] = p[i]
  <2>1. i - 1 \in 1 .. Len(p) - 1 /\ (i - 1) + 1 = i
    BY <1>1, <1>3
  <2>2. q[i - 1] = p[i]
    BY <1>2, <2>1
  <2> QED BY <1>2, <2>1, <2>2
<1>4. \A i \in DOMAIN q : i + 1 \in DOMAIN p /\ i + 1 # 1 /\ q[i] = p[i + 1]
  BY <1>1, <1>2
<1>5. 1 \in DOMAIN p /\ p[1] \in S /\ DOMAIN p \subseteq Nat \ {0}
  BY <1>1
<1> QED BY <1>2, <1>3, <1>4, <1>5

(* An event as it is committed. *)
Dated(e, b) == [e EXCEPT !.timely = b]

LEMMA DatedKeeps ==
    ASSUME NEW e \in LedgerEvents, NEW b \in BOOLEAN
    PROVE  /\ Dated(e, b) \in LedgerEvents
           /\ Dated(e, b).kind = e.kind /\ Dated(e, b).slot = e.slot
           /\ Dated(e, b).body = e.body /\ Dated(e, b).number = e.number
           /\ Dated(e, b).timely = b
BY DEF Dated, LedgerEvents

(* What a journal has, a longer one has. *)
LEMMA Extended ==
    ASSUME NEW s \in Seq(LedgerEvents), NEW d \in LedgerEvents
    PROVE  /\ \A kind, slot : Has(s, kind, slot) => Has(Append(s, d), kind, slot)
           /\ \A kind, slot : Has(Append(s, d), kind, slot) =>
                 Has(s, kind, slot) \/ (d.kind = kind /\ d.slot = slot)
           /\ Has(Append(s, d), d.kind, d.slot)
           /\ \A slot, c : HasContent(s, slot, c) => HasContent(Append(s, d), slot, c)
           /\ \A slot : HasCertificate(s, slot) => HasCertificate(Append(s, d), slot)
           /\ \A e, n : Rests(e, s, n) => Rests(e, Append(s, d), n)
<1>1. /\ DOMAIN s = 1 .. Len(s) /\ Len(s) \in Nat
      /\ DOMAIN Append(s, d) = 1 .. Len(s) + 1
      /\ Append(s, d)[Len(s) + 1] = d
      /\ \A i \in DOMAIN s : i \in DOMAIN Append(s, d) /\ Append(s, d)[i] = s[i]
      /\ \A i \in DOMAIN Append(s, d) : i \in DOMAIN s \/ i = Len(s) + 1
  BY OneAppended
<1>2. Len(s) + 1 \in DOMAIN Append(s, d)
  BY <1>1
<1>3. /\ \A kind, slot : Has(s, kind, slot) => Has(Append(s, d), kind, slot)
      /\ \A kind, slot : Has(Append(s, d), kind, slot) =>
            Has(s, kind, slot) \/ (d.kind = kind /\ d.slot = slot)
      /\ Has(Append(s, d), d.kind, d.slot)
  BY <1>1, <1>2 DEF Has
<1>4. \A slot, c : HasContent(s, slot, c) => HasContent(Append(s, d), slot, c)
  BY <1>1 DEF HasContent
<1>5. \A slot : HasCertificate(s, slot) => HasCertificate(Append(s, d), slot)
  BY <1>1 DEF HasCertificate
<1>6. \A e, n : Rests(e, s, n) => Rests(e, Append(s, d), n)
  BY <1>1 DEF Rests
<1> QED BY <1>3, <1>4, <1>5, <1>6

(* Whether an event rests on something does not depend on its own time, nor  *)
(* on a position after all of it.                                            *)
LEMMA RestsLater ==
    ASSUME NEW s, NEW e, NEW n \in Nat, NEW m \in Nat, n <= m, DOMAIN s \subseteq Nat, Rests(e, s, n)
    PROVE  Rests(e, s, m)
<1>1. \A k \in DOMAIN s : k < n => k < m
  OBVIOUS
<1> QED BY <1>1 DEF Rests

LEMMA JournalGrows ==
    ASSUME NEW s \in Seq(LedgerEvents), NEW p \in Seq(LedgerEvents), p # <<>>,
           NEW b \in BOOLEAN, SoundJournal(s), SoundPlan(p, s)
    PROVE  /\ SoundJournal(Append(s, Dated(p[1], b)))
           /\ SoundPlan(SubSeq(p, 2, Len(p)), Append(s, Dated(p[1], b)))
<1> DEFINE d == Dated(p[1], b)
           t == Append(s, d)
           q == SubSeq(p, 2, Len(p))
<1>1. 1 \in DOMAIN p /\ p[1] \in LedgerEvents
  BY Advancing
<1>2. /\ d \in LedgerEvents /\ d.kind = p[1].kind /\ d.slot = p[1].slot
      /\ d.body = p[1].body /\ d.number = p[1].number
  BY <1>1, DatedKeeps
<1>3. /\ DOMAIN s = 1 .. Len(s) /\ Len(s) \in Nat /\ t \in Seq(LedgerEvents)
      /\ Len(t) = Len(s) + 1 /\ t[Len(s) + 1] = d
      /\ \A i \in DOMAIN s : i \in DOMAIN t /\ t[i] = s[i]
      /\ \A i \in DOMAIN t : i \in DOMAIN s \/ i = Len(s) + 1
      /\ DOMAIN t = 1 .. Len(s) + 1
  BY <1>2, OneAppended
<1>4. /\ \A kind, slot : Has(t, kind, slot) =>
               Has(s, kind, slot) \/ (d.kind = kind /\ d.slot = slot)
      /\ \A e, n : Rests(e, s, n) => Rests(e, t, n)
  BY <1>2, Extended
<1>5. Rests(p[1], s, Len(s) + 1) /\ (d.kind \in {"publication", "receipt"} => ~Has(s, d.kind, d.slot))
  BY <1>1, <1>2 DEF SoundPlan
<1>6. Rests(d, s, Len(s) + 1)
  BY <1>2, <1>5 DEF Rests
<1> HIDE DEF d, t
<1>7. OncePerSlot(t)
  <2> SUFFICES ASSUME NEW i \in DOMAIN t, NEW k \in DOMAIN t, t[i].kind = t[k].kind,
                      t[i].slot = t[k].slot, t[i].kind \in {"publication", "receipt"}
               PROVE  i = k
    BY DEF OncePerSlot
  <2>1. CASE i \in DOMAIN s /\ k \in DOMAIN s
    BY <2>1, <1>3 DEF SoundJournal, OncePerSlot
  <2>2. CASE i \in DOMAIN s /\ k = Len(s) + 1
    BY <2>2, <1>3, <1>5 DEF Has
  <2>3. CASE k \in DOMAIN s /\ i = Len(s) + 1
    BY <2>3, <1>3, <1>5 DEF Has
  <2> QED BY <1>3, <2>1, <2>2, <2>3
<1>8. ASSUME NEW i \in DOMAIN t PROVE Rests(t[i], t, i)
  <2>1. CASE i \in DOMAIN s
    BY <2>1, <1>3, <1>4 DEF SoundJournal
  <2>2. CASE i = Len(s) + 1
    BY <2>2, <1>3, <1>4, <1>6
  <2> QED BY <1>3, <2>1, <2>2
<1>9. /\ DOMAIN p \subseteq Nat \ {0}
      /\ \A i \in DOMAIN q : i + 1 \in DOMAIN p /\ i + 1 # 1 /\ q[i] = p[i + 1]
      /\ q \in Seq(LedgerEvents)
  BY Advancing
<1>10. \A i \in DOMAIN q : i \in Nat
  BY <1>9
<1> HIDE DEF q
<1>11. OncePerSlot(q)
  <2> SUFFICES ASSUME NEW i \in DOMAIN q, NEW k \in DOMAIN q, q[i].kind = q[k].kind,
                      q[i].slot = q[k].slot, q[i].kind \in {"publication", "receipt"}
               PROVE  i = k
    BY DEF OncePerSlot
  <2>1. i + 1 = k + 1
    BY <1>9 DEF SoundPlan, OncePerSlot
  <2> QED BY <1>10, <2>1
<1>12. ASSUME NEW i \in DOMAIN q
       PROVE  /\ Rests(q[i], t, Len(t) + 1)
              /\ q[i].kind \in {"publication", "receipt"} => ~Has(t, q[i].kind, q[i].slot)
  <2>1. i + 1 \in DOMAIN p /\ i + 1 # 1 /\ q[i] = p[i + 1]
    BY <1>9
  <2>2. Rests(q[i], t, Len(s) + 1)
    BY <1>4, <2>1 DEF SoundPlan
  <2>3. Rests(q[i], t, Len(t) + 1)
    <3>1. DOMAIN t \subseteq Nat /\ Len(s) + 1 \in Nat /\ Len(t) + 1 \in Nat /\ Len(s) + 1 <= Len(t) + 1
      BY <1>3
    <3> QED BY <2>2, <3>1, RestsLater
  <2>4. ASSUME q[i].kind \in {"publication", "receipt"}, Has(t, q[i].kind, q[i].slot) PROVE FALSE
    <3>1. ~Has(s, q[i].kind, q[i].slot)
      BY <2>1, <2>4 DEF SoundPlan
    <3>2. d.kind = q[i].kind /\ d.slot = q[i].slot
      BY <1>4, <2>4, <3>1
    <3>3. p[1].kind = p[i + 1].kind /\ p[1].slot = p[i + 1].slot
      BY <1>2, <2>1, <3>2
    <3>4. p[1].kind \in {"publication", "receipt"}
      BY <2>1, <2>4, <3>3
    <3> QED BY <1>1, <2>1, <3>3, <3>4 DEF SoundPlan, OncePerSlot
  <2> QED BY <2>3, <2>4
<1> QED BY <1>7, <1>8, <1>11, <1>12 DEF SoundJournal, SoundPlan, t, q, d

LEMMA JournalCut ==
    ASSUME NEW s \in Seq(LedgerEvents), NEW n \in 0 .. Len(s), SoundJournal(s)
    PROVE  /\ SubSeq(s, 1, n) \in Seq(LedgerEvents) /\ SoundJournal(SubSeq(s, 1, n))
           /\ \A i \in DOMAIN SubSeq(s, 1, n) : i \in DOMAIN s /\ SubSeq(s, 1, n)[i] = s[i]
<1> DEFINE t == SubSeq(s, 1, n)
<1>1. /\ t \in Seq(LedgerEvents) /\ DOMAIN t = 1 .. n /\ DOMAIN s = 1 .. Len(s) /\ Len(s) \in Nat
      /\ \A i \in 1 .. n : i \in DOMAIN s /\ t[i] = s[i]
  OBVIOUS
<1> HIDE DEF t
<1>2. OncePerSlot(t)
  BY <1>1 DEF SoundJournal, OncePerSlot
<1>3. ASSUME NEW i \in DOMAIN t PROVE Rests(t[i], t, i)
  <2>1. Rests(s[i], s, i) /\ t[i] = s[i]
    BY <1>1 DEF SoundJournal
  <2>2. \A k \in DOMAIN s : k < i => k \in DOMAIN t /\ t[k] = s[k]
    BY <1>1
  <2> QED BY <2>1, <2>2 DEF Rests
<1> QED BY <1>1, <1>2, <1>3 DEF SoundJournal, t

LEMMA EventMoves ==
    ASSUME NEW s \in Seq(LedgerEvents), NEW p \in Seq(LedgerEvents), p # <<>>, NEW b \in BOOLEAN
    PROVE  LET t == Append(s, Dated(p[1], b))
               q == SubSeq(p, 2, Len(p))
           IN  /\ \A kind, slot : Has(s, kind, slot) \/ Has(p, kind, slot) <=>
                                  Has(t, kind, slot) \/ Has(q, kind, slot)
               /\ \A slot, c : HasContent(s, slot, c) \/ HasContent(p, slot, c) =>
                               HasContent(t, slot, c) \/ HasContent(q, slot, c)
               /\ \A slot : HasCertificate(s, slot) \/ HasCertificate(p, slot) =>
                            HasCertificate(t, slot) \/ HasCertificate(q, slot)
<1> DEFINE d == Dated(p[1], b)
           t == Append(s, d)
           q == SubSeq(p, 2, Len(p))
<1>1. /\ 1 \in DOMAIN p /\ p[1] \in LedgerEvents
      /\ \A i \in DOMAIN q : i + 1 \in DOMAIN p /\ q[i] = p[i + 1]
      /\ \A i \in DOMAIN p : i = 1 \/ \E k \in DOMAIN q : q[k] = p[i]
  BY Advancing
<1>2. /\ d \in LedgerEvents /\ d.kind = p[1].kind /\ d.slot = p[1].slot
      /\ d.body = p[1].body /\ d.number = p[1].number
  BY <1>1, DatedKeeps
<1>3. /\ DOMAIN s = 1 .. Len(s) /\ Len(s) \in Nat /\ t[Len(s) + 1] = d
      /\ \A i \in DOMAIN s : i \in DOMAIN t /\ t[i] = s[i]
      /\ \A i \in DOMAIN t : i \in DOMAIN s \/ i = Len(s) + 1
      /\ DOMAIN t = 1 .. Len(s) + 1
  BY <1>2, OneAppended
<1>4. Len(s) + 1 \in DOMAIN t
  BY <1>3
<1> HIDE DEF d, t, q
<1>5. ASSUME NEW kind, NEW slot
      PROVE  Has(s, kind, slot) \/ Has(p, kind, slot) <=> Has(t, kind, slot) \/ Has(q, kind, slot)
  <2>1. Has(s, kind, slot) => Has(t, kind, slot)
    BY <1>3 DEF Has
  <2>2. Has(p, kind, slot) => Has(t, kind, slot) \/ Has(q, kind, slot)
    BY <1>1, <1>2, <1>3, <1>4 DEF Has
  <2>3. Has(q, kind, slot) => Has(p, kind, slot)
    BY <1>1 DEF Has
  <2>4. Has(t, kind, slot) => Has(s, kind, slot) \/ Has(p, kind, slot)
    BY <1>1, <1>2, <1>3 DEF Has
  <2> QED BY <2>1, <2>2, <2>3, <2>4
<1>6. ASSUME NEW slot, NEW c
      PROVE  HasContent(s, slot, c) \/ HasContent(p, slot, c) =>
             HasContent(t, slot, c) \/ HasContent(q, slot, c)
  <2>1. HasContent(s, slot, c) => HasContent(t, slot, c)
    BY <1>3 DEF HasContent
  <2>2. HasContent(p, slot, c) => HasContent(t, slot, c) \/ HasContent(q, slot, c)
    BY <1>1, <1>2, <1>3, <1>4 DEF HasContent
  <2> QED BY <2>1, <2>2
<1>7. ASSUME NEW slot
      PROVE  HasCertificate(s, slot) \/ HasCertificate(p, slot) =>
             HasCertificate(t, slot) \/ HasCertificate(q, slot)
  <2>1. HasCertificate(s, slot) => HasCertificate(t, slot)
    BY <1>3 DEF HasCertificate
  <2>2. HasCertificate(p, slot) => HasCertificate(t, slot) \/ HasCertificate(q, slot)
    BY <1>1, <1>2, <1>3, <1>4 DEF HasCertificate
  <2> QED BY <2>1, <2>2
<1> QED BY <1>5, <1>6, <1>7 DEF t, q, d

-----------------------------------------------------------------------------
(* What the session plans.                                                  *)

LEMMA LedgerConstants ==
    /\ Deadline \in Nat /\ End \in Nat /\ Versions \in Nat /\ MaxFetches \in Nat
    /\ Horizons \subseteq Nat /\ IsFiniteSet(Horizons) /\ 0 \in Numbers
    /\ Numbers = 0 .. MaxFetches + Versions /\ Numbers \subseteq Nat
<1>1. /\ Deadline \in Nat /\ End \in Nat /\ Versions \in Nat /\ MaxFetches \in Nat
      /\ Horizons \subseteq Nat /\ IsFiniteSet(Horizons)
  BY LedgerAssumption
<1> QED BY <1>1 DEF Numbers

LEMMA NothingIsFree == <<>> \in Seq(LedgerEvents) /\ Free(<<>>)
BY DEF Free

LEMMA FreeEvent ==
    ASSUME NEW kind \in EventKinds, kind \notin {"publication", "receipt", "input-receipt"},
           NEW slot \in Nat, NEW body \in EventBodies, NEW number \in Numbers
    PROVE  /\ <<Event(kind, slot, body, number)>> \in Seq(LedgerEvents)
           /\ Free(<<Event(kind, slot, body, number)>>)
           /\ Has(<<Event(kind, slot, body, number)>>, kind, slot)
<1>1. /\ Event(kind, slot, body, number) \in LedgerEvents
      /\ Event(kind, slot, body, number).kind = kind
      /\ Event(kind, slot, body, number).slot = slot
  BY EventsHave
<1> QED BY <1>1, OneEvent DEF Free, Has

LEMMA BothFree ==
    ASSUME NEW p \in Seq(LedgerEvents), NEW q \in Seq(LedgerEvents), Free(p), Free(q)
    PROVE  p \o q \in Seq(LedgerEvents) /\ Free(p \o q)
<1>1. /\ p \o q \in Seq(LedgerEvents) /\ DOMAIN (p \o q) = 1 .. Len(p) + Len(q)
      /\ DOMAIN p = 1 .. Len(p) /\ DOMAIN q = 1 .. Len(q) /\ Len(p) \in Nat /\ Len(q) \in Nat
      /\ \A i \in 1 .. Len(p) + Len(q) :
            (p \o q)[i] = IF i <= Len(p) THEN p[i] ELSE q[i - Len(p)]
  OBVIOUS
<1>2. ASSUME NEW i \in DOMAIN (p \o q)
      PROVE  (p \o q)[i].kind \notin {"publication", "receipt", "input-receipt"}
  <2>1. CASE i <= Len(p)
    <3>1. i \in DOMAIN p /\ (p \o q)[i] = p[i]
      BY <1>1, <1>2, <2>1
    <3> QED BY <3>1 DEF Free
  <2>2. CASE ~(i <= Len(p))
    <3>1. i - Len(p) \in DOMAIN q /\ (p \o q)[i] = q[i - Len(p)]
      BY <1>1, <1>2, <2>2
    <3> QED BY <3>1 DEF Free
  <2> QED BY <2>1, <2>2
<1> QED BY <1>1, <1>2 DEF Free

(* One event for each of some slots: a sequence of them. *)
SlotEvents(kind, slots, body) == {Event(kind, s, body, 0) : s \in slots}

LEMMA EventsOfSlots ==
    ASSUME NEW slots \in SUBSET Horizons, NEW kind \in EventKinds, NEW body \in EventBodies, NEW p,
           p = SetToSeq(SlotEvents(kind, slots, body))
    PROVE  /\ p \in Seq(LedgerEvents)
           /\ \A i \in DOMAIN p : p[i].kind = kind /\ p[i].slot \in slots /\ p[i].body = body
           /\ \A i, k \in DOMAIN p : p[i].slot = p[k].slot => i = k
<1> DEFINE S == SlotEvents(kind, slots, body)
           f == [s \in slots |-> Event(kind, s, body, 0)]
<1>1. IsFiniteSet(slots)
  BY LedgerConstants, FS_Subset
<1>2. f \in Surjection(slots, S)
  BY DEF Surjection, SlotEvents
<1>3. IsFiniteSet(S)
  BY <1>1, <1>2, FS_Surjection
<1>4. ASSUME NEW s \in slots
      PROVE  /\ Event(kind, s, body, 0) \in LedgerEvents /\ Event(kind, s, body, 0).kind = kind
             /\ Event(kind, s, body, 0).slot = s /\ Event(kind, s, body, 0).body = body
  <2>1. s \in Nat /\ 0 \in Numbers
    BY LedgerConstants
  <2> QED BY <2>1, EventsHave
<1>5. /\ S \in SUBSET LedgerEvents
      /\ \A e \in S : e.kind = kind /\ e.slot \in slots /\ e.body = body
      /\ \A e, g \in S : e.slot = g.slot => e = g
  BY <1>4 DEF SlotEvents
<1> HIDE DEF S
<1>6. /\ SetToSeq(S) \in Seq(LedgerEvents) /\ \A i \in DOMAIN SetToSeq(S) : SetToSeq(S)[i] \in S
      /\ \A i, k \in DOMAIN SetToSeq(S) : SetToSeq(S)[i] = SetToSeq(S)[k] => i = k
  BY <1>3, <1>5, SequenceOfSet
<1>7. \A i \in DOMAIN SetToSeq(S) : /\ SetToSeq(S)[i].kind = kind
                                    /\ SetToSeq(S)[i].slot \in slots
                                    /\ SetToSeq(S)[i].body = body
  BY <1>5, <1>6
<1>8. \A i, k \in DOMAIN SetToSeq(S) : SetToSeq(S)[i].slot = SetToSeq(S)[k].slot => i = k
  BY <1>5, <1>6
<1> QED BY <1>6, <1>7, <1>8 DEF S

LEMMA MarksAreFree ==
    ASSUME NEW slots \in SUBSET Horizons, NEW state \in EventBodies
    PROVE  Marks(slots, state) \in Seq(LedgerEvents) /\ Free(Marks(slots, state))
<1> DEFINE marked == {t \in slots : \A e \in Logged("slot", t) : e.body # state}
<1>1. marked \in SUBSET Horizons
  BY DEF Logged
<1>4. "slot" \in EventKinds
  BY DEF EventKinds
<1>2. Marks(slots, state) = SetToSeq(SlotEvents("slot", marked, state))
  BY DEF Marks, SlotEvents
<1> HIDE DEF marked
<1>3. /\ Marks(slots, state) \in Seq(LedgerEvents)
      /\ \A i \in DOMAIN Marks(slots, state) : Marks(slots, state)[i].kind = "slot"
  BY <1>1, <1>2, <1>4, EventsOfSlots
<1> QED BY <1>3 DEF Free

LEMMA LoggedHas ==
    /\ \A kind, slot : Logged(kind, slot) # {} <=> Has(journal, kind, slot)
    /\ Known = {s \in Horizons : Has(journal, "publication", s)}
    /\ Uncertified = {s \in Known : ~Has(journal, "receipt", s)}
    /\ Unpublished = {s \in Horizons : ~Has(journal, "publication", s)}
<1>1. \A kind, slot : Logged(kind, slot) # {} <=> Has(journal, kind, slot)
  BY DEF Logged, Events, ToSet, Has
<1>2. Known = {s \in Horizons : Has(journal, "publication", s)}
  BY <1>1 DEF Known
<1>3. Uncertified = {s \in Known : ~Has(journal, "receipt", s)}
  BY <1>1 DEF Uncertified
<1>4. Unpublished = {s \in Horizons : ~Has(journal, "publication", s)}
  BY <1>2 DEF Unpublished
<1> QED BY <1>1, <1>2, <1>3, <1>4

LEMMA NewestIsLogged ==
    ASSUME LedgerTypes
    PROVE  /\ Newest \in Numbers
           /\ (\E i \in DOMAIN journal : journal[i].kind = "input-observation") =>
                 \E i \in DOMAIN journal : /\ journal[i].kind = "input-observation"
                                           /\ journal[i].number = Newest
<1>1. \A e \in ToSet(journal) : e \in LedgerEvents
  BY DEF ToSet, LedgerTypes
<1>2. Observations \in SUBSET (0 .. MaxFetches + Versions)
  BY <1>1 DEF Observations, Events, LedgerEvents, Numbers
<1>3. MaxFetches + Versions \in Nat
  BY LedgerConstants
<1>4. Observations # {} => \E n \in Observations : \A m \in Observations : m =< n
  BY <1>2, <1>3, GreatestBounded
<1>5. Observations # {} => Newest \in Observations
  BY <1>4 DEF Newest
<1>6. Newest \in Numbers
  BY <1>2, <1>5, LedgerConstants DEF Newest, Numbers
<1>7. \A i \in DOMAIN journal : journal[i].kind = "input-observation" =>
                                     journal[i].number \in Observations
  BY DEF Observations, Events, ToSet
<1>8. \A n \in Observations : \E i \in DOMAIN journal :
            journal[i].kind = "input-observation" /\ journal[i].number = n
  BY DEF Observations, Events, ToSet
<1> QED BY <1>5, <1>6, <1>7, <1>8

-----------------------------------------------------------------------------
(* What every step starts from, and what it must keep.                      *)

LEMMA LedgerFacts ==
    ASSUME LedgerInv
    PROVE  /\ LedgerTypes /\ SoundJournal(journal) /\ SoundPlan(plan, journal) /\ LateIsLate
           /\ SessionTrue /\ Successes
           /\ time \in Nat /\ truth \in 0 .. Versions /\ truth \in Numbers
           /\ journal \in Seq(LedgerEvents) /\ plan \in Seq(LedgerEvents)
           /\ owner \in {"closed", "loading", "open", "refused"} /\ heading \in BOOLEAN
           /\ input \in Numbers /\ turn \in Nat /\ job \in [Horizons -> JobRecords]
<1>1. truth \in 0 .. Versions => truth \in Numbers
  BY LedgerConstants DEF Numbers
<1> QED BY <1>1 DEF LedgerInv, LedgerTypes

LEMMA LedgerInitHolds == LedgerInit => LedgerInv
<1> SUFFICES ASSUME LedgerInit PROVE LedgerInv
  OBVIOUS
<1> USE DEF LedgerInit
<1>1. NoJob \in JobRecords /\ NoJob.state = "none"
  BY LedgerConstants DEF NoJob, JobRecords
<1>2. LedgerTypes
  <2>1. job \in [Horizons -> JobRecords]
    BY <1>1
  <2>2. 0 \in 0 .. Versions
    BY LedgerConstants
  <2> QED BY <2>1, <2>2, LedgerConstants, NothingIsFree DEF LedgerTypes
<1>3. SoundJournal(journal) /\ SoundPlan(plan, journal) /\ LateIsLate
  BY DEF SoundJournal, SoundPlan, OncePerSlot, LateIsLate
<1>4. SessionTrue
  BY DEF SessionTrue
<1>5. Successes
  BY <1>1 DEF Successes
<1> QED BY <1>2, <1>3, <1>4, <1>5 DEF LedgerInv

(* The journal stays as it is. *)
LEMMA JournalKept ==
    ASSUME LedgerInv, UNCHANGED journal, time' = time \/ time' = time + 1, LedgerTypes',
           Free(plan') \/ plan' = plan \/ SoundPlan(plan', journal), SessionTrue', Successes'
    PROVE  LedgerInv'
<1>1. SoundPlan(plan', journal)
  BY FreeIsSound DEF LedgerInv
<1>2. LateIsLate'
  <2>1. time > Deadline => time' > Deadline
    BY LedgerFacts, LedgerConstants
  <2> QED BY <2>1, LedgerFacts DEF LateIsLate
<1>3. SoundPlan(plan, journal)' /\ SoundJournal(journal)'
  BY <1>1, LedgerFacts
<1> QED BY <1>2, <1>3 DEF LedgerInv

LEMMA IdleIsTrue ==
    ASSUME doing' = "idle", owner' \in {"closed", "refused"} => plan' = <<>> /\ ~heading'
    PROVE  SessionTrue'
BY DEF SessionTrue

(* Jobs that did not succeed do not succeed by being settled or abandoned. *)
LEMMA SuccessesKept ==
    ASSUME Successes, UNCHANGED <<journal, lost>>,
           \A s \in Horizons : job'[s].state = "succeeded" => job'[s] = job[s]
    PROVE  Successes'
BY DEF Successes

LEMMA StateSet ==
    ASSUME NEW r \in JobRecords, NEW st,
           st \in {"queued", "running", "interrupted", "expired", "cancelled", "failed", "succeeded"}
    PROVE  /\ [r EXCEPT !.state = st] \in JobRecords
           /\ [r EXCEPT !.state = st].state = st
           /\ [r EXCEPT !.state = st].content = r.content
BY DEF JobRecords

WithState(j, s, st) == [j EXCEPT ![s].state = st]

LEMMA JobSet ==
    ASSUME NEW j \in [Horizons -> JobRecords], NEW s \in Horizons, NEW st,
           st \in {"queued", "running", "interrupted", "expired", "cancelled", "failed", "succeeded"}
    PROVE  /\ WithState(j, s, st) \in [Horizons -> JobRecords]
           /\ WithState(j, s, st)[s].state = st
           /\ WithState(j, s, st)[s].content = j[s].content
           /\ \A t \in Horizons : t # s => WithState(j, s, st)[t] = j[t]
<1> DEFINE new == [j[s] EXCEPT !.state = st]
<1>1. new \in JobRecords /\ new.state = st /\ new.content = j[s].content
  BY StateSet
<1>2. WithState(j, s, st) = [j EXCEPT ![s] = new]
  BY DEF WithState
<1> HIDE DEF new
<1>3. /\ [j EXCEPT ![s] = new] \in [Horizons -> JobRecords] /\ [j EXCEPT ![s] = new][s] = new
      /\ \A t \in Horizons : t # s => [j EXCEPT ![s] = new][t] = j[t]
  BY <1>1
<1> QED BY <1>1, <1>2, <1>3

LEMMA SettledIs ==
    ASSUME NEW s \in Horizons, job \in [Horizons -> JobRecords]
    PROVE  /\ Settled(s) \in JobRecords
           /\ Settled(s) = job[s] \/ Settled(s).state = "expired"
<1>1. job[s] \in JobRecords
  OBVIOUS
<1> QED BY <1>1, StateSet DEF Settled

LEMMA AbandonedIs ==
    ASSUME job \in [Horizons -> JobRecords]
    PROVE  /\ Abandoned \in [Horizons -> JobRecords]
           /\ \A s \in Horizons : Abandoned[s].state = "succeeded" => Abandoned[s] = job[s]
<1>1. \A s \in Horizons : /\ [job[s] EXCEPT !.state = "failed"] \in JobRecords
                          /\ [job[s] EXCEPT !.state = "failed"].state = "failed"
  BY StateSet
<1> QED BY <1>1 DEF Abandoned

-----------------------------------------------------------------------------
(* The world and the ledger.                                                *)

LEMMA WorldStep == ASSUME LedgerInv, Wait \/ Shake \/ Revise PROVE LedgerInv'
<1>1. /\ UNCHANGED <<journal, lost, owner, plan, heading, doing, input, turn, job>>
      /\ time' = time \/ time' = time + 1
      /\ truth' \in 0 .. Versions
  BY LedgerFacts, LedgerConstants DEF Wait, Shake, Revise, disk, session
<1>2. LedgerTypes'
  <2>1. time' \in Nat
    BY <1>1, LedgerFacts
  <2> QED BY <1>1, <2>1, LedgerFacts DEF LedgerTypes
<1>3. SessionTrue' /\ Successes'
  BY <1>1, LedgerFacts DEF SessionTrue, Recorded, Successes
<1> QED BY <1>1, <1>2, <1>3, JournalKept

LEMMA OpenLedgerStep == ASSUME LedgerInv, OpenLedger PROVE LedgerInv'
<1>1. /\ owner = "closed" /\ plan = <<>> /\ ~heading /\ doing = "idle"
      /\ UNCHANGED <<time, truth, journal, lost, heading, doing, input, turn, job>>
  BY LedgerFacts DEF OpenLedger, world, disk, session, SessionTrue
<1>2. CASE owner' = "refused" /\ plan' = plan
  <2>1. LedgerTypes'
    BY <1>1, <1>2, LedgerFacts DEF LedgerTypes
  <2>2. SessionTrue' /\ Successes'
    BY <1>1, <1>2, LedgerFacts, IdleIsTrue, SuccessesKept
  <2> QED BY <1>1, <1>2, <2>1, <2>2, JournalKept
<1>3. CASE /\ owner' = "loading"
           /\ plan' = SetToSeq(SlotEvents("receipt", Uncertified, "recovery-unknown"))
  <2>1. Uncertified \in SUBSET Horizons
    BY LoggedHas
  <2>2. "receipt" \in EventKinds /\ "recovery-unknown" \in EventBodies
    BY DEF EventKinds, EventBodies
  <2>3. /\ plan' \in Seq(LedgerEvents)
        /\ \A i \in DOMAIN plan' : /\ plan'[i].kind = "receipt"
                                   /\ plan'[i].slot \in Uncertified
                                   /\ plan'[i].body = "recovery-unknown"
        /\ \A i, k \in DOMAIN plan' : plan'[i].slot = plan'[k].slot => i = k
    BY <1>3, <2>1, <2>2, EventsOfSlots
  <2>4. \A s \in Uncertified : ~Has(journal, "receipt", s) /\ Has(journal, "publication", s)
    BY LoggedHas
  <2>5. DOMAIN journal = 1 .. Len(journal) /\ Len(journal) \in Nat
    BY LedgerFacts
  <2>6. ASSUME NEW i \in DOMAIN plan' PROVE Rests(plan'[i], journal, Len(journal) + 1)
    <3>1. PICK k \in DOMAIN journal : /\ journal[k].kind = "publication"
                                      /\ journal[k].slot = plan'[i].slot
      BY <2>3, <2>4, <2>6 DEF Has
    <3>2. k < Len(journal) + 1
      BY <2>5
    <3> QED BY <2>3, <2>6, <3>1, <3>2 DEF Rests
  <2>7. OncePerSlot(plan')
    BY <2>3 DEF OncePerSlot
  <2>8. SoundPlan(plan', journal)
    BY <2>3, <2>4, <2>6, <2>7 DEF SoundPlan
  <2>9. LedgerTypes'
    BY <1>1, <1>3, <2>3, LedgerFacts DEF LedgerTypes
  <2>10. SessionTrue' /\ Successes'
    BY <1>1, <1>3, LedgerFacts, IdleIsTrue, SuccessesKept
  <2> QED BY <1>1, <2>8, <2>9, <2>10, JournalKept
<1> QED BY <1>2, <1>3 DEF OpenLedger, SlotEvents

LEMMA CommitEventStep == ASSUME LedgerInv, CommitEvent PROVE LedgerInv'
<1>1. /\ plan # <<>> /\ ~heading /\ heading' = TRUE
      /\ UNCHANGED <<time, truth, lost, owner, doing, input, turn, job>>
      /\ (time =< Deadline) \in BOOLEAN
      /\ journal' = Append(journal, Dated(plan[1], time =< Deadline))
      /\ plan' = SubSeq(plan, 2, Len(plan))
  BY DEF CommitEvent, world, session, Dated
<1>2. journal \in Seq(LedgerEvents) /\ plan \in Seq(LedgerEvents)
  BY LedgerFacts
<1>3. SoundJournal(journal') /\ SoundPlan(plan', journal')
  BY <1>1, <1>2, JournalGrows, LedgerFacts
<1>4. /\ \A kind, slot : Recorded(kind, slot)' <=> Recorded(kind, slot)
      /\ \A slot, c : HasContent(journal, slot, c) \/ HasContent(plan, slot, c) =>
                      HasContent(journal', slot, c) \/ HasContent(plan', slot, c)
      /\ \A slot : HasCertificate(journal, slot) \/ HasCertificate(plan, slot) =>
                   HasCertificate(journal', slot) \/ HasCertificate(plan', slot)
  BY <1>1, <1>2, EventMoves DEF Recorded
<1>5. plan[1] \in LedgerEvents
  BY <1>1, <1>2, Advancing
<1>6. /\ Dated(plan[1], time =< Deadline) \in LedgerEvents
      /\ Dated(plan[1], time =< Deadline).timely = (time =< Deadline)
  BY <1>1, <1>5, DatedKeeps
<1>7. plan' \in Seq(LedgerEvents) /\ journal' \in Seq(LedgerEvents)
  BY <1>1, <1>2, <1>6, Advancing, OneAppended
<1>8. LedgerTypes'
  BY <1>1, <1>7, LedgerFacts DEF LedgerTypes
<1>9. LateIsLate'
  <2> SUFFICES ASSUME NEW i \in DOMAIN journal', ~journal'[i].timely PROVE time > Deadline
    BY <1>1 DEF LateIsLate
  <2>1. CASE i \in DOMAIN journal
    <3>1. journal'[i] = journal[i]
      BY <1>1, <1>2, <1>6, <2>1, OneAppended
    <3> QED BY <2>1, <3>1, LedgerFacts DEF LateIsLate
  <2>2. CASE i = Len(journal) + 1
    <3>1. journal'[i] = Dated(plan[1], time =< Deadline)
      BY <1>1, <1>2, <1>6, <2>2, OneAppended
    <3>2. ~(time =< Deadline)
      BY <1>6, <3>1
    <3> QED BY <3>2, LedgerFacts, LedgerConstants
  <2> QED BY <1>1, <1>2, <1>6, <2>1, <2>2, OneAppended
<1>10. owner \notin {"closed", "refused"}
  BY <1>1, LedgerFacts DEF SessionTrue
<1>11. SessionTrue'
  BY <1>1, <1>4, <1>10, LedgerFacts DEF SessionTrue
<1>12. Successes'
  <2>1. /\ \A slot, c : HasContent(journal, slot, c) => HasContent(journal', slot, c)
        /\ \A slot : HasCertificate(journal, slot) => HasCertificate(journal', slot)
    BY <1>1, <1>2, <1>6, Extended
  <2> QED BY <1>1, <2>1, LedgerFacts DEF Successes
<1> QED BY <1>3, <1>8, <1>9, <1>11, <1>12 DEF LedgerInv

LEMMA WriteHeadStep == ASSUME LedgerInv, WriteHead PROVE LedgerInv'
<1>1. /\ UNCHANGED <<time, truth, journal, lost, owner, plan, doing, input, turn, job>>
      /\ heading' = FALSE
  BY DEF WriteHead, world, session
<1>2. LedgerTypes'
  BY <1>1, LedgerFacts DEF LedgerTypes
<1>3. SessionTrue' /\ Successes'
  BY <1>1, LedgerFacts DEF SessionTrue, Recorded, Successes
<1> QED BY <1>1, <1>2, <1>3, JournalKept

LEMMA StopsStep == ASSUME LedgerInv, Refuse \/ Crash \/ LedgerFails PROVE LedgerInv'
<1>1. /\ UNCHANGED <<time, truth, journal, lost>>
      /\ owner' \in {"refused", "closed"} /\ plan' = <<>> /\ ~heading' /\ heading' \in BOOLEAN
      /\ doing' = "idle" /\ input' = 0 /\ turn' = 0 /\ job' \in {job, Abandoned}
  <2>1. CASE Refuse
    BY <2>1, LedgerFacts DEF Refuse, world, disk, Idle
  <2>2. CASE Crash
    BY <2>2 DEF Crash, world, disk, Idle
  <2>3. CASE LedgerFails
    BY <2>3 DEF LedgerFails, world, disk, Idle
  <2> QED BY <2>1, <2>2, <2>3
<1>2. /\ job' \in [Horizons -> JobRecords]
      /\ \A s \in Horizons : job'[s].state = "succeeded" => job'[s] = job[s]
  BY <1>1, LedgerFacts, AbandonedIs
<1>3. LedgerTypes'
  BY <1>1, <1>2, LedgerFacts, LedgerConstants, NothingIsFree DEF LedgerTypes
<1>4. SessionTrue' /\ Successes'
  BY <1>1, <1>2, LedgerFacts, IdleIsTrue, SuccessesKept
<1> QED BY <1>1, <1>3, <1>4, JournalKept, NothingIsFree

LEMMA RollBackStep == ASSUME LedgerInv, RollBack PROVE LedgerInv'
<1>1. /\ owner = "closed" /\ plan = <<>> /\ ~heading /\ doing = "idle" /\ lost'
      /\ UNCHANGED <<time, truth, owner, plan, heading, doing, input, turn, job>>
  BY LedgerFacts DEF RollBack, world, session, SessionTrue
<1>2. PICK n \in 0 .. Len(journal) - 1 : journal' = SubSeq(journal, 1, n)
  BY DEF RollBack
<1>3. n \in 0 .. Len(journal)
  BY <1>2, LedgerFacts
<1>4. /\ journal' \in Seq(LedgerEvents) /\ SoundJournal(journal')
      /\ \A i \in DOMAIN journal' : i \in DOMAIN journal /\ journal'[i] = journal[i]
  BY <1>2, <1>3, LedgerFacts, JournalCut
<1>5. LedgerTypes'
  BY <1>1, <1>4, LedgerFacts DEF LedgerTypes
<1>6. LateIsLate'
  BY <1>1, <1>4, LedgerFacts DEF LateIsLate
<1>7. SoundPlan(plan', journal')
  BY <1>1, NothingIsFree, FreeIsSound
<1>8. SessionTrue' /\ Successes'
  BY <1>1, IdleIsTrue DEF Successes
<1> QED BY <1>4, <1>5, <1>6, <1>7, <1>8 DEF LedgerInv

-----------------------------------------------------------------------------
(* The session.                                                             *)

(* When all that was planned is appended. *)
LEMMA AtWork ==
    ASSUME LedgerInv, NEW p, Working(p)
    PROVE  /\ owner = "open" /\ doing = p /\ plan = <<>> /\ ~heading
           /\ \A kind, slot : Recorded(kind, slot) => Has(journal, kind, slot)
           /\ \A slot, c : ~HasContent(plan, slot, c)
           /\ \A slot : ~HasCertificate(plan, slot)
BY DEF Working, Recorded, Has, HasContent, HasCertificate

(* A step that only decides what comes next, and plans what nothing rests on. *)
LEMMA Onwards ==
    ASSUME LedgerInv, UNCHANGED <<time, truth, journal, lost, heading>>, owner = "open",
           doing' \in {"idle", "fetching", "fetched", "late", "scheduling", "running"},
           owner' = "open" \/ (owner' = "closed" /\ doing' = "idle" /\ plan' = <<>> /\ ~heading),
           plan' \in Seq(LedgerEvents), Free(plan'), input' \in Numbers, turn' \in Nat,
           job' \in [Horizons -> JobRecords],
           \A s \in Horizons : job'[s].state = "succeeded" => job'[s] = job[s]
    PROVE  LedgerInv'
<1>1. LedgerTypes'
  BY LedgerFacts DEF LedgerTypes
<1>2. SessionTrue'
  BY DEF SessionTrue
<1>3. Successes'
  BY LedgerFacts, SuccessesKept
<1> QED BY <1>1, <1>2, <1>3, JournalKept

LEMMA UnpublishedAreSlots == Unpublished \in SUBSET Horizons
BY DEF Unpublished

LEMMA MarkBodies ==
    {"missing", "missed", "pending", "excluded", "", "late", "recovery-unknown"} \subseteq EventBodies
BY DEF EventBodies

LEMMA TickStep == ASSUME LedgerInv, Tick PROVE LedgerInv'
<1>1. /\ owner = "open"
      /\ UNCHANGED <<time, truth, journal, lost, owner, heading, input, job, turn>>
  BY AtWork DEF Tick, world, disk, Working
<1>2. /\ doing' \in {"idle", "fetching"}
      /\ plan' \in {<<>>, Marks(Unpublished, "missing"), Marks(Unpublished, "missed")}
  BY DEF Tick, Go
<1>3. plan' \in Seq(LedgerEvents) /\ Free(plan')
  BY <1>2, NothingIsFree, MarksAreFree, UnpublishedAreSlots, MarkBodies
<1> QED BY <1>1, <1>2, <1>3, LedgerFacts, Onwards

LEMMA MissStep == ASSUME LedgerInv, NEW p, Miss(p) PROVE LedgerInv'
<1>1. /\ owner = "open" /\ doing' = "idle" /\ input' = 0 /\ turn' = 0
      /\ UNCHANGED <<time, truth, journal, lost, owner, heading, job>>
      /\ plan' = Marks(Unpublished, "missing")
  BY AtWork DEF Miss, world, disk, Working, Idle
<1>2. plan' \in Seq(LedgerEvents) /\ Free(plan')
  BY <1>1, MarksAreFree, UnpublishedAreSlots, MarkBodies
<1> QED BY <1>1, <1>2, LedgerFacts, LedgerConstants, Onwards

LEMMA FetchInputStep == ASSUME LedgerInv, FetchInput PROVE LedgerInv'
<1>1. /\ owner = "open" /\ doing' = "fetched"
      /\ UNCHANGED <<time, truth, journal, lost, owner, heading, input, job, turn>>
      /\ plan' \in {<<>>, <<Event("input", 0, "", 0)>>}
  BY DEF FetchInput, world, disk, Working, Go
<1>2. "input" \in EventKinds /\ "" \in EventBodies
  BY DEF EventKinds, EventBodies
<1>3. <<Event("input", 0, "", 0)>> \in Seq(LedgerEvents) /\ Free(<<Event("input", 0, "", 0)>>)
  BY <1>2, LedgerConstants, FreeEvent
<1>4. plan' \in Seq(LedgerEvents) /\ Free(plan')
  BY <1>1, <1>3, NothingIsFree
<1> QED BY <1>1, <1>4, LedgerFacts, Onwards

LEMMA UseCachedStep == ASSUME LedgerInv, UseCached PROVE LedgerInv'
<1>1. /\ owner = "open" /\ doing' = "scheduling" /\ plan' = <<>> /\ input' = Newest
      /\ UNCHANGED <<time, truth, journal, lost, owner, heading, job, turn>>
  BY DEF UseCached, world, disk, Working, Go
<1>2. Newest \in Numbers
  BY LedgerFacts, NewestIsLogged
<1> QED BY <1>1, <1>2, LedgerFacts, NothingIsFree, Onwards

LEMMA ObserveStep == ASSUME LedgerInv, Observe PROVE LedgerInv'
<1>1. /\ owner = "open" /\ Newest < MaxFetches /\ doing' = "observed"
      /\ UNCHANGED <<time, truth, journal, lost, owner, heading, input, job, turn>>
      /\ plan' = <<Event("input-observation", 0, "", Newest + 1)>>
  BY DEF Observe, world, disk, Working, Go
<1>2. Newest + 1 \in Numbers
  <2>1. Newest \in Nat /\ MaxFetches \in Nat /\ Versions \in Nat
    BY LedgerFacts, NewestIsLogged, LedgerConstants
  <2>2. Newest < MaxFetches
    BY <1>1
  <2> QED BY <2>1, <2>2 DEF Numbers
<1>3. "input-observation" \in EventKinds /\ "" \in EventBodies
  BY DEF EventKinds, EventBodies
<1>4. plan' \in Seq(LedgerEvents) /\ Free(plan') /\ Has(plan', "input-observation", 0)
  BY <1>1, <1>2, <1>3, LedgerConstants, FreeEvent
<1>5. LedgerTypes'
  BY <1>1, <1>4, LedgerFacts DEF LedgerTypes
<1>6. SessionTrue' /\ Successes'
  BY <1>1, <1>4, LedgerFacts, SuccessesKept DEF SessionTrue, Recorded
<1> QED BY <1>1, <1>4, <1>5, <1>6, JournalKept

LEMMA TimelinessIs ==
    ASSUME LedgerInv, NEW radius \in {0, 1}
    PROVE  /\ Timeliness(radius) \in EventBodies /\ Timeliness(radius) # "recovery-unknown"
           /\ Timeliness(radius) = "on-time" => \A i \in DOMAIN journal : journal[i].timely
<1>1. Timeliness(radius) \in EventBodies /\ Timeliness(radius) # "recovery-unknown"
  BY DEF Timeliness, EventBodies
<1>2. Timeliness(radius) = "on-time" => time + radius =< Deadline
  BY DEF Timeliness
<1>3. time + radius =< Deadline => ~(time > Deadline)
  BY LedgerFacts, LedgerConstants
<1> QED BY <1>1, <1>2, <1>3, LedgerFacts DEF LateIsLate

LEMMA CertifyInputStep == ASSUME LedgerInv, CertifyInput PROVE LedgerInv'
<1>1. /\ owner = "open" /\ doing = "observed" /\ plan = <<>>
      /\ UNCHANGED <<time, truth, journal, lost, owner, heading, job, turn>>
      /\ input' = Newest
  BY DEF CertifyInput, world, disk, Working
<1>2. PICK radius \in {0, 1} :
         /\ doing' \in {"late", "scheduling"}
         /\ plan' = <<Event("input-receipt", 0, Timeliness(radius), Newest)>>
  BY DEF CertifyInput, Go
<1> DEFINE e == Event("input-receipt", 0, Timeliness(radius), Newest)
<1>3. Newest \in Numbers
  BY LedgerFacts, NewestIsLogged
<1>4. "input-receipt" \in EventKinds
  BY DEF EventKinds
<1>5. /\ e \in LedgerEvents /\ e.kind = "input-receipt" /\ e.body = Timeliness(radius)
      /\ e.number = Newest
  BY <1>3, <1>4, LedgerConstants, TimelinessIs, EventsHave
<1>6. PICK i \in DOMAIN journal :
         journal[i].kind = "input-observation" /\ journal[i].number = Newest
  <2>1. Has(journal, "input-observation", 0)
    BY <1>1, LedgerFacts DEF SessionTrue, Recorded, Has
  <2> QED BY <2>1, LedgerFacts, NewestIsLogged DEF Has
<1> HIDE DEF e
<1>7. Rests(e, journal, Len(journal) + 1)
  <2>1. i < Len(journal) + 1
    BY LedgerFacts
  <2>2. e.body = "on-time" => journal[i].timely
    BY <1>5, <1>6, TimelinessIs
  <2> QED BY <1>5, <1>6, <2>1, <2>2 DEF Rests
<1>8. SoundPlan(<<e>>, journal)
  BY <1>5, <1>7, LedgerFacts, OneIsSound
<1>9. plan' = <<e>> /\ plan' \in Seq(LedgerEvents)
  BY <1>2, <1>5, OneEvent DEF e
<1>10. LedgerTypes'
  BY <1>1, <1>3, <1>9, LedgerFacts DEF LedgerTypes
<1>11. SessionTrue' /\ Successes'
  BY <1>1, <1>2, LedgerFacts, SuccessesKept DEF SessionTrue
<1> QED BY <1>1, <1>8, <1>9, <1>10, <1>11, JournalKept

LEMMA ScheduleStep == ASSUME LedgerInv, Schedule PROVE LedgerInv'
<1>1. /\ owner = "open" /\ doing' = "running"
      /\ UNCHANGED <<time, truth, journal, lost, owner, heading, input, turn>>
  BY DEF Schedule, world, disk, Working, Go
<1> DEFINE missed == {s \in Unpublished : job[s] = NoJob /\ time > Deadline
                                          /\ Logged("slot", s) = {}}
<1>2. plan' = Marks(missed, "missed")
  BY DEF Schedule, Go
<1>3. missed \in SUBSET Horizons
  BY UnpublishedAreSlots
<1> HIDE DEF missed
<1>4. plan' \in Seq(LedgerEvents) /\ Free(plan')
  BY <1>2, <1>3, MarksAreFree, MarkBodies
<1> DEFINE new == [state |-> "queued", content |-> input, attempt |-> 0]
<1>5. job' = [s \in Horizons |->
                 IF s \in Unpublished /\ job[s] = NoJob /\ time =< Deadline THEN new
                 ELSE IF s \in Unpublished THEN Settled(s) ELSE job[s]]
  BY DEF Schedule
<1>6. new \in JobRecords /\ new.state = "queued"
  BY LedgerFacts DEF JobRecords
<1> HIDE DEF new
<1>7. \A s \in Horizons : /\ Settled(s) \in JobRecords /\ job[s] \in JobRecords
                          /\ Settled(s) = job[s] \/ Settled(s).state = "expired"
  BY LedgerFacts, SettledIs
<1>8. /\ job' \in [Horizons -> JobRecords]
      /\ \A s \in Horizons : job'[s].state = "succeeded" => job'[s] = job[s]
  BY <1>5, <1>6, <1>7
<1> QED BY <1>1, <1>4, <1>8, LedgerFacts, Onwards

LEMMA OpenStoreStep == ASSUME LedgerInv, OpenStore PROVE LedgerInv'
<1>1. /\ owner = "loading" /\ owner' = "open" /\ plan = <<>> /\ plan' = <<>> /\ ~heading
      /\ UNCHANGED <<time, truth, journal, lost, heading, doing, input, turn>>
      /\ doing = "idle"
  BY LedgerFacts DEF OpenStore, world, disk, session, SessionTrue
<1>2. \A s \in Horizons :
         /\ Settled(s) \in JobRecords /\ job[s] \in JobRecords
         /\ Settled(s) = job[s] \/ Settled(s).state = "expired"
         /\ [job[s] EXCEPT !.state = "interrupted"] \in JobRecords
         /\ [job[s] EXCEPT !.state = "interrupted"].state = "interrupted"
  BY LedgerFacts, SettledIs, StateSet
<1>3. /\ job' \in [Horizons -> JobRecords]
      /\ \A s \in Horizons : job'[s].state = "succeeded" => job'[s] = job[s]
  BY <1>2 DEF OpenStore
<1>4. LedgerTypes'
  BY <1>1, <1>3, LedgerFacts DEF LedgerTypes
<1>5. SessionTrue' /\ Successes'
  BY <1>1, <1>3, LedgerFacts, IdleIsTrue, SuccessesKept
<1> QED BY <1>1, <1>4, <1>5, JournalKept

LEMMA ClaimStep == ASSUME LedgerInv, Claim PROVE LedgerInv'
<1>1. /\ owner = "open" /\ plan = <<>> /\ doing = "running" /\ ~heading
      /\ UNCHANGED <<time, truth, journal, lost, owner, plan, heading, input>>
  BY DEF Claim, world, disk, Working
<1>2. PICK s \in Due :
         \/ job' = [job EXCEPT ![s].state = "failed"] /\ UNCHANGED <<doing, turn>>
         \/ /\ job' = [job EXCEPT ![s].state = "running", ![s].attempt = @ + 1]
            /\ turn' = s /\ doing' = "executing"
  BY DEF Claim
<1>3. s \in Horizons /\ ~Has(journal, "publication", s) /\ s \in Nat
  BY LoggedHas, LedgerConstants DEF Due
<1>4. CASE job' = [job EXCEPT ![s].state = "failed"] /\ UNCHANGED <<doing, turn>>
  <2>1. /\ job' \in [Horizons -> JobRecords]
        /\ \A t \in Horizons : job'[t].state = "succeeded" => job'[t] = job[t]
    <3>1. /\ job' \in [Horizons -> JobRecords] /\ job'[s].state = "failed"
          /\ \A t \in Horizons : t # s => job'[t] = job[t]
      <4>1. job' = WithState(job, s, "failed")
        BY <1>4 DEF WithState
      <4> QED BY <1>3, <4>1, LedgerFacts, JobSet
    <3> QED BY <3>1
  <2> QED BY <1>1, <1>4, <2>1, LedgerFacts, NothingIsFree, Onwards
<1>5. CASE /\ job' = [job EXCEPT ![s].state = "running", ![s].attempt = @ + 1]
           /\ turn' = s /\ doing' = "executing"
  <2> DEFINE new == [job[s] EXCEPT !.state = "running", !.attempt = job[s].attempt + 1]
  <2>1. job[s] \in JobRecords /\ job[s].attempt + 1 \in Nat
    BY <1>3, LedgerFacts DEF JobRecords
  <2>2. new \in JobRecords /\ new.state = "running"
    <3> DEFINE once == [job[s] EXCEPT !.state = "running"]
    <3>1. once \in JobRecords /\ once.state = "running"
      BY <2>1, StateSet
    <3>2. new = [once EXCEPT !.attempt = job[s].attempt + 1]
      OBVIOUS
    <3> HIDE DEF once, new
    <3> QED BY <2>1, <3>1, <3>2 DEF JobRecords
  <2>3. job' = [job EXCEPT ![s] = new]
    BY <1>5
  <2> HIDE DEF new
  <2>4. /\ job' \in [Horizons -> JobRecords] /\ job'[s].state = "running"
        /\ \A t \in Horizons : job'[t].state = "succeeded" => job'[t] = job[t]
    BY <1>3, <2>2, <2>3, LedgerFacts
  <2>5. LedgerTypes'
    BY <1>1, <1>3, <1>5, <2>4, LedgerFacts DEF LedgerTypes
  <2>6. ~Recorded("publication", s)'
    BY <1>1, <1>3 DEF Recorded, Has
  <2>7. SessionTrue' /\ Successes'
    BY <1>1, <1>3, <1>5, <2>4, <2>6, LedgerFacts, SuccessesKept DEF SessionTrue
  <2> QED BY <1>1, <2>5, <2>7, JournalKept
<1> QED BY <1>2, <1>4, <1>5

LEMMA ClaimExpiredStep == ASSUME LedgerInv, ClaimExpired PROVE LedgerInv'
<1>1. /\ owner = "open" /\ doing' = "idle" /\ input' = 0 /\ turn' = 0
      /\ UNCHANGED <<time, truth, journal, lost, owner, heading>>
      /\ plan' = Marks(Unpublished, "missing")
      /\ job' = [s \in Horizons |-> IF s \in Due THEN Settled(s) ELSE job[s]]
  BY DEF ClaimExpired, world, disk, Working, Idle
<1>2. plan' \in Seq(LedgerEvents) /\ Free(plan')
  BY <1>1, MarksAreFree, UnpublishedAreSlots, MarkBodies
<1>3. \A s \in Horizons : /\ Settled(s) \in JobRecords /\ job[s] \in JobRecords
                          /\ Settled(s) = job[s] \/ Settled(s).state = "expired"
  BY LedgerFacts, SettledIs
<1>4. /\ job' \in [Horizons -> JobRecords]
      /\ \A s \in Horizons : job'[s].state = "succeeded" => job'[s] = job[s]
  BY <1>1, <1>3
<1> QED BY <1>1, <1>2, <1>4, LedgerConstants, Onwards

LEMMA RunEndsStep == ASSUME LedgerInv, DoneInferring \/ EndRun PROVE LedgerInv'
<1>1. /\ owner = "open" /\ plan = <<>> /\ ~heading /\ doing' = "idle"
      /\ owner' \in {"open", "closed"}
      /\ UNCHANGED <<time, truth, journal, lost, plan, heading, job>>
      /\ input' \in {0, input} /\ turn' \in {0, turn}
  BY DEF DoneInferring, EndRun, world, disk, session, Working, Idle
<1>2. input' \in Numbers /\ turn' \in Nat
  BY <1>1, LedgerFacts, LedgerConstants
<1> QED BY <1>1, <1>2, LedgerFacts, NothingIsFree, Onwards

(* The job in execution leaves it, its publication perhaps behind it. *)
LEMMA LeavesExecution ==
    ASSUME LedgerInv, doing \in {"executing", "published"}, plan = <<>>, ~heading, owner = "open",
           NEW st, st \in {"expired", "cancelled", "failed"},
           job' = WithState(job, turn, st),
           UNCHANGED <<time, truth, journal, lost, heading>>,
           doing' \in {"idle", "running"}, plan' = <<>>, turn' = 0, input' \in Numbers,
           owner' = "open" \/ (owner' = "closed" /\ doing' = "idle")
    PROVE  LedgerInv'
<1>1. turn \in Horizons
  BY LedgerFacts DEF SessionTrue
<1>2. /\ job' \in [Horizons -> JobRecords]
      /\ \A t \in Horizons : job'[t].state = "succeeded" => job'[t] = job[t]
  BY <1>1, LedgerFacts, JobSet
<1> QED BY <1>2, LedgerFacts, LedgerConstants, NothingIsFree, Onwards

LEMMA CancelRunStep == ASSUME LedgerInv, CancelRun PROVE LedgerInv'
<1>1. /\ owner = "open" /\ plan = <<>> /\ ~heading /\ doing = "executing"
      /\ owner' = "closed" /\ plan' = <<>> /\ doing' = "idle" /\ turn' = 0 /\ input' = 0
      /\ UNCHANGED <<time, truth, journal, lost, heading>>
  BY DEF CancelRun, world, disk, Working, Idle
<1>2. job' = WithState(job, turn, IF PastDeadline(turn) THEN "expired" ELSE "cancelled")
  BY DEF CancelRun, WithState
<1> QED BY <1>1, <1>2, LedgerConstants, LeavesExecution

LEMMA CertificateFailsStep == ASSUME LedgerInv, CertificateFails PROVE LedgerInv'
<1>1. /\ owner = "open" /\ plan = <<>> /\ ~heading /\ doing = "published"
      /\ owner' = "open" /\ plan' = <<>> /\ doing' = "running" /\ turn' = 0
      /\ UNCHANGED <<time, truth, journal, lost, heading, input>>
  BY DEF CertificateFails, world, disk, Working, Go
<1>2. job' = WithState(job, turn, IF PastDeadline(turn) THEN "expired" ELSE "failed")
  BY DEF CertificateFails, WithState
<1> QED BY <1>1, <1>2, LedgerFacts, LeavesExecution

LEMMA AcceptStep == ASSUME LedgerInv, Accept PROVE LedgerInv'
<1>1. /\ owner = "open" /\ plan = <<>> /\ ~heading /\ doing = "executing"
      /\ UNCHANGED <<time, truth, journal, lost, owner, heading, input>>
  BY DEF Accept, world, disk, Working
<1>2. CASE PastDeadline(turn)
  <2>1. job' = WithState(job, turn, "expired") /\ turn' = 0 /\ doing' = "running" /\ plan' = <<>>
    BY <1>2 DEF Accept, Go, WithState
  <2> QED BY <1>1, <2>1, LedgerFacts, LeavesExecution
<1>3. CASE ~PastDeadline(turn)
  <2>1. /\ UNCHANGED <<job, turn>> /\ doing' = "publishing"
        /\ plan' \in {<<>>, <<Event("stream", 0, "", 0)>>}
    BY <1>3 DEF Accept, Go
  <2>2. "stream" \in EventKinds /\ "" \in EventBodies
    BY DEF EventKinds, EventBodies
  <2>3. <<Event("stream", 0, "", 0)>> \in Seq(LedgerEvents) /\ Free(<<Event("stream", 0, "", 0)>>)
    BY <2>2, LedgerConstants, FreeEvent
  <2>4. plan' \in Seq(LedgerEvents) /\ Free(plan')
    BY <2>1, <2>3, NothingIsFree
  <2>5. LedgerTypes'
    BY <1>1, <2>1, <2>4, LedgerFacts DEF LedgerTypes
  <2>6. ~Recorded("publication", turn)'
    <3>1. ~Has(journal, "publication", turn)
      BY <1>1, LedgerFacts DEF SessionTrue, Recorded
    <3>2. ~Has(plan', "publication", turn)
      BY <2>4 DEF Free, Has
    <3> QED BY <1>1, <2>1, <3>1, <3>2 DEF Recorded
  <2>7. SessionTrue' /\ Successes'
    BY <1>1, <2>1, <2>6, LedgerFacts, SuccessesKept DEF SessionTrue
  <2> QED BY <1>1, <2>4, <2>5, <2>7, JournalKept
<1> QED BY <1>2, <1>3

(* A receipt stands after its publication. *)
LEMMA ReceiptsFollow ==
    ASSUME LedgerInv, NEW slot, Has(journal, "receipt", slot)
    PROVE  Has(journal, "publication", slot)
<1>1. PICK i \in DOMAIN journal : journal[i].kind = "receipt" /\ journal[i].slot = slot
  BY DEF Has
<1>2. Rests(journal[i], journal, i)
  BY LedgerFacts DEF SoundJournal
<1> QED BY <1>1, <1>2 DEF Rests, Has

LEMMA PublishForecastStep == ASSUME LedgerInv, PublishForecast PROVE LedgerInv'
<1> DEFINE content == job[turn].content
           e == Event("publication", turn, "", content)
<1>1. /\ owner = "open" /\ plan = <<>> /\ ~heading /\ doing = "publishing"
      /\ doing' = "published" /\ plan' = <<e>>
      /\ UNCHANGED <<time, truth, journal, lost, owner, heading, input, job, turn>>
  BY DEF PublishForecast, world, disk, Working, Go
<1>2. /\ turn \in Horizons /\ job[turn].state = "running" /\ ~Has(journal, "publication", turn)
  BY <1>1, LedgerFacts DEF SessionTrue, Recorded
<1>3. content \in Numbers /\ turn \in Nat
  BY <1>2, LedgerFacts DEF JobRecords
<1> HIDE DEF content
<1>4. "publication" \in EventKinds /\ "" \in EventBodies
  BY DEF EventKinds, EventBodies
<1>5. /\ e \in LedgerEvents /\ e.kind = "publication" /\ e.slot = turn
      /\ e.number = content
  BY <1>3, <1>4 DEF Event, LedgerEvents
<1> HIDE DEF e
<1>6. SoundPlan(plan', journal)
  <2>1. Rests(e, journal, Len(journal) + 1)
    BY <1>5 DEF Rests
  <2> QED BY <1>1, <1>2, <1>5, <2>1, LedgerFacts, OneIsSound
<1>7. plan' \in Seq(LedgerEvents) /\ DOMAIN plan' = {1} /\ plan'[1] = e
  BY <1>1, <1>5, OneEvent
<1>8. LedgerTypes'
  BY <1>1, <1>7, LedgerFacts DEF LedgerTypes
<1>9. ~Recorded("receipt", turn)'
  <2>1. ~Has(journal, "receipt", turn)
    BY <1>2, ReceiptsFollow
  <2>2. ~Has(plan', "receipt", turn)
    BY <1>5, <1>7 DEF Has
  <2> QED BY <1>1, <2>1, <2>2 DEF Recorded
<1>10. HasContent(plan', turn, job[turn].content)
  BY <1>5, <1>7 DEF HasContent, content
<1>11. SessionTrue' /\ Successes'
  BY <1>1, <1>2, <1>9, <1>10, LedgerFacts, SuccessesKept DEF SessionTrue
<1> QED BY <1>1, <1>6, <1>8, <1>11, JournalKept

LEMMA CertifyPublicationStep == ASSUME LedgerInv, CertifyPublication PROVE LedgerInv'
<1>1. /\ owner = "open" /\ plan = <<>> /\ ~heading /\ doing = "published"
      /\ UNCHANGED <<time, truth, journal, lost, owner, heading, input, job, turn>>
  BY DEF CertifyPublication, world, disk, Working
<1>2. PICK radius \in {0, 1} :
         doing' = "certified" /\ plan' = <<Event("receipt", turn, Timeliness(radius), 0)>>
  BY DEF CertifyPublication, Go
<1> DEFINE e == Event("receipt", turn, Timeliness(radius), 0)
<1>3. /\ turn \in Horizons /\ job[turn].state = "running" /\ ~Has(journal, "receipt", turn)
      /\ HasContent(journal, turn, job[turn].content)
  BY <1>1, LedgerFacts DEF SessionTrue, Recorded, HasContent
<1>4. "receipt" \in EventKinds
  BY DEF EventKinds
<1>5. /\ e \in LedgerEvents /\ e.kind = "receipt" /\ e.slot = turn
      /\ e.body = Timeliness(radius) /\ e.body # "recovery-unknown"
  BY <1>3, <1>4, LedgerFacts, LedgerConstants, TimelinessIs, EventsHave
<1>6. plan' = <<e>>
  BY <1>2
<1> HIDE DEF e
<1>7. SoundPlan(plan', journal)
  <2>1. PICK i \in DOMAIN journal : journal[i].kind = "publication" /\ journal[i].slot = turn
    BY <1>3 DEF HasContent
  <2>2. i < Len(journal) + 1
    BY LedgerFacts
  <2>3. e.body = "on-time" => journal[i].timely
    BY <1>5, <2>1, TimelinessIs
  <2>4. Rests(e, journal, Len(journal) + 1)
    BY <1>5, <2>1, <2>2, <2>3 DEF Rests
  <2> QED BY <1>3, <1>5, <1>6, <2>4, LedgerFacts, OneIsSound
<1>8. plan' \in Seq(LedgerEvents) /\ DOMAIN plan' = {1} /\ plan'[1] = e
  BY <1>5, <1>6, OneEvent
<1>9. LedgerTypes'
  BY <1>1, <1>8, LedgerFacts DEF LedgerTypes
<1>10. HasCertificate(plan', turn)
  BY <1>5, <1>8 DEF HasCertificate
<1>11. SessionTrue' /\ Successes'
  BY <1>1, <1>2, <1>3, <1>10, LedgerFacts, SuccessesKept DEF SessionTrue
<1> QED BY <1>1, <1>7, <1>9, <1>11, JournalKept

LEMMA FinishStep == ASSUME LedgerInv, Finish PROVE LedgerInv'
<1>1. /\ owner = "open" /\ plan = <<>> /\ ~heading /\ doing = "certified"
      /\ doing' = "running" /\ plan' = <<>> /\ turn' = 0
      /\ UNCHANGED <<time, truth, journal, lost, owner, heading, input>>
  BY DEF Finish, world, disk, Working, Go
<1>2. PICK st \in {"expired", "succeeded"} : job' = WithState(job, turn, st)
  BY DEF Finish, WithState
<1>3. /\ turn \in Horizons /\ HasContent(journal, turn, job[turn].content)
      /\ HasCertificate(journal, turn)
  BY <1>1, LedgerFacts DEF SessionTrue, HasContent, HasCertificate
<1>4. /\ job' \in [Horizons -> JobRecords] /\ job'[turn].content = job[turn].content
      /\ \A t \in Horizons : t # turn => job'[t] = job[t]
  BY <1>2, <1>3, LedgerFacts, JobSet
<1>5. LedgerTypes'
  BY <1>1, <1>4, LedgerFacts, NothingIsFree DEF LedgerTypes
<1>6. SessionTrue'
  BY <1>1 DEF SessionTrue
<1>7. Successes'
  BY <1>1, <1>3, <1>4, LedgerFacts DEF Successes
<1> QED BY <1>1, <1>5, <1>6, <1>7, NothingIsFree, JournalKept

LEMMA MatureStep == ASSUME LedgerInv, Mature PROVE LedgerInv'
<1>1. /\ owner = "open" /\ plan = <<>> /\ ~heading /\ doing = "idle"
      /\ UNCHANGED <<time, truth, journal, lost, owner, heading, input, job>>
  BY DEF Mature, world, disk, Working
<1>2. PICK s \in Known : MatureSlot(s)
  BY DEF Mature, Uncertified
<1>3. s \in Horizons /\ s \in Nat
  BY LedgerConstants DEF Known
<1>4. /\ {"maturation", "outcome", "slot"} \subseteq EventKinds \ {"publication", "receipt", "input-receipt"}
      /\ {"", "excluded"} \subseteq EventBodies
  BY DEF EventKinds, EventBodies
<1> DEFINE cursor == <<Event("maturation", s, "", 0)>>
           outcome == <<Event("outcome", s, "", truth)>>
           excluded == <<Event("slot", s, "excluded", 0)>>
<1>5. /\ cursor \in Seq(LedgerEvents) /\ Free(cursor)
      /\ excluded \in Seq(LedgerEvents) /\ Free(excluded)
      /\ outcome \in Seq(LedgerEvents) /\ Free(outcome) /\ Has(outcome, "outcome", s)
  BY <1>3, <1>4, LedgerFacts, LedgerConstants, FreeEvent
<1>6. \/ /\ turn' = s /\ doing' = "scoring"
         /\ plan' = outcome \/ (plan' = <<>> /\ \E e \in Logged("outcome", s) : TRUE)
      \/ /\ UNCHANGED turn /\ doing' = "idle"
         /\ \E q \in {Marks({s}, "pending"), Marks({s}, "missing"), excluded} : plan' = q \o cursor
  BY <1>2 DEF MatureSlot, Go
<1> HIDE DEF cursor, outcome, excluded
<1>7. CASE /\ turn' = s /\ doing' = "scoring"
           /\ plan' = outcome \/ (plan' = <<>> /\ \E e \in Logged("outcome", s) : TRUE)
  <2>1. Recorded("outcome", s)'
    BY <1>1, <1>5, <1>7, LoggedHas DEF Recorded
  <2>2. plan' \in Seq(LedgerEvents) /\ Free(plan')
    BY <1>5, <1>7, NothingIsFree
  <2>3. LedgerTypes'
    BY <1>1, <1>3, <1>7, <2>2, LedgerFacts DEF LedgerTypes
  <2>4. SessionTrue' /\ Successes'
    BY <1>1, <1>7, <2>1, LedgerFacts, SuccessesKept DEF SessionTrue
  <2> QED BY <1>1, <2>2, <2>3, <2>4, JournalKept
<1>8. CASE /\ UNCHANGED turn /\ doing' = "idle"
           /\ \E q \in {Marks({s}, "pending"), Marks({s}, "missing"), excluded} : plan' = q \o cursor
  <2>1. PICK q \in {Marks({s}, "pending"), Marks({s}, "missing"), excluded} : plan' = q \o cursor
    BY <1>8
  <2>2. {s} \in SUBSET Horizons
    BY <1>3
  <2>3. q \in Seq(LedgerEvents) /\ Free(q)
    BY <1>5, <2>2, MarksAreFree, MarkBodies
  <2>4. plan' \in Seq(LedgerEvents) /\ Free(plan')
    BY <1>5, <2>1, <2>3, BothFree
  <2> QED BY <1>1, <1>8, <2>4, LedgerFacts, Onwards
<1> QED BY <1>6, <1>7, <1>8

LEMMA ScoreStep == ASSUME LedgerInv, Score PROVE LedgerInv'
<1>1. /\ owner = "open" /\ plan = <<>> /\ ~heading /\ doing = "scoring" /\ doing' = "idle"
      /\ turn' = 0
      /\ UNCHANGED <<time, truth, journal, lost, owner, heading, input, job>>
  BY DEF Score, world, disk, Working, Go
<1> DEFINE vintages == {e.number : e \in Logged("outcome", turn)}
           vintage == CHOOSE n \in vintages : \A m \in vintages : m =< n
           score == <<Event("score", turn, "", vintage)>>
           cursor == <<Event("maturation", turn, "", 0)>>
<1>2. vintage \in Numbers
  <2>1. \A e \in ToSet(journal) : e \in LedgerEvents
    BY LedgerFacts DEF ToSet
  <2>2. vintages \in SUBSET (0 .. MaxFetches + Versions)
    BY <2>1 DEF Logged, Events, LedgerEvents, Numbers
  <2>3. Logged("outcome", turn) # {}
    BY <1>1, LedgerFacts, LoggedHas DEF SessionTrue, Recorded, Has
  <2>4. vintages # {}
    BY <2>3
  <2> HIDE DEF vintages
  <2>5. MaxFetches + Versions \in Nat
    BY LedgerConstants
  <2>6. \E n \in vintages : \A m \in vintages : m =< n
    BY <2>2, <2>4, <2>5, GreatestBounded
  <2> QED BY <2>2, <2>6 DEF Numbers
<1>3. \E q \in {<<>>, score} : plan' = q \o cursor
  BY DEF Score, Go
<1> HIDE DEF vintage
<1>4. /\ {"maturation", "score"} \subseteq EventKinds \ {"publication", "receipt", "input-receipt"}
      /\ "" \in EventBodies
  BY DEF EventKinds, EventBodies
<1>5. /\ score \in Seq(LedgerEvents) /\ Free(score) /\ cursor \in Seq(LedgerEvents) /\ Free(cursor)
  BY <1>2, <1>4, LedgerFacts, LedgerConstants, FreeEvent
<1>6. plan' \in Seq(LedgerEvents) /\ Free(plan')
  BY <1>3, <1>5, NothingIsFree, BothFree
<1> QED BY <1>1, <1>6, LedgerFacts, Onwards

LEMMA LedgerStep == LedgerInv /\ [LedgerNext]_ledgerVars => LedgerInv'
<1> SUFFICES ASSUME LedgerInv, [LedgerNext]_ledgerVars PROVE LedgerInv'
  OBVIOUS
<1>1. CASE Wait \/ Shake \/ Revise
  BY <1>1, WorldStep
<1>2. CASE OpenLedger
  BY <1>2, OpenLedgerStep
<1>3. CASE RollBack
  BY <1>3, RollBackStep
<1>4. CASE Refuse \/ Crash \/ LedgerFails
  BY <1>4, StopsStep
<1>5. CASE CancelRun
  BY <1>5, CancelRunStep
<1>6. CASE Tick
  BY <1>6, TickStep
<1>7. CASE CertificateFails
  BY <1>7, CertificateFailsStep
<1>8. CASE Mature
  BY <1>8, MatureStep
<1>9. CASE DoneInferring \/ EndRun
  BY <1>9, RunEndsStep
<1>10. CASE CommitEvent
  BY <1>10, CommitEventStep
<1>11. CASE WriteHead
  BY <1>11, WriteHeadStep
<1>12. CASE OpenStore
  BY <1>12, OpenStoreStep
<1>13. CASE FetchFails \/ LateInput \/ ScheduleConflict
  BY <1>13, MissStep DEF FetchFails, LateInput, ScheduleConflict
<1>14. CASE FetchInput
  BY <1>14, FetchInputStep
<1>15. CASE UseCached
  BY <1>15, UseCachedStep
<1>16. CASE Observe
  BY <1>16, ObserveStep
<1>17. CASE CertifyInput
  BY <1>17, CertifyInputStep
<1>18. CASE Schedule
  BY <1>18, ScheduleStep
<1>19. CASE Claim
  BY <1>19, ClaimStep
<1>20. CASE ClaimExpired
  BY <1>20, ClaimExpiredStep
<1>21. CASE Accept
  BY <1>21, AcceptStep
<1>22. CASE PublishForecast
  BY <1>22, PublishForecastStep
<1>23. CASE CertifyPublication
  BY <1>23, CertifyPublicationStep
<1>24. CASE Finish
  BY <1>24, FinishStep
<1>25. CASE Score
  BY <1>25, ScoreStep
<1>26. CASE UNCHANGED ledgerVars
  <2>1. UNCHANGED <<time, truth, journal, lost, owner, plan, heading, doing, input, turn, job>>
    BY <1>26 DEF ledgerVars
  <2>2. LedgerTypes'
    BY <2>1, LedgerFacts DEF LedgerTypes
  <2>3. SessionTrue' /\ Successes'
    BY <2>1, LedgerFacts DEF SessionTrue, Recorded, Successes
  <2> QED BY <2>1, <2>2, <2>3, JournalKept
<1> QED BY <1>1, <1>2, <1>3, <1>4, <1>5, <1>6, <1>7, <1>8, <1>9, <1>10, <1>11, <1>12, <1>13,
           <1>14, <1>15, <1>16, <1>17, <1>18, <1>19, <1>20, <1>21, <1>22, <1>23, <1>24, <1>25,
           <1>26 DEF LedgerNext, Work

LEMMA AlwaysLedgerInv == LedgerSpec => []LedgerInv
BY LedgerInitHolds, LedgerStep, PTL DEF LedgerSpec

LEMMA InvCertifies == LedgerInv => CertificatesAreEarned
<1> SUFFICES ASSUME LedgerInv, NEW s \in Horizons
             PROVE  /\ \A kind \in {"publication", "receipt"} :
                          Cardinality({i \in DOMAIN journal : /\ journal[i].kind = kind
                                                              /\ journal[i].slot = s}) =< 1
                    /\ \A r \in Logged("receipt", s) :
                          /\ s \in Known
                          /\ r.body = "on-time" =>
                                \A p \in Logged("publication", s) :
                                    /\ p.timely
                                    /\ EvidenceClass(p.number, r.body) = "genuine-forward" =>
                                          \E e \in Events("input-observation") :
                                              e.number = p.number /\ e.timely
  BY DEF CertificatesAreEarned
<1>1. SoundJournal(journal)
  BY LedgerFacts
<1>2. ASSUME NEW kind \in {"publication", "receipt"}
      PROVE  Cardinality({i \in DOMAIN journal : /\ journal[i].kind = kind
                                                 /\ journal[i].slot = s}) =< 1
  <2> DEFINE places == {i \in DOMAIN journal : journal[i].kind = kind /\ journal[i].slot = s}
  <2>1. \A i, k \in places : i = k
    BY <1>1, <1>2 DEF SoundJournal, OncePerSlot
  <2>2. CASE places = {}
    BY <2>2, FS_EmptySet
  <2>3. CASE places # {}
    <3>1. PICK i \in places : TRUE
      BY <2>3
    <3>2. places = {i}
      BY <2>1, <3>1
    <3>3. Cardinality(places) = 1
      BY <3>2, FS_Singleton
    <3> QED BY <3>3
  <2> QED BY <2>2, <2>3
<1>3. ASSUME NEW r \in Logged("receipt", s)
      PROVE  /\ s \in Known
             /\ r.body = "on-time" =>
                   \A p \in Logged("publication", s) :
                       /\ p.timely
                       /\ EvidenceClass(p.number, r.body) = "genuine-forward" =>
                             \E e \in Events("input-observation") :
                                 e.number = p.number /\ e.timely
  <2>1. PICK i \in DOMAIN journal : /\ journal[i] = r /\ r.kind = "receipt" /\ r.slot = s
    BY <1>3 DEF Logged, Events, ToSet
  <2>2. PICK k \in DOMAIN journal : /\ journal[k].kind = "publication" /\ journal[k].slot = s
                                    /\ r.body = "on-time" => journal[k].timely
    BY <1>1, <2>1 DEF SoundJournal, Rests
  <2>3. s \in Known
    BY <2>2, LoggedHas DEF Has
  <2>4. ASSUME r.body = "on-time", NEW p \in Logged("publication", s)
        PROVE  /\ p.timely
               /\ EvidenceClass(p.number, r.body) = "genuine-forward" =>
                     \E e \in Events("input-observation") : e.number = p.number /\ e.timely
    <3>1. PICK n \in DOMAIN journal : /\ journal[n] = p /\ p.kind = "publication" /\ p.slot = s
      BY <2>4 DEF Logged, Events, ToSet
    <3>2. n = k
      BY <1>1, <2>2, <3>1 DEF SoundJournal, OncePerSlot
    <3>3. p.timely
      BY <2>2, <2>4, <3>1, <3>2
    <3>4. ASSUME EvidenceClass(p.number, r.body) = "genuine-forward"
          PROVE  \E e \in Events("input-observation") : e.number = p.number /\ e.timely
      <4>1. PICK e \in Events("input-receipt") : e.number = p.number /\ e.body = "on-time"
        BY <3>4 DEF EvidenceClass
      <4>2. PICK m \in DOMAIN journal : journal[m] = e /\ e.kind = "input-receipt"
        BY <4>1 DEF Events, ToSet
      <4>3. Rests(journal[m], journal, m)
        BY <1>1 DEF SoundJournal
      <4>4. PICK o \in DOMAIN journal : /\ journal[o].kind = "input-observation"
                                        /\ journal[o].number = e.number /\ journal[o].timely
        BY <4>1, <4>2, <4>3 DEF Rests
      <4>5. journal[o] \in Events("input-observation")
        BY <4>4 DEF Events, ToSet
      <4> QED BY <4>1, <4>4, <4>5
    <3> QED BY <3>3, <3>4
  <2> QED BY <2>3, <2>4
<1> QED BY <1>2, <1>3

(* A slot has one publication and one certificate, and what a certificate    *)
(* says was true when the event was committed: whatever crashes, retries,    *)
(* clock troubles and older copies of the database came between.             *)
THEOREM CertificatesStand == LedgerSpec => []CertificatesAreEarned
BY AlwaysLedgerInv, InvCertifies, PTL

LEMMA InvPublishes == LedgerInv => SuccessIsPublished
<1> SUFFICES ASSUME LedgerInv, ~lost, NEW s \in Horizons, job[s].state = "succeeded"
             PROVE  /\ \E p \in Logged("publication", s) : p.number = job[s].content
                    /\ \E r \in Logged("receipt", s) : r.body # "recovery-unknown"
  BY DEF SuccessIsPublished
<1>1. HasContent(journal, s, job[s].content) /\ HasCertificate(journal, s)
  BY LedgerFacts DEF Successes
<1>2. \E p \in Logged("publication", s) : p.number = job[s].content
  BY <1>1 DEF HasContent, Logged, Events, ToSet
<1>3. \E r \in Logged("receipt", s) : r.body # "recovery-unknown"
  BY <1>1 DEF HasCertificate, Logged, Events, ToSet
<1> QED BY <1>2, <1>3

(* The job store and the ledger, two databases with no common transaction,   *)
(* agree: a job that succeeded has its publication and its certificate.      *)
THEOREM SuccessStands == LedgerSpec => []SuccessIsPublished
BY AlwaysLedgerInv, InvPublishes, PTL

-----------------------------------------------------------------------------
(***************************************************************************)
(* Dataset.  The first input of a candle is the accepted one, and nothing   *)
(* but duplicates follows a final state: so the states that two prefixes of *)
(* the inputs select agree wherever the shorter one has all that counts.    *)
(* A case holds what its boundary was when it was made.                     *)
(***************************************************************************)
(* What a build or a replay begins with, and what the collector publishes.  *)
CandleInputs ==
    [candle : Candles, revision : Nat, final : BOOLEAN, at : Nat, healthy : BOOLEAN,
     kind : {"accepted", "duplicate", "open revision", "finalization", "conflict", "rejected"}]
Recipes ==
    {None, [status |-> "refused"]} \cup
    [status : {"built"}, policy : RecipePolicy, cutoff : Nat]

DatasetTypes ==
    /\ inputs \in Seq(CandleInputs)
    /\ recipe \in Recipes
    /\ config = None \/ config \in ReplayConfig
    /\ walked \in Nat

(* The snapshot is what its recipe makes of the inputs, which are no longer  *)
(* added to; nothing is installed or replayed that was not built.            *)
SnapshotBuilt ==
    /\ recipe.status = "built" =>
          LET kept == SnapshotInputs(inputs, recipe.policy, Decision(recipe.cutoff, Radius))
          IN  /\ Selectable(inputs, DOMAIN inputs) /\ Selectable(inputs, kept)
              /\ rows = SnapshotOf(inputs, claims, recipe.policy, Decision(recipe.cutoff, Radius))
    /\ artifacts # {} \/ config # None => recipe.status = "built"

(* Every case was known when it was decided, and within its part. *)
CaseTrue(x) ==
    /\ x.candle \in Candles /\ x.candle \in DOMAIN rows /\ x.scored \in Int
    /\ x.decision = Decision(CloseOf(x.candle) + config.delay, config.radius)
    /\ HasFeatures(config, x.candle, x.decision)
    /\ HasTarget(config, x.candle, x.decision, x.scored + 1)
    /\ x.part = "train" => x.scored + 1 = config.validation
    /\ x.part # "train" => config.validation <= x.decision.at - x.decision.radius

CasesTrue ==
    /\ config = None => cases = {}
    /\ \A x \in cases : CaseTrue(x)
    /\ fitted \subseteq {x \in cases : x.part = "train"}

DatasetInv == DatasetTypes /\ SnapshotBuilt /\ CasesTrue

-----------------------------------------------------------------------------
(* Selection.                                                               *)

LEMMA Positions ==
    ASSUME NEW s \in Seq(CandleInputs)
    PROVE  /\ DOMAIN s = 1 .. Len(s) /\ Len(s) \in Nat
           /\ \A i \in DOMAIN s : s[i] \in CandleInputs /\ i \in Nat
OBVIOUS

LEMMA SmallestIs ==
    ASSUME NEW S \in SUBSET Nat, S # {}
    PROVE  Smallest(S) \in S /\ \A y \in S : Smallest(S) <= y
BY LeastNatural DEF Smallest

LEMMA LargestIs ==
    ASSUME NEW S \in SUBSET Nat, NEW i \in S, \A y \in S : y <= i
    PROVE  Largest(S) = i
<1>1. Largest(S) \in S /\ \A y \in S : y <= Largest(S)
  BY DEF Largest
<1>2. Largest(S) <= i /\ i <= Largest(S) /\ Largest(S) \in Nat /\ i \in Nat
  BY <1>1
<1> QED BY <1>2

(* The first input of a candle is accepted, and no other is: among whatever  *)
(* inputs the selection is made, the first of them is the first of all.     *)
LEMMA FirstIsFirst ==
    ASSUME NEW s \in Seq(CandleInputs), NEW I \in SUBSET DOMAIN s, NEW k,
           Selectable(s, DOMAIN s), Selectable(s, I), Of(s, I, k) # {}
    PROVE  Smallest(Of(s, I, k)) = Smallest(Of(s, DOMAIN s, k))
<1>1. Of(s, I, k) \in SUBSET Nat /\ Of(s, DOMAIN s, k) \in SUBSET Nat /\ Of(s, DOMAIN s, k) # {}
  BY Positions DEF Of
<1>2. PICK i \in Of(s, I, k) : i = Smallest(Of(s, I, k)) /\ \A y \in Of(s, I, k) : i <= y
  BY <1>1, SmallestIs
<1>3. i \in I /\ i \in DOMAIN s /\ s[i].candle = k /\ i \in Nat
  BY <1>1, <1>2 DEF Of
<1>4. Before(s, I, i) = {}
  BY <1>1, <1>2, <1>3 DEF Before
<1>5. s[i].kind = "accepted"
  BY <1>3, <1>4 DEF Selectable, Sound
<1>6. Before(s, DOMAIN s, i) = {}
  BY <1>3, <1>5 DEF Selectable, Sound
<1>7. PICK j \in Of(s, DOMAIN s, k) :
         j = Smallest(Of(s, DOMAIN s, k)) /\ \A y \in Of(s, DOMAIN s, k) : j <= y
  BY <1>1, SmallestIs
<1>8. i \in Of(s, DOMAIN s, k) /\ j \in Nat
  BY <1>1, <1>3, <1>7 DEF Of
<1>9. j <= i /\ ~(j < i)
  BY <1>3, <1>6, <1>7, <1>8 DEF Before
<1>10. i = j
  BY <1>3, <1>8, <1>9
<1> QED BY <1>2, <1>7, <1>10

(* Nothing but duplicates follows a final state.                            *)
LEMMA FinalIsLast ==
    ASSUME NEW s \in Seq(CandleInputs), NEW I \in SUBSET DOMAIN s, NEW k,
           Selectable(s, DOMAIN s), NEW i \in Changes(s, Of(s, I, k)), s[i].final
    PROVE  Largest(Changes(s, Of(s, I, k))) = i
<1> DEFINE all == Changes(s, Of(s, DOMAIN s, k))
<1>1. /\ i \in all /\ all \in SUBSET Nat /\ i \in Nat /\ Changes(s, Of(s, I, k)) \subseteq all
      /\ \A j \in all : j \in DOMAIN s /\ s[j].candle = k /\ s[j].kind # "duplicate"
  BY Positions DEF Changes, Of
<1>2. ASSUME NEW j \in all, j > i PROVE FALSE
  <2> DEFINE later == {m \in all : m > i}
  <2>1. later \in SUBSET Nat /\ later # {}
    BY <1>1, <1>2
  <2>2. PICK m \in later : \A n \in later : m <= n
    BY <2>1, LeastNatural
  <2>3. m \in all /\ m > i /\ m \in Nat /\ \A n \in all : n > i => m <= n
    BY <1>1, <2>2
  <2> HIDE DEF later
  <2>4. m \in DOMAIN s /\ s[m].candle = k /\ s[m].kind # "duplicate" /\ Sound(s, DOMAIN s, m)
    BY <1>1, <2>3 DEF Selectable
  <2> DEFINE earlier == Before(s, DOMAIN s, m)
  <2>5. earlier = {n \in Of(s, DOMAIN s, k) : n < m}
    BY <2>4 DEF Before
  <2>6. i \in earlier /\ i \in Changes(s, earlier)
    BY <1>1, <2>3, <2>5 DEF Changes, Of
  <2>7. ASSUME NEW n \in Changes(s, earlier) PROVE n <= i /\ n \in Nat
    <3>1. n \in all /\ n < m /\ n \in Nat
      BY <1>1, <2>5, <2>7 DEF Changes, Of
    <3> QED BY <1>1, <2>3, <3>1
  <2>8. Changes(s, earlier) \in SUBSET Nat
    BY <2>7
  <2> HIDE DEF earlier
  <2>9. Largest(Changes(s, earlier)) = i
    BY <2>6, <2>7, <2>8, LargestIs
  <2>10. s[m].kind \in {"accepted", "open revision", "finalization", "conflict", "rejected"}
    BY <2>4, Positions DEF CandleInputs
  <2>11. s[m].kind \in {"open revision", "finalization"}
    <3>1. s[m].kind \notin {"conflict", "rejected"}
      BY <2>4 DEF Sound
    <3>2. s[m].kind # "accepted"
      BY <2>4, <2>6 DEF Sound, earlier
    <3> QED BY <2>10, <3>1, <3>2
  <2>12. ~s[Largest(Changes(s, Before(s, DOMAIN s, m)))].final
    BY <2>4, <2>11 DEF Sound
  <2> QED BY <2>9, <2>12 DEF earlier
<1>3. \A y \in Changes(s, Of(s, I, k)) : y <= i
  BY <1>1, <1>2
<1>4. Changes(s, Of(s, I, k)) \in SUBSET Nat
  BY <1>1
<1> QED BY <1>3, <1>4, LargestIs

(* What the selection takes of a candle is one of its inputs, and the last   *)
(* change or the first input of it.                                         *)
LEMMA LastChange ==
    ASSUME NEW s \in Seq(CandleInputs), NEW I \in SUBSET DOMAIN s, NEW k,
           Selectable(s, I), Of(s, I, k) # {}
    PROVE  Largest(Changes(s, Of(s, I, k))) \in Changes(s, Of(s, I, k))
<1> DEFINE changed == Changes(s, Of(s, I, k))
<1>1. Of(s, I, k) \in SUBSET Nat /\ Len(s) \in Nat /\ \A i \in Of(s, I, k) : i <= Len(s) /\ i \in I
  BY Positions DEF Of
<1>2. PICK i \in Of(s, I, k) : i = Smallest(Of(s, I, k)) /\ \A y \in Of(s, I, k) : i <= y
  BY <1>1, SmallestIs
<1>3. s[i].candle = k /\ i \in Nat
  BY <1>1, <1>2 DEF Of
<1>4. Before(s, I, i) = {}
  BY <1>1, <1>2, <1>3 DEF Before
<1>5. s[i].kind = "accepted"
  BY <1>1, <1>4 DEF Selectable, Sound
<1>6. i \in changed
  BY <1>5 DEF Changes
<1>7. changed \in SUBSET (0 .. Len(s)) /\ changed # {}
  BY <1>1, <1>6 DEF Changes
<1> HIDE DEF changed
<1>8. \E m \in changed : \A n \in changed : n <= m
  BY <1>1, <1>7, GreatestBounded
<1> QED BY <1>8 DEF Largest, changed

LEMMA SelectedIs ==
    ASSUME NEW s \in Seq(CandleInputs), NEW I \in SUBSET DOMAIN s, NEW revision,
           Selectable(s, I), NEW k \in DOMAIN Selected(s, I, revision)
    PROVE  \E i \in Of(s, I, k) :
              /\ Selected(s, I, revision)[k] = s[i]
              /\ revision = "first" => i = Smallest(Of(s, I, k))
              /\ revision # "first" => i \in Changes(s, Of(s, I, k))
<1>1. DOMAIN Selected(s, I, revision) = {s[i].candle : i \in I}
  BY DEF Selected
<1>2. Of(s, I, k) # {} /\ Of(s, I, k) \in SUBSET Nat
  BY <1>1, Positions DEF Of
<1>3. CASE revision = "first"
  <2>1. Smallest(Of(s, I, k)) \in Of(s, I, k)
    BY <1>2, SmallestIs
  <2>2. Selected(s, I, revision)[k] = s[Smallest(Of(s, I, k))]
    BY <1>1, <1>3 DEF Selected
  <2> QED BY <1>3, <2>1, <2>2
<1>4. CASE revision # "first"
  <2>1. Largest(Changes(s, Of(s, I, k))) \in Changes(s, Of(s, I, k))
    BY <1>2, LastChange
  <2>2. Selected(s, I, revision)[k] = s[Largest(Changes(s, Of(s, I, k)))]
    BY <1>1, <1>4 DEF Selected
  <2>3. Changes(s, Of(s, I, k)) \subseteq Of(s, I, k)
    BY DEF Changes
  <2> QED BY <1>4, <2>1, <2>2, <2>3
<1> QED BY <1>3, <1>4

(* A final state that is among the inputs of two selections is selected of   *)
(* both, if it is of one.                                                   *)
LEMMA SelectionAgrees ==
    ASSUME NEW s \in Seq(CandleInputs), NEW I \in SUBSET DOMAIN s, NEW J \in SUBSET DOMAIN s,
           NEW revision, NEW k,
           Selectable(s, DOMAIN s), Selectable(s, I), Selectable(s, J),
           k \in DOMAIN Selected(s, I, revision), Selected(s, I, revision)[k].final,
           \A i \in Of(s, I, k) : s[i] = Selected(s, I, revision)[k] => i \in J
    PROVE  /\ k \in DOMAIN Selected(s, J, revision)
           /\ Selected(s, J, revision)[k] = Selected(s, I, revision)[k]
<1>1. PICK i \in Of(s, I, k) : /\ Selected(s, I, revision)[k] = s[i]
                               /\ revision = "first" => i = Smallest(Of(s, I, k))
                               /\ revision # "first" => i \in Changes(s, Of(s, I, k))
  BY SelectedIs
<1>2. i \in J /\ i \in I /\ s[i].candle = k /\ i \in Of(s, J, k)
  BY <1>1 DEF Of
<1>3. k \in DOMAIN Selected(s, J, revision)
  BY <1>2 DEF Selected
<1>4. CASE revision = "first"
  <2>1. Smallest(Of(s, J, k)) = i
    BY <1>1, <1>2, <1>4, FirstIsFirst
  <2>2. Selected(s, J, revision)[k] = s[Smallest(Of(s, J, k))]
    BY <1>3, <1>4 DEF Selected
  <2> QED BY <1>1, <1>3, <2>1, <2>2
<1>5. CASE revision # "first"
  <2>1. i \in Changes(s, Of(s, J, k))
    BY <1>1, <1>2, <1>5 DEF Changes
  <2>2. Largest(Changes(s, Of(s, J, k))) = i
    BY <1>1, <2>1, FinalIsLast
  <2>3. Selected(s, J, revision)[k] = s[Largest(Changes(s, Of(s, J, k)))]
    BY <1>3, <1>5 DEF Selected
  <2> QED BY <1>1, <1>3, <2>2, <2>3
<1> QED BY <1>4, <1>5

-----------------------------------------------------------------------------
(* The snapshot.                                                            *)

LEMMA DatasetConstants ==
    /\ Span \in Nat \ {0} /\ MaxCandles \in Nat \ {0} /\ Times \subseteq Nat /\ Radius \in Nat
    /\ Policies \subseteq RecipePolicy /\ Configs \subseteq ReplayConfig
    /\ Candles \subseteq Nat
BY DatasetAssumption DEF Candles

LEMMA EligibleArePositions ==
    /\ \A s, d : Eligible(s, d) \subseteq DOMAIN s
    /\ \A s, p, d : SnapshotInputs(s, p, d) \subseteq DOMAIN s
BY DEF Eligible, SnapshotInputs

LEMMA RowsAreSelected ==
    ASSUME DatasetInv, recipe.status = "built"
    PROVE  LET kept == SnapshotInputs(inputs, recipe.policy, Decision(recipe.cutoff, Radius))
               chosen == Selected(inputs, kept, recipe.policy.revision)
           IN  /\ recipe.policy \in RecipePolicy /\ inputs \in Seq(CandleInputs)
               /\ kept \subseteq DOMAIN inputs
               /\ Selectable(inputs, DOMAIN inputs) /\ Selectable(inputs, kept)
               /\ \A k \in DOMAIN rows :
                    /\ k \in DOMAIN chosen /\ rows[k] = chosen[k]
                    /\ ~Filtered(rows[k], k, recipe.policy)
                    /\ ~Untimely(rows[k], recipe.policy)
<1> DEFINE cutoff == Decision(recipe.cutoff, Radius)
           kept == SnapshotInputs(inputs, recipe.policy, cutoff)
           chosen == Selected(inputs, kept, recipe.policy.revision)
           retained == Retained(chosen, recipe.policy,
                                SnapshotClaims(claims, recipe.policy, cutoff))
<1>1. /\ Selectable(inputs, DOMAIN inputs) /\ Selectable(inputs, kept)
      /\ rows = SnapshotOf(inputs, claims, recipe.policy, cutoff)
      /\ inputs \in Seq(CandleInputs)
  BY DEF DatasetInv, DatasetTypes, SnapshotBuilt
<1>2. recipe.policy \in RecipePolicy
  BY DEF DatasetInv, DatasetTypes, Recipes, None
<1>3. rows = [k \in retained |-> chosen[k]]
  BY <1>1 DEF SnapshotOf
<1>4. \A k \in retained : /\ k \in DOMAIN chosen
                          /\ ~Filtered(chosen[k], k, recipe.policy)
                          /\ ~Untimely(chosen[k], recipe.policy)
  BY DEF Retained
<1> HIDE DEF chosen, retained
<1>5. \A k \in DOMAIN rows : /\ k \in DOMAIN chosen /\ rows[k] = chosen[k]
                             /\ ~Filtered(rows[k], k, recipe.policy)
                             /\ ~Untimely(rows[k], recipe.policy)
  BY <1>3, <1>4
<1>6. kept \subseteq DOMAIN inputs
  BY EligibleArePositions
<1> QED BY <1>1, <1>2, <1>5, <1>6 DEF chosen

LEMMA RowsAreInputs ==
    ASSUME DatasetInv, recipe.status = "built", NEW k \in DOMAIN rows
    PROVE  rows[k] \in CandleInputs /\ k \in Candles /\ k \in Nat
<1> DEFINE kept == SnapshotInputs(inputs, recipe.policy, Decision(recipe.cutoff, Radius))
           chosen == Selected(inputs, kept, recipe.policy.revision)
<1>1. /\ inputs \in Seq(CandleInputs) /\ kept \in SUBSET DOMAIN inputs
      /\ Selectable(inputs, kept) /\ k \in DOMAIN chosen /\ rows[k] = chosen[k]
  BY RowsAreSelected
<1>2. PICK i \in Of(inputs, kept, k) : chosen[k] = inputs[i]
  BY <1>1, SelectedIs
<1>3. i \in DOMAIN inputs /\ inputs[i].candle = k
  BY <1>1, <1>2 DEF Of
<1>4. inputs[i] \in CandleInputs
  BY <1>1, <1>3, Positions
<1> QED BY <1>1, <1>2, <1>3, <1>4, DatasetConstants DEF CandleInputs

(* A final row that was known by then is in the snapshot of that time. *)
LEMMA RowWasThere ==
    ASSUME DatasetInv, recipe.status = "built", NEW k \in DOMAIN rows, rows[k].final,
           NEW d, KnownBy(rows[k], d), KnownThen(d)
    PROVE  k \in DOMAIN SnapshotThen(d) /\ SnapshotThen(d)[k] = rows[k]
<1> DEFINE kept == SnapshotInputs(inputs, recipe.policy, Decision(recipe.cutoff, Radius))
           known == Eligible(inputs, d)
           revision == recipe.policy.revision
           chosen == Selected(inputs, kept, revision)
           then == Selected(inputs, known, revision)
<1>1. /\ recipe.policy \in RecipePolicy
      /\ inputs \in Seq(CandleInputs) /\ kept \in SUBSET DOMAIN inputs
      /\ Selectable(inputs, DOMAIN inputs) /\ Selectable(inputs, kept)
      /\ k \in DOMAIN chosen /\ rows[k] = chosen[k]
      /\ ~Filtered(rows[k], k, recipe.policy)
  BY RowsAreSelected
<1>2. known \in SUBSET DOMAIN inputs /\ Selectable(inputs, known)
  BY EligibleArePositions DEF KnownThen
<1>3. \A i \in Of(inputs, kept, k) : inputs[i] = rows[k] => i \in known
  BY <1>1 DEF Of, Eligible
<1> HIDE DEF known, kept
<1>4. k \in DOMAIN then /\ then[k] = rows[k]
  BY <1>1, <1>2, <1>3, SelectionAgrees
<1>5. /\ Then(d).asObserved = TRUE /\ Then(d).coverage = "include"
      /\ Then(d).revision = revision /\ Then(d).finalizedOnly = recipe.policy.finalizedOnly
      /\ Then(d).timeQuality = recipe.policy.timeQuality
  BY <1>1 DEF Then, RecipePolicy
<1>6. SnapshotInputs(inputs, Then(d), d) = known
  BY <1>5 DEF SnapshotInputs, known
<1> DEFINE seen == SnapshotClaims(claims, Then(d), d)
<1>7. SnapshotThen(d) = [j \in Retained(then, Then(d), seen) |-> then[j]]
  BY <1>5, <1>6 DEF SnapshotThen, SnapshotOf
<1> HIDE DEF then, seen
<1>8. rows[k].healthy
  BY DEF KnownBy
<1>9. k \in Retained(then, Then(d), seen)
  BY <1>4, <1>5, <1>8 DEF Retained, Filtered, Untimely, Uncovered
<1> QED BY <1>4, <1>7, <1>9

-----------------------------------------------------------------------------
(* Every step keeps the invariant.                                          *)

LEMMA DatasetInitHolds == DatasetInit => DatasetInv
<1> SUFFICES ASSUME DatasetInit PROVE DatasetInv
  OBVIOUS
<1>1. None.status = "none" /\ None \in Recipes
  BY DEF None, Recipes
<1>2. DatasetTypes
  BY <1>1 DEF DatasetInit, DatasetTypes
<1>3. SnapshotBuilt /\ CasesTrue
  BY <1>1 DEF DatasetInit, SnapshotBuilt, CasesTrue
<1> QED BY <1>2, <1>3 DEF DatasetInv

LEMMA Unbuilt ==
    ASSUME DatasetInv, recipe.status # "built"
    PROVE  artifacts = {} /\ config = None /\ cases = {} /\ fitted = {}
BY DEF DatasetInv, SnapshotBuilt, CasesTrue

LEMMA KindsAreTyped ==
    ASSUME DatasetInv, NEW k \in Candles, NEW kind \in Kinds(k)
    PROVE  /\ kind[1] \in {"accepted", "duplicate", "open revision", "finalization", "conflict"}
           /\ kind[2] \in Nat /\ kind[3] \in BOOLEAN
<1> DEFINE known == Of(inputs, DOMAIN inputs, k)
           last == inputs[Largest(Changes(inputs, known))]
           values == Revisions(inputs, known)
           fresh == Cardinality(values) + 1
<1>1. inputs \in Seq(CandleInputs)
  BY DEF DatasetInv, DatasetTypes
<1>2. /\ known \subseteq 1 .. Len(inputs) /\ Len(inputs) \in Nat
      /\ \A i \in known : inputs[i].revision \in Nat
  BY <1>1, Positions DEF Of, CandleInputs
<1>3. IsFiniteSet(known)
  <2>1. IsFiniteSet(1 .. Len(inputs))
    BY <1>2, FS_Interval
  <2> QED BY <1>2, <2>1, FS_Subset
<1>4. values \subseteq Nat
  BY <1>2 DEF Revisions
<1>5. IsFiniteSet(values)
  <2> DEFINE f == [i \in known |-> inputs[i].revision]
  <2>1. f \in Surjection(known, values)
    BY DEF Revisions, Surjection
  <2> QED BY <1>3, <2>1, FS_Surjection
<1>6. fresh \in Nat
  <2>1. Cardinality(values) \in Nat
    BY <1>5, FS_CardinalityType
  <2> QED BY <2>1
<1> HIDE DEF known, fresh
<1>7. \/ kind \in {<<"accepted", 1, final>> : final \in BOOLEAN}
      \/ kind \in {<<"duplicate", r, last.final /\ r = last.revision>> : r \in values}
      \/ kind \in {<<"conflict", fresh, TRUE>>, <<"open revision", fresh, FALSE>>,
                   <<"finalization", fresh, TRUE>>}
  BY DEF Kinds, known, fresh
<1>8. \A r \in values : (last.final /\ r = last.revision) \in BOOLEAN
  OBVIOUS
<1> HIDE DEF last, values
<1>9. CASE kind \in {<<"accepted", 1, final>> : final \in BOOLEAN}
  <2>1. PICK final \in BOOLEAN : kind = <<"accepted", 1, final>>
    BY <1>9
  <2> QED BY <2>1
<1>10. CASE kind \in {<<"duplicate", r, last.final /\ r = last.revision>> : r \in values}
  <2>1. PICK r \in values : kind = <<"duplicate", r, last.final /\ r = last.revision>>
    BY <1>10
  <2>2. PICK final \in BOOLEAN : kind = <<"duplicate", r, final>>
    BY <1>8, <2>1
  <2> QED BY <1>4, <2>2
<1>11. CASE kind \in {<<"conflict", fresh, TRUE>>, <<"open revision", fresh, FALSE>>,
                      <<"finalization", fresh, TRUE>>}
  <2>1. CASE kind = <<"conflict", fresh, TRUE>>
    BY <1>6, <2>1
  <2>2. CASE kind = <<"open revision", fresh, FALSE>>
    BY <1>6, <2>2
  <2>3. CASE kind = <<"finalization", fresh, TRUE>>
    BY <1>6, <2>3
  <2> QED BY <1>11, <2>1, <2>2, <2>3
<1> QED BY <1>7, <1>9, <1>10, <1>11

LEMMA CollectStep ==
    ASSUME DatasetInv, NEW k \in Candles, NEW at \in Times, NEW qualified \in BOOLEAN,
           Collect(k, at, qualified)
    PROVE  DatasetInv'
<1>1. /\ recipe = None
      /\ UNCHANGED <<claims, recipe, rows, artifacts, config, walked, cases, fitted>>
  BY DEF Collect
<1>2. PICK kind \in Kinds(k) :
         inputs' = Append(inputs, [candle |-> k, kind |-> kind[1], revision |-> kind[2],
                                   final |-> kind[3], at |-> at, healthy |-> qualified])
  BY DEF Collect
<1>3. /\ kind[1] \in {"accepted", "duplicate", "open revision", "finalization", "conflict"}
      /\ kind[2] \in Nat /\ kind[3] \in BOOLEAN
  BY KindsAreTyped
<1>4. [candle |-> k, kind |-> kind[1], revision |-> kind[2],
       final |-> kind[3], at |-> at, healthy |-> qualified] \in CandleInputs
  BY <1>3, DatasetConstants DEF CandleInputs
<1>5. inputs' \in Seq(CandleInputs)
  BY <1>2, <1>4 DEF DatasetInv, DatasetTypes
<1>6. recipe.status # "built" /\ None.status = "none"
  BY <1>1 DEF None
<1>7. DatasetTypes'
  BY <1>1, <1>5 DEF DatasetInv, DatasetTypes
<1>8. SnapshotBuilt'
  BY <1>1, <1>6, Unbuilt DEF SnapshotBuilt
<1>9. CasesTrue'
  BY <1>1, <1>6, Unbuilt DEF CasesTrue
<1> QED BY <1>7, <1>8, <1>9 DEF DatasetInv

LEMMA BuildStep ==
    ASSUME DatasetInv, NEW p \in Policies, NEW at \in Times, NEW captured, Build(p, at, captured)
    PROVE  DatasetInv'
<1> DEFINE cutoff == Decision(at, Radius)
<1>1. /\ recipe = None /\ claims' = captured
      /\ UNCHANGED <<inputs, artifacts, config, walked, cases, fitted>>
  BY DEF Build
<1>2. recipe.status # "built"
  BY <1>1 DEF None
<1>3. artifacts' = {} /\ config' = None /\ cases' = {} /\ fitted' = {}
  BY <1>1, <1>2, Unbuilt
<1>4. CasesTrue'
  BY <1>3 DEF CasesTrue
<1>5. CASE Buildable(inputs, captured, p, cutoff)
  <2>1. /\ rows' = SnapshotOf(inputs, captured, p, cutoff)
        /\ recipe' = [status |-> "built", policy |-> p, cutoff |-> at]
    BY <1>5 DEF Build
  <2>2. recipe'.status = "built" /\ recipe'.policy = p /\ recipe'.cutoff = at /\ recipe' \in Recipes
    BY <2>1, DatasetConstants DEF Recipes
  <2>3. DatasetTypes'
    BY <1>1, <2>2 DEF DatasetInv, DatasetTypes
  <2>4. /\ Selectable(inputs, DOMAIN inputs)
        /\ Selectable(inputs, SnapshotInputs(inputs, p, cutoff))
    BY <1>5 DEF Buildable
  <2>5. SnapshotBuilt'
    BY <1>1, <1>3, <2>1, <2>2, <2>4 DEF SnapshotBuilt
  <2> QED BY <1>4, <2>3, <2>5 DEF DatasetInv
<1>6. CASE ~Buildable(inputs, captured, p, cutoff)
  <2>1. recipe' = [status |-> "refused"]
    BY <1>6 DEF Build
  <2>2. recipe'.status # "built" /\ recipe' \in Recipes
    BY <2>1 DEF Recipes
  <2>3. DatasetTypes'
    BY <1>1, <2>2 DEF DatasetInv, DatasetTypes
  <2>4. SnapshotBuilt'
    BY <1>3, <2>2 DEF SnapshotBuilt
  <2> QED BY <1>4, <2>3, <2>4 DEF DatasetInv
<1> QED BY <1>5, <1>6

(* What a case says does not change any more once the replay has begun. *)
LEMMA CaseStays ==
    ASSUME NEW x, CaseTrue(x), UNCHANGED <<claims, recipe, rows, config>>
    PROVE  CaseTrue(x)'
BY DEF CaseTrue, HasFeatures, HasTarget, HasLag, HasLabel, Available, Acceptable, Features,
       LagChain, LabelChain, LabelEnd

LEMMA ArtifactStep ==
    ASSUME DatasetInv, WriteParquet \/ WriteManifest \/ CreatePin \/ Retire
    PROVE  DatasetInv'
<1>1. /\ UNCHANGED <<inputs, claims, recipe, rows, config, walked, cases, fitted>>
      /\ recipe.status = "built" \/ artifacts # {}
  BY DEF WriteParquet, WriteManifest, CreatePin, InstallAfter, Retire
<1>2. recipe.status = "built"
  BY <1>1, Unbuilt
<1>3. DatasetTypes'
  BY <1>1 DEF DatasetInv, DatasetTypes
<1>4. SnapshotBuilt'
  BY <1>1, <1>2 DEF DatasetInv, SnapshotBuilt
<1>5. \A x \in cases : CaseTrue(x)'
  BY <1>1, CaseStays DEF DatasetInv, CasesTrue
<1>6. CasesTrue'
  BY <1>1, <1>5 DEF DatasetInv, CasesTrue
<1> QED BY <1>3, <1>4, <1>6 DEF DatasetInv

LEMMA PrepareStep == ASSUME DatasetInv, NEW c \in Configs, Prepare(c) PROVE DatasetInv'
<1>1. /\ UNCHANGED <<inputs, claims, recipe, rows, artifacts, walked, cases, fitted>>
      /\ artifacts # {} /\ config = None /\ config' = c
  BY DEF Prepare, Pinned
<1>2. DatasetTypes'
  BY <1>1, DatasetConstants DEF DatasetInv, DatasetTypes
<1>3. SnapshotBuilt'
  BY <1>1 DEF DatasetInv, SnapshotBuilt
<1>4. CasesTrue'
  BY <1>1 DEF DatasetInv, CasesTrue
<1> QED BY <1>2, <1>3, <1>4 DEF DatasetInv

LEMMA DecideStep == ASSUME DatasetInv, Decide PROVE DatasetInv'
<1> DEFINE k == walked + 1
           decision == Decision(CloseOf(k) + config.delay, config.radius)
           part == Part(config, decision.at - config.radius, decision.at + config.radius)
           new == [candle |-> k, part |-> part.name, decision |-> decision,
                   scored |-> part.end - 1]
           decides == /\ k \in DOMAIN rows /\ part.name # "outside"
                      /\ HasFeatures(config, k, decision)
                      /\ HasTarget(config, k, decision, part.end)
<1>1. /\ config # None /\ walked < MaxCandles
      /\ cases' = IF decides THEN cases \cup {new} ELSE cases
      /\ walked' = k
      /\ UNCHANGED <<inputs, claims, recipe, rows, artifacts, config, fitted>>
  BY DEF Decide
<1>2. config \in ReplayConfig /\ walked \in Nat /\ k \in Candles
  BY <1>1, DatasetConstants DEF DatasetInv, DatasetTypes, Candles
<1>3. /\ config.start \in Nat /\ config.validation \in Nat /\ config.test \in Nat
      /\ config.end \in Nat /\ config.delay \in Nat /\ config.radius \in Nat
      /\ config.start < config.validation /\ config.validation < config.test
      /\ config.test < config.end
  BY <1>2 DEF ReplayConfig
<1>4. DatasetTypes'
  BY <1>1, <1>2 DEF DatasetInv, DatasetTypes
<1>5. SnapshotBuilt'
  BY <1>1 DEF DatasetInv, SnapshotBuilt
<1>6. \A x \in cases : CaseTrue(x)'
  BY <1>1, CaseStays DEF DatasetInv, CasesTrue
<1>7. ASSUME decides, NEW x, x = new PROVE CaseTrue(x)'
  <2>1. CloseOf(k) \in Nat
    BY <1>2, DatasetConstants DEF CloseOf
  <2>2. decision.at \in Nat /\ decision.radius = config.radius
    BY <1>3, <2>1 DEF Decision
  <2>3. /\ part.end \in Nat
        /\ part.name = "train" => part.end = config.validation
        /\ part.name # "train" => config.validation <= decision.at - config.radius
    <3> HIDE DEF decision
    <3> QED BY <1>3, <1>7, <2>2 DEF Part
  <2>4. /\ x.candle = k /\ x.part = part.name /\ x.decision = decision
        /\ x.scored = part.end - 1
    BY <1>7
  <2> HIDE DEF new, part
  <2>5. x.scored \in Int /\ x.scored + 1 = part.end
    BY <2>3, <2>4
  <2>6. HasTarget(config, x.candle, x.decision, x.scored + 1)
    BY <1>7, <2>4, <2>5
  <2>7. CaseTrue(x)
    BY <1>2, <1>7, <2>2, <2>3, <2>4, <2>5, <2>6 DEF CaseTrue
  <2> QED BY <1>1, <2>7, CaseStays
<1>8. CasesTrue'
  <2> HIDE DEF new, decides
  <2>1. cases \subseteq cases' /\ cases' \subseteq cases \cup {new}
    BY <1>1
  <2>2. \A x \in cases' : CaseTrue(x)'
    BY <1>1, <1>6, <1>7
  <2>3. fitted' \subseteq {x \in cases' : x.part = "train"}
    BY <1>1, <2>1 DEF DatasetInv, CasesTrue
  <2> QED BY <1>1, <2>2, <2>3 DEF CasesTrue
<1> QED BY <1>4, <1>5, <1>8 DEF DatasetInv

LEMMA FitStep == ASSUME DatasetInv, Fit PROVE DatasetInv'
<1>1. /\ UNCHANGED <<inputs, claims, recipe, rows, artifacts, config, walked, cases>>
      /\ fitted' = {x \in cases : x.part = "train"}
  BY DEF Fit
<1>2. DatasetTypes'
  BY <1>1 DEF DatasetInv, DatasetTypes
<1>3. SnapshotBuilt'
  BY <1>1 DEF DatasetInv, SnapshotBuilt
<1>4. \A x \in cases : CaseTrue(x)'
  BY <1>1, CaseStays DEF DatasetInv, CasesTrue
<1>5. CasesTrue'
  BY <1>1, <1>4 DEF DatasetInv, CasesTrue
<1> QED BY <1>2, <1>3, <1>5 DEF DatasetInv

LEMMA DatasetStep == DatasetInv /\ [DatasetNext]_datasetVars => DatasetInv'
<1> SUFFICES ASSUME DatasetInv, [DatasetNext]_datasetVars PROVE DatasetInv'
  OBVIOUS
<1>1. CASE \E k \in Candles, at \in Times, qualified \in BOOLEAN : Collect(k, at, qualified)
  BY <1>1, CollectStep
<1>2. CASE \E p \in Policies, at \in Times, captured \in Captures : Build(p, at, captured)
  BY <1>2, BuildStep
<1>3. CASE WriteParquet \/ WriteManifest \/ CreatePin \/ Retire
  BY <1>3, ArtifactStep
<1>4. CASE \E c \in Configs : Prepare(c)
  BY <1>4, PrepareStep
<1>5. CASE Decide
  BY <1>5, DecideStep
<1>6. CASE Fit
  BY <1>6, FitStep
<1>7. CASE UNCHANGED datasetVars
  <2>1. UNCHANGED <<inputs, claims, recipe, rows, artifacts, config, walked, cases, fitted>>
    BY <1>7 DEF datasetVars
  <2>2. DatasetTypes'
    BY <2>1 DEF DatasetInv, DatasetTypes
  <2>3. SnapshotBuilt'
    BY <2>1 DEF DatasetInv, SnapshotBuilt
  <2>4. \A x \in cases : CaseTrue(x)'
    BY <2>1, CaseStays DEF DatasetInv, CasesTrue
  <2>5. CasesTrue'
    BY <2>1, <2>4 DEF DatasetInv, CasesTrue
  <2> QED BY <2>2, <2>3, <2>5 DEF DatasetInv
<1> QED BY <1>1, <1>2, <1>3, <1>4, <1>5, <1>6, <1>7 DEF DatasetNext

LEMMA AlwaysDatasetInv == DatasetSpec => []DatasetInv
BY DatasetInitHolds, DatasetStep, PTL DEF DatasetSpec

-----------------------------------------------------------------------------
(* What a case saw.                                                         *)

LEMMA CaseParts ==
    ASSUME DatasetInv, NEW x \in cases
    PROVE  /\ CaseTrue(x) /\ recipe.status = "built" /\ config \in ReplayConfig
           /\ recipe.policy \in RecipePolicy /\ recipe.policy.horizon \in Nat
           /\ x.candle \in Nat /\ x.scored \in Int
<1>1. CaseTrue(x) /\ config # None
  BY DEF DatasetInv, CasesTrue
<1>2. recipe.status = "built" /\ config \in ReplayConfig
  BY <1>1 DEF DatasetInv, DatasetTypes, SnapshotBuilt
<1>3. recipe.policy \in RecipePolicy
  BY <1>2 DEF DatasetInv, DatasetTypes, Recipes, None
<1>4. recipe.policy.horizon \in Nat
  BY <1>3 DEF RecipePolicy
<1> QED BY <1>1, <1>2, <1>3, <1>4, DatasetConstants DEF CaseTrue

LEMMA InvSeesNoFuture == DatasetInv => ReplaySeesNoFuture
<1> SUFFICES ASSUME DatasetInv, config # None, config.asObserved, NEW x \in cases
             PROVE  /\ KnownThen(x.decision) =>
                          \A j \in Features(config, x.candle) :
                             /\ j \in DOMAIN SnapshotThen(x.decision)
                             /\ SnapshotThen(x.decision)[j] = rows[j]
                    /\ KnownThen(Decision(x.scored, 0)) =>
                          LET k == x.candle + recipe.policy.horizon
                          IN  /\ k \in DOMAIN SnapshotThen(Decision(x.scored, 0))
                              /\ SnapshotThen(Decision(x.scored, 0))[k] = rows[k]
  BY DEF ReplaySeesNoFuture
<1>1. /\ CaseTrue(x) /\ recipe.status = "built" /\ recipe.policy \in RecipePolicy
      /\ recipe.policy.horizon \in Nat /\ x.candle \in Nat /\ x.scored \in Int
  BY CaseParts
<1>2. ASSUME KnownThen(x.decision), NEW j \in Features(config, x.candle)
      PROVE  /\ j \in DOMAIN SnapshotThen(x.decision)
             /\ SnapshotThen(x.decision)[j] = rows[j]
  <2>1. rows[j].final /\ Available(config, j, x.decision.at - x.decision.radius)
    BY <1>1, <1>2 DEF CaseTrue, HasFeatures
  <2>2. KnownBy(rows[j], x.decision)
    BY <2>1 DEF Available, KnownBy
  <2>3. j \in DOMAIN rows
    BY <1>1, <1>2 DEF CaseTrue, HasFeatures, HasLag, Features
  <2> QED BY <1>1, <1>2, <2>1, <2>2, <2>3, RowWasThere
<1>3. ASSUME KnownThen(Decision(x.scored, 0))
      PROVE  LET k == x.candle + recipe.policy.horizon
             IN  /\ k \in DOMAIN SnapshotThen(Decision(x.scored, 0))
                 /\ SnapshotThen(Decision(x.scored, 0))[k] = rows[k]
  <2> DEFINE k == x.candle + recipe.policy.horizon
             d == Decision(x.scored, 0)
  <2>1. HasTarget(config, x.candle, x.decision, x.scored + 1)
    BY <1>1 DEF CaseTrue
  <2>2. k \in LabelChain(rows, recipe.policy, x.candle)
    <3>1. recipe.policy.horizon # 0
      <4>1. CASE recipe.policy.horizon = 0
        <5>1. LabelEnd(x.candle) = CloseOf(x.candle)
          BY <1>1, <4>1 DEF LabelEnd
        <5>2. x.decision.at + x.decision.radius < LabelEnd(x.candle)
          BY <2>1 DEF HasTarget
        <5>3. /\ x.decision.at = CloseOf(x.candle) + config.delay
              /\ x.decision.radius = config.radius
          BY <1>1 DEF CaseTrue, Decision
        <5>4. config.delay \in Nat /\ config.radius \in Nat /\ CloseOf(x.candle) \in Nat
          BY <1>1, CaseParts, DatasetConstants DEF ReplayConfig, CloseOf
        <5> QED BY <5>1, <5>2, <5>3, <5>4
      <4> QED BY <4>1
    <3>2. recipe.policy.horizon \in 1 .. recipe.policy.horizon
      BY <1>1, <3>1
    <3> QED BY <3>2 DEF LabelChain
  <2>3. k \in DOMAIN rows /\ rows[k].final /\ Available(config, k, (x.scored + 1) - 1)
    BY <2>1, <2>2 DEF HasTarget, HasLabel
  <2>4. (x.scored + 1) - 1 = x.scored /\ x.scored - 0 = x.scored
    BY <1>1
  <2>5. rows[k].healthy /\ rows[k].at + Radius <= x.scored
    BY <2>3, <2>4 DEF Available
  <2>6. KnownBy(rows[k], d)
    BY <2>4, <2>5 DEF KnownBy, Decision
  <2> QED BY <1>1, <1>3, <2>3, <2>6, RowWasThere
<1> QED BY <1>2, <1>3

(* A replay in the time of observation sees what there was to see, for every *)
(* history of inputs, recipe and configuration: later revisions, late inputs *)
(* and a snapshot cut off later change nothing of what a decision is made    *)
(* from.                                                                    *)
THEOREM ReplayIsAsOfThen == DatasetSpec => []ReplaySeesNoFuture
BY AlwaysDatasetInv, InvSeesNoFuture, PTL

LEMMA InvKeepsUnseen == DatasetInv => HeldOutStaysUnseen
<1> SUFFICES ASSUME DatasetInv PROVE HeldOutStaysUnseen
  OBVIOUS
<1>1. ASSUME NEW x \in cases PROVE x.decision.at + x.decision.radius < LabelEnd(x.candle)
  BY <1>1, CaseParts DEF CaseTrue, HasTarget
<1>2. ASSUME NEW x \in fitted, NEW y \in cases, y.part # "train"
      PROVE  /\ LabelEnd(x.candle) < y.decision.at - y.decision.radius
             /\ \A j \in LabelChain(rows, recipe.policy, x.candle) :
                    Available(config, j, y.decision.at - y.decision.radius)
  <2> DEFINE from == y.decision.at - y.decision.radius
  <2>1. x \in cases /\ x.part = "train"
    BY <1>2 DEF DatasetInv, CasesTrue
  <2>2. /\ CaseTrue(x) /\ CaseTrue(y) /\ recipe.status = "built" /\ config \in ReplayConfig
        /\ recipe.policy.horizon \in Nat /\ x.candle \in Nat /\ y.candle \in Nat
    BY <1>2, <2>1, CaseParts
  <2>3. config.validation \in Nat /\ config.delay \in Nat /\ config.radius \in Nat
    BY <2>2 DEF ReplayConfig
  <2>4. y.decision.at = CloseOf(y.candle) + config.delay /\ y.decision.radius = config.radius
    BY <2>2 DEF CaseTrue, Decision
  <2>5. CloseOf(y.candle) \in Nat /\ LabelEnd(x.candle) \in Nat
    <3>1. x.candle + recipe.policy.horizon \in Nat
      BY <2>2
    <3> QED BY <2>2, <3>1, DatasetConstants DEF CloseOf, LabelEnd
  <2>6. from \in Int /\ config.validation <= from
    BY <1>2, <2>2, <2>3, <2>4, <2>5 DEF CaseTrue
  <2>7. HasTarget(config, x.candle, x.decision, config.validation)
    BY <2>1, <2>2 DEF CaseTrue
  <2> HIDE DEF from
  <2>8. LabelEnd(x.candle) < from
    <3>1. LabelEnd(x.candle) < config.validation
      BY <2>7 DEF HasTarget
    <3> QED BY <2>3, <2>5, <2>6, <3>1
  <2>9. ASSUME NEW j \in LabelChain(rows, recipe.policy, x.candle)
        PROVE  Available(config, j, from)
    <3>1. j \in DOMAIN rows /\ Available(config, j, config.validation - 1)
      BY <2>7, <2>9 DEF HasTarget, HasLabel
    <3>2. rows[j].at \in Nat /\ j \in Nat
      BY <2>2, <3>1, RowsAreInputs DEF CandleInputs
    <3>3. CloseOf(j) \in Nat /\ rows[j].at + Radius \in Nat
      BY <3>2, DatasetConstants DEF CloseOf
    <3>4. \A t \in Nat : t <= config.validation - 1 => t <= from
      BY <2>3, <2>6
    <3> QED BY <3>1, <3>3, <3>4 DEF Available
  <2> QED BY <2>8, <2>9 DEF from
<1> QED BY <1>1, <1>2 DEF HeldOutStaysUnseen

(* What a transform is fitted on is over, and was known, before the earliest *)
(* moment of any held-out decision: no boundary, delay, uncertainty or       *)
(* horizon lets a label reach into a later part.                             *)
THEOREM HeldOutIsUnseen == DatasetSpec => []HeldOutStaysUnseen
BY AlwaysDatasetInv, InvKeepsUnseen, PTL

-----------------------------------------------------------------------------
(***************************************************************************)
(* Clock.  Of what the monitor knows only the error of the wall clock when *)
(* it was last read matters, and the measurement it trusts: the count of   *)
(* small changes bounds by how much the one exceeds the other, whatever    *)
(* the host did in between, since a suspend can only add to the count.     *)
(* Evidence that is neither the trusted one nor ends the count is from the *)
(* future, and then the wall clock is behind.                              *)
(***************************************************************************)
HostReadings == [kind : {"read"}, wall : Int, mono : Int, boot : Int]
Measurement == [kind : {"report"}, reference : Int, offset : Int, uncertainty : Nat,
                synchronized : BOOLEAN, taken : Int]

(* By what the wall clock was ahead of true time when it was read.           *)
Ahead(reading) == reading.wall - reading.boot

Taken(reading) ==
    /\ reading \in HostReadings
    /\ reading.boot - reading.mono <= slept
    /\ reading.mono <= now - slept

Genuine(report) ==
    report \in measured \cup {[m EXCEPT !.synchronized = FALSE] : m \in measured}

Measurements ==
    /\ \A m \in measured :
        /\ m \in Measurement /\ m.uncertainty = Distance(m.offset, 0)
        /\ m.reference = m.taken + m.offset /\ m.taken <= now
    /\ \A m, n \in measured : m.reference = n.reference => m = n

Reports ==
    /\ chrony # Silent => Genuine(chrony)
    /\ before # Unread => Taken(before)
    /\ before # Unread /\ probed # Silent => Genuine(probed)

Counted ==
    monitor.lastReference # Unknown /\ ~monitor.overtaken =>
        \A m \in measured : m.reference = monitor.lastReference =>
            Ahead(monitor.previous) - m.offset <= monitor.unmeasured + monitor.forgotten

Monitored ==
    /\ monitor.unmeasured \in Nat /\ monitor.forgotten \in Nat
    /\ monitor.previous # Unread => Taken(monitor.previous)
    /\ monitor.lastReference # Unknown =>
        /\ monitor.previous # Unread
        /\ \E m \in measured : m.reference = monitor.lastReference
    /\ Counted

Told ==
    health.status = "healthy" =>
        /\ health.wall \in Int /\ health.truth \in Int /\ health.radius \in Int
        /\ ~monitor.overtaken =>
               health.wall - health.truth <= health.radius + monitor.forgotten

ClockInv ==
    /\ now \in Nat /\ skew \in Int /\ slept \in Nat
    /\ Measurements /\ Reports /\ Monitored /\ Told

-----------------------------------------------------------------------------
LEMMA ClockConstants ==
    /\ Holdover \in Nat \ {0, 1} /\ MaxNow \in Nat /\ Shifts \subseteq Int /\ Unknown \in Int
    /\ MaxStep \in Nat
BY ClockAssumption DEF ClockLimits, Unknown

LEMMA CeilIsNatural ==
    ASSUME NEW a \in Nat, NEW b \in Nat \ {0}
    PROVE  CeilDiv(a, b) \in Nat
BY DEF CeilDiv

LEMMA TimesNatural ==
    ASSUME NEW a \in Nat, NEW b \in Nat
    PROVE  a * b \in Nat
OBVIOUS

LEMMA DistanceIs ==
    ASSUME NEW a \in Int, NEW b \in Int
    PROVE  Distance(a, b) \in Nat /\ a - b <= Distance(a, b) /\ b - a <= Distance(a, b)
BY DEF Distance

(* A report says what its measurement was.                                   *)
LEMMA ReportOf ==
    ASSUME Measurements, NEW report, Genuine(report)
    PROVE  /\ report \in Measurement /\ report.uncertainty = Distance(report.offset, 0)
           /\ report.reference = report.taken + report.offset /\ report.taken <= now
           /\ \E m \in measured : m.reference = report.reference
           /\ \A m \in measured : m.reference = report.reference => m.offset = report.offset
<1>1. PICK m \in measured : report = m \/ report = [m EXCEPT !.synchronized = FALSE]
  BY DEF Genuine
<1>2. m \in Measurement
  BY DEF Measurements
<1>3. /\ report \in Measurement /\ report.uncertainty = m.uncertainty
      /\ report.offset = m.offset /\ report.reference = m.reference /\ report.taken = m.taken
  BY <1>1, <1>2 DEF Measurement
<1> QED BY <1>3 DEF Measurements

(* The radius covers the measured error and the count.                       *)
LEMMA RadiusCovers ==
    ASSUME ClockInv, NEW after \in HostReadings, NEW report \in Measurement,
           before # Unread, before.mono <= after.mono,
           Unmeasured(after, report) \in Nat
    PROVE  /\ RadiusOf(after, report) \in Int
           /\ report.uncertainty + Unmeasured(after, report) <= RadiusOf(after, report)
<1>1. before.mono \in Int /\ after.mono \in Int /\ after.wall \in Int
  BY DEF ClockInv, Reports, Taken, HostReadings
<1>2. report.uncertainty \in Nat /\ report.reference \in Int
  BY DEF Measurement
<1>3. /\ Narrow(after, report) \in Int
      /\ report.uncertainty + Unmeasured(after, report) <= Narrow(after, report)
  BY <1>1, <1>2 DEF Narrow
<1> DEFINE behind == Larger(0, after.wall + Narrow(after, report) - report.reference)
<1>4. behind \in Nat
  BY <1>1, <1>2, <1>3 DEF Larger
<1>5. behind * Holdover \in Nat
  BY <1>4, ClockConstants, TimesNatural
<1>6. AgeOf(after, report) \in Nat
  <2>1. Holdover - 1 \in Nat \ {0}
    BY ClockConstants
  <2> HIDE DEF behind
  <2>2. CeilDiv(behind * Holdover, Holdover - 1) \in Nat
    BY <1>5, <2>1, CeilIsNatural
  <2> QED BY <2>2 DEF AgeOf, behind
<1>7. CeilDiv(AgeOf(after, report), Holdover) \in Nat
  BY <1>6, ClockConstants, CeilIsNatural
<1> HIDE DEF behind
<1> QED BY <1>2, <1>3, <1>7 DEF RadiusOf

LEMMA ReadingIs ==
    ASSUME ClockInv
    PROVE  /\ Reading \in HostReadings /\ Taken(Reading) /\ Ahead(Reading) = skew
           /\ Reading.wall = now + skew /\ Reading.mono = now - slept
           /\ Reading # Unread
<1>1. now \in Nat /\ skew \in Int /\ slept \in Nat
  BY DEF ClockInv
<1> QED BY <1>1 DEF Reading, HostReadings, Taken, Ahead, Unread

(* What the wall clock gained since the last sample was counted.             *)
LEMMA GainIsMoved ==
    ASSUME ClockInv, monitor.previous # Unread
    PROVE  /\ Moved(Reading) \in Nat
           /\ skew - Ahead(monitor.previous) <= Moved(Reading)
           /\ Ahead(monitor.previous) \in Int
<1> DEFINE p == monitor.previous
<1>1. /\ now \in Nat /\ skew \in Int /\ slept \in Nat
      /\ p.wall \in Int /\ p.mono \in Int /\ p.boot \in Int
      /\ p.boot - p.mono <= slept
  BY DEF ClockInv, Monitored, Taken, HostReadings
<1>2. Moved(Reading) = Distance((now + skew) - p.wall, (now - slept) - p.mono)
  BY ReadingIs DEF Moved
<1>3. Moved(Reading) \in Nat /\ (now + skew) - p.wall - ((now - slept) - p.mono) <= Moved(Reading)
  <2>1. PICK a \in Int, b \in Int : a = (now + skew) - p.wall /\ b = (now - slept) - p.mono
    BY <1>1
  <2> QED BY <1>2, <2>1, DistanceIs
<1> QED BY <1>1, <1>3 DEF Ahead

-----------------------------------------------------------------------------
LEMMA ClockInitHolds == ClockInit => ClockInv
<1> SUFFICES ASSUME ClockInit PROVE ClockInv
  OBVIOUS
<1>1. chrony = Report(0, 0, TRUE, 0) /\ measured = {chrony} /\ now = 0
  BY DEF ClockInit
<1>2. /\ chrony \in Measurement /\ chrony.uncertainty = Distance(chrony.offset, 0)
      /\ chrony.reference = chrony.taken + chrony.offset /\ chrony.taken <= now
  BY <1>1 DEF Report, Measurement, Distance
<1>3. Measurements /\ Reports
  BY <1>1, <1>2 DEF Measurements, Reports, Genuine, ClockInit
<1>4. Monitored /\ Told
  BY DEF ClockInit, Monitored, Counted, Told, Fresh, NoHealth
<1> QED BY <1>3, <1>4 DEF ClockInit, ClockInv

(* What was read stays behind the clocks.                                    *)
LEMMA StaysTaken ==
    ASSUME NEW reading, Taken(reading), now' \in Int, slept' \in Int, now \in Int,
           slept \in Int, slept <= slept', now - slept <= now' - slept'
    PROVE  Taken(reading)'
<1>1. /\ reading \in HostReadings /\ reading.boot \in Int /\ reading.mono \in Int
      /\ reading.boot - reading.mono <= slept /\ reading.mono <= now - slept
  BY DEF Taken, HostReadings
<1>2. \A b, k, n, s, nn, ss \in Int :
         /\ b - k <= s /\ k <= n - s /\ s <= ss /\ n - s <= nn - ss
         => b - k <= ss /\ k <= nn - ss
  OBVIOUS
<1>3. reading.boot - reading.mono <= slept' /\ reading.mono <= now' - slept'
  BY <1>1, <1>2
<1> QED BY <1>1, <1>3 DEF Taken

(* The world goes on: what is known of it stays true.                        *)
LEMMA HostMoves ==
    ASSUME ClockInv, now' \in Nat, skew' \in Int, slept' \in Nat, now <= now',
           slept <= slept', now - slept <= now' - slept',
           UNCHANGED <<chrony, measured, before, probed, monitor, health>>
    PROVE  ClockInv'
<1>1. Measurements'
  <2>1. \A m \in measured : m \in Measurement /\ m.taken <= now /\ now \in Int
    BY DEF ClockInv, Measurements
  <2>2. \A m \in measured : m.taken <= now'
    BY <2>1 DEF Measurement
  <2> QED BY <2>2 DEF ClockInv, Measurements
<1>2. \A reading : Taken(reading) => Taken(reading)'
  <2>1. now \in Int /\ slept \in Int /\ now' \in Int /\ slept' \in Int
    BY DEF ClockInv
  <2> TAKE reading
  <2> HAVE Taken(reading)
  <2> QED BY <2>1, StaysTaken
<1>3. Reports'
  BY <1>2 DEF ClockInv, Reports, Genuine, Taken
<1>4. Monitored'
  BY <1>2 DEF ClockInv, Monitored, Counted, Taken, Ahead
<1>5. Told'
  BY DEF ClockInv, Told
<1> QED BY <1>1, <1>3, <1>4, <1>5 DEF ClockInv

LEMMA HostStep ==
    ASSUME ClockInv, Elapse \/ StepWall \/ Suspend
    PROVE  ClockInv'
<1>0. now \in Nat /\ skew \in Int /\ slept \in Nat
  BY DEF ClockInv
<1>1. CASE Elapse
  BY <1>0, <1>1, HostMoves DEF Elapse
<1>2. CASE StepWall
  BY <1>0, <1>2, HostMoves, ClockConstants DEF StepWall
<1>3. CASE Suspend
  <2>1. PICK d \in 1 .. (MaxNow - now) : now' = now + d /\ slept' = slept + d
    BY <1>3 DEF Suspend
  <2> QED BY <1>0, <1>3, <2>1, HostMoves, ClockConstants DEF Suspend
<1> QED BY <1>1, <1>2, <1>3

LEMMA MeasureStep ==
    ASSUME ClockInv, Measure
    PROVE  ClockInv'
<1>0. now \in Nat /\ skew \in Int /\ slept \in Nat
  BY DEF ClockInv
<1> DEFINE new == Report(now + skew, skew, TRUE, now)
<1>1. /\ chrony' = new /\ measured' = measured \cup {new}
      /\ \A m \in measured : m.reference # new.reference
  BY DEF Measure, Report
<1>2. /\ new \in Measurement /\ new.uncertainty = Distance(new.offset, 0)
      /\ new.reference = new.taken + new.offset /\ new.taken <= now
  BY <1>0, DistanceIs DEF Report, Measurement
<1>3. UNCHANGED <<now, skew, slept, before, probed, monitor, health>>
  BY DEF Measure
<1> HIDE DEF new
<1>4. Measurements'
  BY <1>1, <1>2, <1>3 DEF ClockInv, Measurements
<1>5. Reports'
  BY <1>1, <1>3 DEF ClockInv, Reports, Genuine, Taken
<1>6. Monitored'
  <2>1. Counted'
    BY <1>1, <1>3 DEF ClockInv, Monitored, Counted, Ahead
  <2> QED BY <1>1, <1>3, <2>1 DEF ClockInv, Monitored, Taken
<1>7. Told'
  BY <1>3 DEF ClockInv, Told
<1> QED BY <1>0, <1>3, <1>4, <1>5, <1>6, <1>7 DEF ClockInv

LEMMA FalterStep ==
    ASSUME ClockInv, Falter
    PROVE  ClockInv'
<1>1. UNCHANGED <<now, skew, slept, measured, before, probed, monitor, health>>
  BY DEF Falter
<1>2. chrony' # Silent => Genuine(chrony')
  <2>1. CASE chrony.kind = "report" /\ chrony' = [chrony EXCEPT !.synchronized = FALSE]
    <3>1. Genuine(chrony)
      BY <2>1 DEF ClockInv, Reports, Silent
    <3>2. PICK m \in measured : chrony = m \/ chrony = [m EXCEPT !.synchronized = FALSE]
      BY <3>1 DEF Genuine
    <3>3. m \in Measurement
      BY DEF ClockInv, Measurements
    <3>4. chrony' = [m EXCEPT !.synchronized = FALSE]
      BY <2>1, <3>2, <3>3 DEF Measurement
    <3> QED BY <3>4 DEF Genuine
  <2>2. CASE chrony' \in measured
    BY <2>2 DEF Genuine
  <2>3. CASE chrony' = Silent
    BY <2>3
  <2> QED BY <2>1, <2>2, <2>3 DEF Falter
<1>3. Reports'
  BY <1>1, <1>2 DEF ClockInv, Reports, Genuine, Taken
<1>4. Measurements' /\ Monitored' /\ Told'
  BY <1>1 DEF ClockInv, Measurements, Monitored, Counted, Ahead, Told, Taken
<1> QED BY <1>1, <1>3, <1>4 DEF ClockInv

LEMMA BeginStep ==
    ASSUME ClockInv, BeginSample \/ RestartMonitor
    PROVE  ClockInv'
<1>1. CASE BeginSample
  <2>1. /\ UNCHANGED <<now, skew, slept, chrony, measured, monitor, health>>
        /\ before' = Reading /\ probed' = chrony
    BY <1>1 DEF BeginSample
  <2>2. Taken(Reading)
    BY ReadingIs
  <2>3. Reports'
    BY <2>1, <2>2 DEF ClockInv, Reports, Genuine, Taken
  <2>4. Measurements' /\ Monitored' /\ Told'
    BY <2>1 DEF ClockInv, Measurements, Monitored, Counted, Ahead, Told, Taken
  <2> QED BY <2>1, <2>3, <2>4 DEF ClockInv
<1>2. CASE RestartMonitor
  <2>1. /\ UNCHANGED <<now, skew, slept, chrony, measured>>
        /\ before' = Unread /\ probed' = Unread /\ monitor' = Fresh /\ health' = NoHealth
    BY <1>2 DEF RestartMonitor
  <2>2. Measurements' /\ Reports'
    BY <2>1 DEF ClockInv, Measurements, Reports, Genuine
  <2>3. Monitored' /\ Told'
    BY <2>1 DEF Monitored, Counted, Told, Fresh, NoHealth
  <2> QED BY <2>1, <2>2, <2>3 DEF ClockInv
<1> QED BY <1>1, <1>2

-----------------------------------------------------------------------------
(* FinishSample, whose evidence is what was probed.                          *)

LEMMA BreaksHaveNames ==
    ASSUME NEW after, NEW evidence
    PROVE  Disruption(after, evidence) \in
               {"none", "suspend", "clock_step", "sampling_gap", "reference_regression"}
<1>1. \A a, b : Discontinuity(a, b) \in {"none", "suspend", "clock_step", "sampling_gap"}
  BY DEF Discontinuity
<1>2. Break(after) \in {"none", "suspend", "clock_step", "sampling_gap"}
  BY <1>1 DEF Break, Either
<1> QED BY <1>2 DEF Disruption, Either

(* A sample that is trusted met no break, and its evidence is synchronized.  *)
LEMMA TrustedIs ==
    ASSUME NEW after, NEW evidence, evidence.kind = "report",
           Verdict(after, evidence) \in {"startup", "bounded_evidence"}
    PROVE  Disruption(after, evidence) = "none" /\ Synchronized(evidence)
<1>1. Disruption(after, evidence) = "none"
  BY BreaksHaveNames DEF Verdict
<1>2. Reason(after, evidence) \in {"startup", "bounded_evidence"}
  BY <1>1 DEF Verdict
<1>3. Synchronized(evidence)
  BY <1>2 DEF Reason, Synchronized
<1> QED BY <1>1, <1>3

Relies == probed.kind = "report" /\ Verdict(Reading, probed) \in {"startup", "bounded_evidence"}
Begins == Renewed(Reading, probed)
Forgets == probed.kind = "report" /\ (Begins \/ monitor.lastReference = Unknown)

LEMMA ProbedIs ==
    ASSUME ClockInv, before # Unread
    PROVE  \/ probed = Silent /\ probed.kind # "report"
           \/ Genuine(probed) /\ probed.kind = "report" /\ probed \in Measurement
<1>1. CASE probed = Silent
  BY <1>1 DEF Silent
<1>2. CASE Genuine(probed)
  <2>1. probed \in Measurement
    BY <1>2, ReportOf DEF ClockInv
  <2> QED BY <1>2, <2>1 DEF Measurement
<1> QED BY <1>1, <1>2 DEF ClockInv, Reports

LEMMA FinishFields ==
    ASSUME FinishSample
    PROVE  /\ before # Unread /\ before' = Unread
           /\ UNCHANGED <<now, skew, slept, chrony, measured>>
           /\ monitor'.previous = Reading
           /\ monitor'.lastReference = IF Relies THEN probed.reference ELSE monitor.lastReference
           /\ monitor'.unmeasured = Unmeasured(Reading, probed)
           /\ monitor'.forgotten = IF Forgets THEN Distance(skew, probed.offset)
                                   ELSE monitor.forgotten
           /\ monitor'.overtaken <=> /\ monitor.overtaken \/ Begins
                                     /\ Relies => probed.reference = monitor.lastReference
           /\ health'.status = Status(Verdict(Reading, probed))
           /\ health'.wall = Reading.wall /\ health'.truth = now
           /\ probed.kind = "report" => health'.radius = RadiusOf(Reading, probed)
BY DEF FinishSample, Relies, Begins, Forgets

(* The count, and what was forgotten when it began.                          *)
LEMMA CountIs ==
    ASSUME ClockInv, FinishSample
    PROVE  /\ Unmeasured(Reading, probed) \in Nat
           /\ monitor'.forgotten \in Nat
           /\ ~Begins /\ monitor.previous # Unread =>
                  /\ Unmeasured(Reading, probed) = monitor.unmeasured + Moved(Reading)
<1>1. Moved(Reading) \in Nat
  BY GainIsMoved DEF Moved
<1>2. Unmeasured(Reading, probed) \in Nat
  BY <1>1 DEF Unmeasured, ClockInv, Monitored
<1>3. monitor'.forgotten \in Nat
  <2>1. CASE Forgets
    <3>1. probed.offset \in Int /\ skew \in Int
      BY <2>1, FinishFields, ProbedIs DEF Forgets, Measurement, ClockInv
    <3> QED BY <2>1, <3>1, FinishFields, DistanceIs
  <2>2. CASE ~Forgets
    BY <2>2, FinishFields DEF ClockInv, Monitored
  <2> QED BY <2>1, <2>2
<1> QED BY <1>2, <1>3 DEF Unmeasured, Begins

(* A trusted measurement bounds the error by itself and the count.           *)
LEMMA TrustIsCounted ==
    ASSUME ClockInv, FinishSample, Relies, ~monitor'.overtaken
    PROVE  skew - probed.offset <= Unmeasured(Reading, probed) + monitor'.forgotten
<1>0. /\ now \in Nat /\ skew \in Int /\ slept \in Nat
      /\ monitor.unmeasured \in Nat /\ monitor.forgotten \in Nat
      /\ Unmeasured(Reading, probed) \in Nat /\ monitor'.forgotten \in Nat
  BY CountIs DEF ClockInv, Monitored
<1>1. Genuine(probed) /\ probed \in Measurement
  BY FinishFields, ProbedIs DEF Relies
<1>2. /\ probed.offset \in Int /\ probed.reference \in Int /\ probed.taken \in Int
      /\ probed.uncertainty = Distance(probed.offset, 0)
      /\ probed.reference = probed.taken + probed.offset /\ probed.taken <= now
      /\ \A m \in measured : m.reference = probed.reference => m.offset = probed.offset
      /\ \E m \in measured : m.reference = probed.reference
  BY <1>1, ReportOf DEF ClockInv, Measurement
<1>3. Disruption(Reading, probed) = "none" /\ Synchronized(probed)
  BY TrustedIs DEF Relies
<1>4. CASE Forgets
  <2>1. monitor'.forgotten = Distance(skew, probed.offset)
    BY <1>4, FinishFields
  <2>2. skew - probed.offset <= Distance(skew, probed.offset)
    BY <1>0, <1>2, DistanceIs
  <2> QED BY <1>0, <1>2, <2>1, <2>2
<1>5. CASE ~Forgets
  <2>1. /\ ~Begins /\ monitor.lastReference # Unknown /\ monitor.previous # Unread
        /\ monitor'.forgotten = monitor.forgotten
    BY <1>5, FinishFields DEF Forgets, Relies, ClockInv, Monitored
  <2>2. ~(probed.reference < monitor.lastReference)
    BY <1>3, <2>1, BreaksHaveNames DEF Disruption, Regressed, Either
  <2>3. monitor.lastReference \in Int
    BY <2>1 DEF ClockInv, Monitored, Measurements, Measurement
  <2>4. CASE probed.reference = monitor.lastReference
    <3>1. ~monitor.overtaken
      BY <2>1, <2>4, FinishFields
    <3>2. Ahead(monitor.previous) - probed.offset <= monitor.unmeasured + monitor.forgotten
      BY <1>2, <2>1, <2>4, <3>1 DEF ClockInv, Monitored, Counted
    <3>3. /\ skew - Ahead(monitor.previous) <= Moved(Reading) /\ Moved(Reading) \in Nat
          /\ Ahead(monitor.previous) \in Int
          /\ Unmeasured(Reading, probed) = monitor.unmeasured + Moved(Reading)
      BY <2>1, GainIsMoved, CountIs
    <3> QED BY <1>0, <1>2, <2>1, <3>2, <3>3
  <2>5. CASE probed.reference > monitor.lastReference
    <3>1. ~(probed.reference <= Reading.wall + probed.uncertainty)
      BY <1>3, <2>1, <2>5 DEF Begins, Renewed
    <3>2. Reading.wall = now + skew /\ probed.uncertainty \in Nat
      BY <1>1, ReadingIs DEF Measurement
    <3>3. skew - probed.offset <= 0
      BY <1>0, <1>2, <3>1, <3>2
    <3> QED BY <1>0, <3>3, <1>2
  <2> QED BY <1>2, <2>2, <2>3, <2>4, <2>5
<1> QED BY <1>4, <1>5

LEMMA FinishKeepsCount ==
    ASSUME ClockInv, FinishSample
    PROVE  Monitored'
<1>0. /\ skew \in Int /\ Ahead(Reading) = skew
      /\ \A m \in measured : m.offset \in Int
      /\ monitor.unmeasured \in Nat /\ monitor.forgotten \in Nat
  BY ReadingIs DEF ClockInv, Measurements, Measurement, Monitored
<1>1. /\ monitor'.unmeasured \in Nat /\ monitor'.forgotten \in Nat
      /\ monitor'.unmeasured = Unmeasured(Reading, probed)
      /\ monitor'.previous = Reading /\ monitor'.previous # Unread
      /\ measured' = measured
  BY CountIs, FinishFields, ReadingIs
<1>2. Taken(monitor.previous)'
  BY <1>1, FinishFields, ReadingIs DEF Taken
<1>3. CASE Relies
  <2>1. /\ monitor'.lastReference = probed.reference
        /\ Genuine(probed)
    BY <1>3, FinishFields, ProbedIs DEF Relies
  <2>2. /\ \E m \in measured : m.reference = probed.reference
        /\ \A m \in measured : m.reference = probed.reference => m.offset = probed.offset
    BY <2>1, ReportOf DEF ClockInv
  <2>3. ~monitor'.overtaken =>
            \A m \in measured : m.reference = monitor'.lastReference =>
                Ahead(monitor'.previous) - m.offset <= monitor'.unmeasured + monitor'.forgotten
    BY <1>0, <1>1, <1>3, <2>1, <2>2, TrustIsCounted
  <2>4. Counted'
    BY <1>1, <2>3 DEF Counted, Ahead
  <2> QED BY <1>1, <1>2, <2>1, <2>2, <2>4 DEF Monitored
<1>4. CASE ~Relies
  <2>1. monitor'.lastReference = monitor.lastReference
    BY <1>4, FinishFields
  <2>2. monitor.lastReference # Unknown =>
          /\ \E m \in measured : m.reference = monitor.lastReference
          /\ monitor.previous # Unread
    BY DEF ClockInv, Monitored
  <2>3. ASSUME monitor.lastReference # Unknown, ~monitor'.overtaken,
               NEW m \in measured, m.reference = monitor.lastReference
        PROVE  Ahead(monitor'.previous) - m.offset <= monitor'.unmeasured + monitor'.forgotten
    <3>1. ~monitor.overtaken /\ ~Begins
      BY <1>4, <2>3, FinishFields
    <3>2. monitor'.forgotten = monitor.forgotten
      BY <2>3, <3>1, FinishFields DEF Forgets
    <3>3. Ahead(monitor.previous) - m.offset <= monitor.unmeasured + monitor.forgotten
      BY <2>3, <3>1 DEF ClockInv, Monitored, Counted
    <3>4. /\ skew - Ahead(monitor.previous) <= Moved(Reading) /\ Moved(Reading) \in Nat
          /\ Ahead(monitor.previous) \in Int
          /\ Unmeasured(Reading, probed) = monitor.unmeasured + Moved(Reading)
      BY <2>2, <2>3, <3>1, GainIsMoved, CountIs
    <3> QED BY <1>0, <1>1, <3>2, <3>3, <3>4
  <2>4. Counted'
    BY <1>1, <2>1, <2>3 DEF Counted, Ahead
  <2> QED BY <1>1, <1>2, <2>1, <2>2, <2>4 DEF Monitored
<1> QED BY <1>3, <1>4

LEMMA FinishTells ==
    ASSUME ClockInv, FinishSample
    PROVE  Told'
<1> SUFFICES ASSUME health'.status = "healthy"
             PROVE  /\ health'.wall \in Int /\ health'.truth \in Int /\ health'.radius \in Int
                    /\ ~monitor'.overtaken =>
                           health'.wall - health'.truth <= health'.radius + monitor'.forgotten
  BY DEF Told
<1>1. Verdict(Reading, probed) = "bounded_evidence"
  BY FinishFields DEF Status
<1>2. probed.kind = "report"
  <2>1. Reason(Reading, probed) = "bounded_evidence"
    BY <1>1, BreaksHaveNames DEF Verdict
  <2> QED BY <2>1, FinishFields, ProbedIs DEF Reason, Silent
<1>3. Relies
  BY <1>1, <1>2 DEF Relies
<1>4. /\ probed \in Measurement /\ probed.uncertainty = Distance(probed.offset, 0)
      /\ probed.offset \in Int
  BY <1>2, FinishFields, ProbedIs, ReportOf DEF ClockInv, Measurement
<1>5. before.mono <= Reading.mono
  BY FinishFields, ReadingIs DEF ClockInv, Reports, Taken
<1>6. /\ RadiusOf(Reading, probed) \in Int
      /\ probed.uncertainty + Unmeasured(Reading, probed) <= RadiusOf(Reading, probed)
  BY <1>4, <1>5, FinishFields, ReadingIs, CountIs, RadiusCovers
<1>7. /\ health'.wall = now + skew /\ health'.truth = now
      /\ health'.radius = RadiusOf(Reading, probed)
  BY <1>2, FinishFields, ReadingIs
<1>8. /\ now \in Nat /\ skew \in Int /\ Unmeasured(Reading, probed) \in Nat
      /\ monitor'.forgotten \in Nat
  BY CountIs DEF ClockInv
<1>9. /\ probed.offset <= Distance(probed.offset, 0) /\ Distance(probed.offset, 0) \in Nat
  BY <1>4, DistanceIs DEF Distance
<1>10. ~monitor'.overtaken =>
           skew - probed.offset <= Unmeasured(Reading, probed) + monitor'.forgotten
  BY <1>3, TrustIsCounted
<1> QED BY <1>4, <1>6, <1>7, <1>8, <1>9, <1>10

LEMMA ClockStep == ClockInv /\ [ClockNext]_clockVars => ClockInv'
<1> SUFFICES ASSUME ClockInv, [ClockNext]_clockVars PROVE ClockInv'
  OBVIOUS
<1>1. CASE Elapse \/ StepWall \/ Suspend
  BY <1>1, HostStep
<1>2. CASE Measure
  BY <1>2, MeasureStep
<1>3. CASE Falter
  BY <1>3, FalterStep
<1>4. CASE BeginSample \/ RestartMonitor
  BY <1>4, BeginStep
<1>5. CASE FinishSample
  <2>1. Monitored' /\ Told'
    BY <1>5, FinishKeepsCount, FinishTells
  <2>2. Measurements' /\ Reports'
    BY <1>5, FinishFields DEF ClockInv, Measurements, Reports, Genuine
  <2> QED BY <1>5, <2>1, <2>2, FinishFields DEF ClockInv
<1>6. CASE UNCHANGED clockVars
  BY <1>6 DEF clockVars, ClockInv, Measurements, Reports, Genuine, Taken, Monitored,
     Counted, Ahead, Told
<1> QED BY <1>1, <1>2, <1>3, <1>4, <1>5, <1>6 DEF ClockNext

(* A boundary accepted as past is past, for all limits, shifts and restarts. *)
THEOREM FinalityInTime == ClockSpec => []FinalityIsNotEarly
<1>1. ClockInv => FinalityIsNotEarly
  <2> SUFFICES ASSUME ClockInv, ~monitor.overtaken,
                      NEW boundary \in -MaxNow .. 2 * MaxNow, IsFinal(health, boundary)
               PROVE  boundary < health.truth + monitor.forgotten
    BY DEF FinalityIsNotEarly, NotEarly
  <2>1. health.status = "healthy" /\ health.wall - health.radius > boundary
    BY DEF IsFinal, Bounded
  <2>2. /\ health.wall \in Int /\ health.truth \in Int /\ health.radius \in Int
        /\ health.wall - health.truth <= health.radius + monitor.forgotten
        /\ monitor.forgotten \in Nat /\ boundary \in Int
    BY <2>1, ClockConstants DEF ClockInv, Told, Monitored
  <2> QED BY <2>1, <2>2
<1> QED BY <1>1, ClockInitHolds, ClockStep, PTL DEF ClockSpec
=============================================================================
