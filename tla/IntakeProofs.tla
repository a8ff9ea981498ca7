---------------------------- MODULE IntakeProofs ----------------------------
(***************************************************************************)
(* Proofs about what reaches the application over a network: LiveSource,   *)
(* for budgets, queues and caches of any size, and Pull, for any           *)
(* producers, epochs and lengths of their histories. The budget shared by  *)
(* the sources keeps its headroom and nothing is lost silently; the        *)
(* history a puller trusts stays whole, and it is not taken back.          *)
(***************************************************************************)
EXTENDS LiveSource, Pull, SequenceTheorems, WellFoundedInduction, TLAPS

(***************************************************************************)
(* LiveSource.  The states of the market that were received are on one     *)
(* line: stored, in the supervisor's hands, in the queue, on the wire.     *)
(* The invariant says that whatever precedes a state on this line is       *)
(* stored, excused or ahead of it, that a connection has the present state *)
(* on the line, and that the replay cache knows only of what was taken off *)
(* the wire.                                                               *)
(***************************************************************************)
Shape ==
    /\ market \in Nat
    /\ wire \in Seq(Nat \ {0}) /\ intake \in Seq(Nat \ {0})
    /\ seen \in Seq(Nat \ {0})
    /\ yielded \in Nat /\ live \in Nat
    /\ page \in {0, Page}
    /\ link = "up" => reader = "reading" /\ market # 0
    /\ reader = "none" /\ ~closed => noticed
    /\ stored \subseteq 1 .. market

Settled == stored \cup excused

(* Taken off the wire, and not forgotten. *)
Taken(v) == v \in Settled \/ v = yielded \/ In(v, intake)

StoredCovered  == \A v \in stored : 1 .. v \subseteq Settled
YieldedCovered == \A w \in 1 .. yielded - 1 : w \in Settled
IntakeCovered  ==
    \A i \in 1 .. Len(intake) : \A w \in 1 .. intake[i] - 1 :
        w \in Settled \/ w = yielded \/ \E j \in 1 .. i - 1 : intake[j] = w
WireCovered ==
    \A i \in 1 .. Len(wire) : \A w \in 1 .. wire[i] - 1 :
        Taken(w) \/ \E j \in 1 .. i - 1 : wire[j] = w
SeenTaken == \A v : In(v, seen) => v \in stored \/ v = yielded \/ In(v, intake)
PresentKnown ==
    link = "up" => market \in stored \/ market = yielded \/ In(market, intake) \/ In(market, wire)

Bounded ==
    /\ yielded <= market
    /\ \A i \in 1 .. Len(intake) : intake[i] <= market
    /\ \A i \in 1 .. Len(wire) : wire[i] <= market

Line == StoredCovered /\ YieldedCovered /\ IntakeCovered /\ WireCovered

IInv == Shape /\ HeadroomKept /\ Bounded /\ Line /\ SeenTaken /\ PresentKnown

-----------------------------------------------------------------------------
(* Sequences as queues.                                                    *)

LEMMA InAppend ==
    ASSUME NEW S, NEW s \in Seq(S), NEW v \in S
    PROVE  /\ Append(s, v) \in Seq(S) /\ Len(Append(s, v)) = Len(s) + 1
           /\ \A i \in 1 .. Len(s) : Append(s, v)[i] = s[i]
           /\ Append(s, v)[Len(s) + 1] = v
           /\ \A w : In(w, Append(s, v)) <=> w = v \/ In(w, s)
BY DEF In

LEMMA InTail ==
    ASSUME NEW S, NEW s \in Seq(S), s # <<>>
    PROVE  /\ Head(s) \in S /\ Head(s) = s[1] /\ Tail(s) \in Seq(S)
           /\ Len(s) > 0 /\ Len(Tail(s)) = Len(s) - 1
           /\ \A i \in 1 .. Len(Tail(s)) : Tail(s)[i] = s[i + 1]
           /\ \A w : In(w, s) <=> w = Head(s) \/ In(w, Tail(s))
<1>1. /\ Head(s) \in S /\ Head(s) = s[1] /\ Tail(s) \in Seq(S)
      /\ Len(s) > 0 /\ Len(Tail(s)) = Len(s) - 1
      /\ \A i \in 1 .. Len(Tail(s)) : Tail(s)[i] = s[i + 1]
  OBVIOUS
<1>2. ASSUME NEW w, In(w, s) PROVE w = Head(s) \/ In(w, Tail(s))
  <2>1. PICK i \in 1 .. Len(s) : s[i] = w
    BY <1>2 DEF In
  <2>2. CASE i = 1
    BY <1>1, <2>1, <2>2
  <2>3. CASE i # 1
    <3> DEFINE t == Tail(s)
    <3>1. i - 1 \in 1 .. Len(t) /\ t[i - 1] = w /\ t \in Seq(S)
      BY <1>1, <2>1, <2>3
    <3> HIDE DEF t
    <3>2. In(w, t)
      BY <3>1 DEF In
    <3> QED BY <3>2 DEF t
  <2> QED BY <2>2, <2>3
<1>3. ASSUME NEW w, w = Head(s) \/ In(w, Tail(s)) PROVE In(w, s)
  BY <1>1, <1>3 DEF In
<1> QED BY <1>1, <1>2, <1>3

LEMMA InWithout ==
    ASSUME NEW s \in Seq(Nat \ {0}), NEW v, NEW w, In(w, Without(v, s))
    PROVE  In(w, s)
<1>1. CASE In(v, s)
  <2> DEFINE i == CHOOSE i \in DOMAIN s : s[i] = v
  <2>1. i \in 1 .. Len(s)
    BY <1>1 DEF In
  <2> HIDE DEF i
  <2>2. Without(v, s) = SubSeq(s, 1, i - 1) \o SubSeq(s, i + 1, Len(s))
    BY <1>1 DEF Without, RemoveAt, i
  <2> DEFINE a == SubSeq(s, 1, i - 1)
             b == SubSeq(s, i + 1, Len(s))
  <2>3. /\ a \in Seq(Nat \ {0}) /\ Len(a) = i - 1 /\ \A k \in 1 .. i - 1 : a[k] = s[k]
        /\ b \in Seq(Nat \ {0}) /\ Len(b) = Len(s) - i
        /\ \A k \in 1 .. Len(s) - i : b[k] = s[k + i]
    BY <2>1, SubSeqProperties
  <2>4. In(w, a \o b)
    BY <2>2
  <2> HIDE DEF a, b
  <2>5. PICK k \in 1 .. Len(a) + Len(b) : (a \o b)[k] = w
    BY <2>3, <2>4 DEF In
  <2>6. (a \o b)[k] = IF k <= Len(a) THEN a[k] ELSE b[k - Len(a)]
    BY <2>3, ConcatProperties
  <2>7. CASE k <= Len(a)
    <3>1. w = s[k] /\ k \in 1 .. Len(s)
      BY <2>1, <2>3, <2>5, <2>7
    <3> QED BY <3>1 DEF In
  <2>8. CASE k > Len(a)
    <3>1. Len(a) \in Nat /\ Len(b) \in Nat
      BY <2>3
    <3>2. w = b[k - Len(a)] /\ k - Len(a) \in 1 .. Len(b)
      BY <2>5, <2>8, <2>6, <3>1
    <3>3. w = s[k - Len(a) + i] /\ k - Len(a) + i \in 1 .. Len(s)
      BY <2>1, <2>3, <3>2
    <3> QED BY <3>3 DEF In
  <2> QED BY <2>3, <2>5, <2>7, <2>8
<1>2. CASE ~In(v, s)
  BY <1>2 DEF Without
<1> QED BY <1>1, <1>2

LEMMA WithoutType ==
    ASSUME NEW s \in Seq(Nat \ {0}), NEW v
    PROVE  Without(v, s) \in Seq(Nat \ {0})
<1>1. CASE In(v, s)
  <2> DEFINE i == CHOOSE i \in DOMAIN s : s[i] = v
  <2>1. i \in 1 .. Len(s)
    BY <1>1 DEF In
  <2> HIDE DEF i
  <2>2. Without(v, s) = SubSeq(s, 1, i - 1) \o SubSeq(s, i + 1, Len(s))
    BY <1>1 DEF Without, RemoveAt, i
  <2> QED BY <2>1, <2>2
<1>2. CASE ~In(v, s)
  BY <1>2 DEF Without
<1> QED BY <1>1, <1>2

(* _remember: the cache learns of one record, and may forget another. *)
LEMMA RememberIn ==
    ASSUME seen \in Seq(Nat \ {0}), NEW v \in Nat \ {0}
    PROVE  /\ Remember(v) \in Seq(Nat \ {0})
           /\ \A w : In(w, Remember(v)) => w = v \/ In(w, seen)
<1> DEFINE longer == Append(Without(v, seen), v)
<1>1. longer \in Seq(Nat \ {0}) /\ longer # <<>>
  BY WithoutType, InAppend
<1>2. \A w : In(w, longer) => w = v \/ In(w, seen)
  BY WithoutType, InAppend, InWithout
<1>3. Tail(longer) \in Seq(Nat \ {0}) /\ \A w : In(w, Tail(longer)) => In(w, longer)
  BY <1>1, InTail
<1> QED BY <1>1, <1>2, <1>3 DEF Remember

-----------------------------------------------------------------------------
(* The line.                                                               *)

Moving == <<market, wire, link, intake, seen, yielded, stored, excused>>

LEMMA Constants ==
    Capacity \in Nat /\ Reserve \in Nat /\ Page \in Nat /\ Reserve < Capacity
BY LiveSourceAssumption

LEMMA NoQueue == <<>> \in Seq(Nat \ {0})
OBVIOUS

LEMMA Queues ==
    ASSUME Shape
    PROVE  /\ Len(intake) \in Nat /\ Len(wire) \in Nat
           /\ \A i \in 1 .. Len(intake) : intake[i] \in Nat \ {0}
           /\ \A i \in 1 .. Len(wire) : wire[i] \in Nat \ {0}
BY DEF Shape

(* What neither the budget nor the flags touch. *)
LEMMA LineKept ==
    ASSUME Bounded, Line, SeenTaken, PresentKnown, UNCHANGED Moving
    PROVE  Bounded' /\ Line' /\ SeenTaken' /\ PresentKnown'
BY DEF Moving, Bounded, Line, StoredCovered, YieldedCovered, IntakeCovered, WireCovered,
       Settled, Taken, SeenTaken, PresentKnown, In

(* A live connection has all of the market on the line. *)
LEMMA AllKnown ==
    ASSUME IInv, link = "up", NEW w \in 1 .. market
    PROVE  Taken(w) \/ In(w, wire)
<1>1. CASE w = market
  BY <1>1 DEF IInv, PresentKnown, Taken, Settled
<1>2. CASE w # market
  <2>1. w \in 1 .. market - 1
    BY <1>2 DEF IInv, Shape
  <2>2. CASE market \in stored
    BY <2>2 DEF IInv, Shape, Line, StoredCovered, Taken
  <2>3. CASE market = yielded
    BY <2>1, <2>3 DEF IInv, Line, YieldedCovered, Taken
  <2>4. CASE In(market, intake)
    <3>1. PICK i \in 1 .. Len(intake) : intake[i] = market
      BY <2>4 DEF In, IInv, Shape
    <3>2. w \in Settled \/ w = yielded \/ \E j \in 1 .. i - 1 : intake[j] = w
      BY <2>1, <3>1 DEF IInv, Line, IntakeCovered
    <3>3. \A j \in 1 .. i - 1 : j \in DOMAIN intake
      BY <3>1 DEF IInv, Shape
    <3> QED BY <3>2, <3>3 DEF Taken, In
  <2>5. CASE In(market, wire)
    <3>1. PICK i \in 1 .. Len(wire) : wire[i] = market
      BY <2>5 DEF In, IInv, Shape
    <3>2. Taken(w) \/ \E j \in 1 .. i - 1 : wire[j] = w
      BY <2>1, <3>1 DEF IInv, Line, WireCovered
    <3>3. \A j \in 1 .. i - 1 : j \in DOMAIN wire
      BY <3>1 DEF IInv, Shape
    <3> QED BY <3>2, <3>3 DEF In
  <2> QED BY <2>2, <2>3, <2>4, <2>5 DEF IInv, PresentKnown
<1> QED BY <1>1, <1>2

(* More is excused, the rest is as it was. *)
LEMMA ExcusedGrows ==
    ASSUME Line, excused \subseteq excused', UNCHANGED <<intake, yielded, stored>>
    PROVE  StoredCovered' /\ YieldedCovered' /\ IntakeCovered' /\ \A v : Taken(v) => Taken(v)'
BY DEF Line, StoredCovered, YieldedCovered, IntakeCovered, Settled, Taken, In

(* The line is cut down to what is stored. *)
LEMMA LineEmptied ==
    ASSUME IInv, intake' = <<>>, wire' = <<>>, seen' = <<>>, yielded' = 0, link' # "up",
           excused \subseteq excused', UNCHANGED <<market, stored>>
    PROVE  Bounded' /\ Line' /\ SeenTaken' /\ PresentKnown'
BY DEF IInv, Shape, Bounded, Line, StoredCovered, YieldedCovered, IntakeCovered, WireCovered,
       Settled, SeenTaken, PresentKnown, In

(* The connection is gone, and with it what was on the wire. *)
LEMMA WireCut ==
    ASSUME IInv, wire' = <<>>, link' # "up", UNCHANGED <<market, intake, seen, yielded, stored, excused>>
    PROVE  Bounded' /\ Line' /\ SeenTaken' /\ PresentKnown'
BY DEF IInv, Bounded, Line, StoredCovered, YieldedCovered, IntakeCovered, WireCovered,
       Settled, SeenTaken, PresentKnown, In

-----------------------------------------------------------------------------
(* The steps.                                                              *)

LEMMA BudgetStep ==
    ASSUME IInv, ReservePage \/ ReleasePage
    PROVE  IInv'
<1>1. UNCHANGED Moving
  BY DEF ReservePage, ReleasePage, Moving
<1>2. Bounded' /\ Line' /\ SeenTaken' /\ PresentKnown'
  BY <1>1, LineKept DEF IInv
<1>3. Shape'
  BY Constants DEF IInv, Shape, ReservePage, ReleasePage
<1>4. HeadroomKept'
  BY Constants
     DEF IInv, Shape, HeadroomKept, Held, LiveAdmitted, BackfillAdmitted, ReservePage, ReleasePage
<1> QED BY <1>2, <1>3, <1>4 DEF IInv

LEMMA UpdateStep ==
    ASSUME IInv, Update
    PROVE  IInv'
<1>0. Shape /\ HeadroomKept /\ Bounded /\ Line /\ SeenTaken /\ PresentKnown
  BY DEF IInv
<1> USE <1>0 DEF Update
<1>1. CASE link = "up"
  <2>1. market + 1 \in Nat \ {0} /\ wire' = Append(wire, market + 1)
    BY <1>1 DEF Shape
  <2>2. /\ wire' \in Seq(Nat \ {0}) /\ Len(wire') = Len(wire) + 1
        /\ \A i \in 1 .. Len(wire) : wire'[i] = wire[i]
        /\ wire'[Len(wire) + 1] = market + 1
        /\ In(market + 1, wire')
    <3>1. wire \in Seq(Nat \ {0})
      BY DEF Shape
    <3> QED BY <2>1, <3>1, InAppend
  <2>3. \A v : Taken(v) => Taken(v)'
    BY DEF Taken, Settled, In
  <2>4. ASSUME NEW i \in 1 .. Len(wire'), NEW w \in 1 .. wire'[i] - 1
        PROVE  Taken(w)' \/ \E j \in 1 .. i - 1 : wire'[j] = w
    <3>1. CASE i \in 1 .. Len(wire)
      <4>1. Taken(w) \/ \E j \in 1 .. i - 1 : wire[j] = w
        BY <2>2, <2>4, <3>1 DEF Line, WireCovered
      <4>2. \A j \in 1 .. i - 1 : wire'[j] = wire[j]
        BY <2>2, <3>1 DEF Shape
      <4> QED BY <2>3, <4>1, <4>2
    <3>2. CASE i = Len(wire) + 1
      <4>1. w \in 1 .. market
        BY <2>2, <3>2 DEF Shape
      <4>2. Taken(w) \/ \E j \in 1 .. Len(wire) : wire[j] = w
        BY <1>1, <4>1, AllKnown DEF In, Shape
      <4> QED BY <2>2, <2>3, <3>2, <4>2 DEF Shape
    <3> QED BY <2>2, <3>1, <3>2 DEF Shape
  <2>5. Shape' /\ HeadroomKept'
    BY <1>1, <2>2 DEF Shape, HeadroomKept, Held, LiveAdmitted
  <2>6. Bounded'
    <3>1. \A i \in 1 .. Len(wire') : wire'[i] <= market + 1
      <4> TAKE i \in 1 .. Len(wire')
      <4>1. CASE i \in 1 .. Len(wire)
        <5>1. wire[i] \in Nat /\ wire[i] <= market /\ wire'[i] = wire[i]
          BY <2>2, <4>1 DEF Bounded, Shape
        <5> QED BY <5>1 DEF Shape
      <4>2. CASE i = Len(wire) + 1
        BY <2>2, <4>2 DEF Shape
      <4> QED BY <2>2, <4>1, <4>2 DEF Shape
    <3>2. \A i \in 1 .. Len(intake) : intake[i] \in Nat /\ intake[i] <= market
      BY Queues DEF Bounded
    <3> QED BY <3>1, <3>2 DEF Bounded, Shape
  <2>7. StoredCovered' /\ YieldedCovered' /\ IntakeCovered'
    BY ExcusedGrows
  <2>8. SeenTaken' /\ PresentKnown'
    BY <2>2 DEF SeenTaken, PresentKnown, In
  <2> QED BY <2>4, <2>5, <2>6, <2>7, <2>8 DEF IInv, Line, WireCovered
<1>2. CASE link # "up"
  <2>1. Shape' /\ HeadroomKept'
    BY <1>2 DEF Shape, HeadroomKept, Held, LiveAdmitted
  <2>2. Bounded'
    <3>1. /\ \A i \in 1 .. Len(intake) : intake[i] \in Nat /\ intake[i] <= market
          /\ \A i \in 1 .. Len(wire) : wire[i] \in Nat /\ wire[i] <= market
      BY Queues DEF Bounded
    <3> QED BY <1>2, <3>1 DEF Bounded, Shape
  <2>3. Line' /\ SeenTaken' /\ PresentKnown'
    BY <1>2 DEF Line, StoredCovered, YieldedCovered, IntakeCovered, WireCovered,
                Settled, Taken, SeenTaken, PresentKnown, In
  <2> QED BY <2>1, <2>2, <2>3 DEF IInv
<1> QED BY <1>1, <1>2

LEMMA ConnectStep ==
    ASSUME IInv, Connect
    PROVE  IInv'
<1>0. Shape /\ HeadroomKept /\ Bounded /\ Line /\ SeenTaken /\ PresentKnown
  BY DEF IInv
<1> USE <1>0 DEF Connect
<1>1. market \in Nat \ {0} /\ wire' = <<market>> /\ noticed
  BY DEF Shape
<1>2. /\ wire' \in Seq(Nat \ {0}) /\ Len(wire') = 1 /\ wire'[1] = market
      /\ In(market, wire')
  BY <1>1 DEF In
<1>3. excused' = excused \cup 1 .. market - 1
  BY <1>1
<1>4. Shape' /\ HeadroomKept'
  BY <1>2 DEF Shape, HeadroomKept, Held, LiveAdmitted
<1>5. Bounded'
  BY <1>1, <1>2 DEF Bounded
<1>6. StoredCovered' /\ YieldedCovered' /\ IntakeCovered'
  BY <1>3, ExcusedGrows
<1>7. WireCovered'
  BY <1>1, <1>2, <1>3 DEF WireCovered, Taken, Settled
<1>8. SeenTaken' /\ PresentKnown'
  BY <1>2 DEF SeenTaken, PresentKnown, In
<1> QED BY <1>4, <1>5, <1>6, <1>7, <1>8 DEF IInv, Line

LEMMA CutStep ==
    ASSUME IInv, Disconnect \/ Stall \/ HeartbeatDeadline
    PROVE  IInv'
<1>1. Bounded' /\ Line' /\ SeenTaken' /\ PresentKnown'
  BY WireCut DEF Disconnect, Stall, HeartbeatDeadline, ReaderFails
<1>2. Shape'
  BY NoQueue DEF IInv, Shape, Disconnect, Stall, HeartbeatDeadline, ReaderFails
<1>3. HeadroomKept'
  BY DEF IInv, HeadroomKept, Held, LiveAdmitted,
         Disconnect, Stall, HeartbeatDeadline, ReaderFails
<1> QED BY <1>1, <1>2, <1>3 DEF IInv

(* The head of the wire, and what is left behind it. *)
LEMMA WireHead ==
    ASSUME IInv, wire # <<>>
    PROVE  /\ Head(wire) \in Nat \ {0} /\ Head(wire) <= market
           /\ \A w \in 1 .. Head(wire) - 1 : Taken(w)
           /\ \A i \in 1 .. Len(Tail(wire)) : Tail(wire)[i] <= market
           /\ \A i \in 1 .. Len(Tail(wire)), w \in Nat :
                w \in 1 .. Tail(wire)[i] - 1 =>
                  \/ Taken(w) \/ w = Head(wire)
                  \/ \E j \in 1 .. i - 1 : Tail(wire)[j] = w
<1>1. wire \in Seq(Nat \ {0})
  BY DEF IInv, Shape
<1>2. /\ Head(wire) \in Nat \ {0} /\ Head(wire) = wire[1] /\ Len(wire) \in Nat /\ Len(wire) > 0
      /\ Len(Tail(wire)) = Len(wire) - 1
      /\ \A i \in 1 .. Len(Tail(wire)) : Tail(wire)[i] = wire[i + 1]
  BY <1>1, InTail
<1> DEFINE t == Tail(wire)
<1>3. /\ Len(t) = Len(wire) - 1 /\ \A i \in 1 .. Len(t) : t[i] = wire[i + 1]
  BY <1>2
<1> HIDE DEF t
<1>4. Head(wire) <= market /\ \A w \in 1 .. Head(wire) - 1 : Taken(w)
  BY <1>2 DEF IInv, Line, WireCovered, Bounded
<1>5. \A i \in 1 .. Len(t) : t[i] <= market
  BY <1>2, <1>3 DEF IInv, Bounded
<1>6. ASSUME NEW i \in 1 .. Len(t), NEW w \in Nat, w \in 1 .. t[i] - 1
      PROVE  Taken(w) \/ w = Head(wire) \/ \E j \in 1 .. i - 1 : t[j] = w
  <2>1. i + 1 \in 1 .. Len(wire) /\ t[i] = wire[i + 1]
    BY <1>2, <1>3
  <2>2. Taken(w) \/ \E j \in 1 .. (i + 1) - 1 : wire[j] = w
    BY <1>6, <2>1 DEF IInv, Line, WireCovered
  <2>3. ASSUME NEW j \in 1 .. (i + 1) - 1, wire[j] = w
        PROVE  w = Head(wire) \/ \E k \in 1 .. i - 1 : t[k] = w
    <3>1. CASE j = 1
      BY <1>2, <2>3, <3>1
    <3>2. CASE j # 1
      <4>1. j - 1 \in 1 .. i - 1 /\ j - 1 \in 1 .. Len(t) /\ t[j - 1] = w
        BY <1>2, <1>3, <2>1, <2>3, <3>2
      <4> QED BY <4>1
    <3> QED BY <3>1, <3>2
  <2> QED BY <2>2, <2>3
<1> QED BY <1>2, <1>4, <1>5, <1>6 DEF t

LEMMA ReceiveStep ==
    ASSUME IInv, Receive
    PROVE  IInv'
<1>0. Shape /\ HeadroomKept /\ Bounded /\ Line /\ SeenTaken /\ PresentKnown
  BY DEF IInv
<1> PICK v : v = Head(wire)
  OBVIOUS
<1>1. /\ v \in Nat \ {0} /\ v <= market /\ Tail(wire) \in Seq(Nat \ {0})
      /\ Remember(v) \in Seq(Nat \ {0})
      /\ \A w : In(w, Remember(v)) => w = v \/ In(w, seen)
      /\ \A w : In(w, wire) => w = v \/ In(w, Tail(wire))
  <2>1. wire \in Seq(Nat \ {0}) /\ seen \in Seq(Nat \ {0}) /\ wire # <<>>
    BY <1>0 DEF Shape, Receive
  <2>2. v \in Nat \ {0} /\ v <= market
    BY <2>1, WireHead
  <2> QED BY <2>1, <2>2, InTail, RememberIn
<1>2. CASE In(v, seen)
  <2> USE <1>2 DEF Receive
  <2>1. v \in stored \/ v = yielded \/ In(v, intake)
    BY <1>0, <1>2 DEF SeenTaken
  <2>2. Shape' /\ HeadroomKept'
    <3>1. Shape'
      BY <1>0, <1>1 DEF Shape
    <3> QED BY <1>0, <3>1 DEF HeadroomKept, Held, LiveAdmitted
  <2>3. Bounded'
    BY <1>0, WireHead DEF Bounded
  <2>4. StoredCovered' /\ YieldedCovered' /\ IntakeCovered' /\ \A w : Taken(w) => Taken(w)'
    BY <1>0, ExcusedGrows
  <2>5. WireCovered'
    <3>1. Taken(v)
      BY <2>1 DEF Taken, Settled
    <3>2. SUFFICES ASSUME NEW i \in 1 .. Len(Tail(wire)), NEW w \in 1 .. Tail(wire)[i] - 1
                   PROVE  Taken(w)' \/ \E j \in 1 .. i - 1 : Tail(wire)[j] = w
      BY DEF WireCovered
    <3>3. w \in Nat
      OBVIOUS
    <3> QED BY <2>4, <3>1, <3>2, <3>3, WireHead
  <2>6. SeenTaken'
    BY <1>0, <1>1, <2>1 DEF SeenTaken
  <2>7. PresentKnown'
    BY <1>0, <1>1, <2>1 DEF PresentKnown
  <2> QED BY <2>2, <2>3, <2>4, <2>5, <2>6, <2>7 DEF IInv, Line
<1>3. CASE ~In(v, seen) /\ LiveAdmitted /\ Len(intake) < IntakeLimit
  <2> USE <1>3 DEF Receive, Enqueue
  <2>1. /\ intake' = Append(intake, v) /\ live' = live + 1
        /\ seen' = Remember(v) /\ wire' = Tail(wire)
        /\ UNCHANGED <<market, link, reader, yielded, closed, page, noticed, stored, excused>>
    OBVIOUS
  <2>2. /\ intake' \in Seq(Nat \ {0}) /\ Len(intake') = Len(intake) + 1
        /\ \A i \in 1 .. Len(intake) : intake'[i] = intake[i]
        /\ intake'[Len(intake) + 1] = v
        /\ \A w : In(w, intake') <=> w = v \/ In(w, intake)
    <3>1. intake \in Seq(Nat \ {0})
      BY <1>0 DEF Shape
    <3> QED BY <1>1, <2>1, <3>1, InAppend
  <2>3. Shape' /\ HeadroomKept'
    <3>1. Shape'
      BY <1>0, <1>1, <2>1, <2>2 DEF Shape
    <3>2. live \in Nat /\ page \in Nat /\ Len(intake) \in Nat
      BY <1>0, Constants, Queues DEF Shape
    <3>3. HeadroomKept'
      BY <1>0, <2>1, <2>2, <3>2, Constants DEF HeadroomKept, Held, LiveAdmitted
    <3> QED BY <3>1, <3>3
  <2>4. \A w : Taken(w) => Taken(w)'
    BY <2>1, <2>2 DEF Taken, Settled
  <2>5. Bounded'
    <3>1. \A i \in 1 .. Len(intake') : intake'[i] <= market
      <4> TAKE i \in 1 .. Len(intake')
      <4>1. i \in 1 .. Len(intake) \/ i = Len(intake) + 1
        BY <1>0, <2>2, Queues
      <4> QED BY <1>0, <1>1, <2>2, <4>1 DEF Bounded
    <3> QED BY <1>0, <2>1, <3>1, WireHead DEF Bounded
  <2>6. StoredCovered' /\ YieldedCovered'
    BY <1>0, <2>1 DEF Line, StoredCovered, YieldedCovered, Settled
  <2>7. IntakeCovered'
    <3> SUFFICES ASSUME NEW i \in 1 .. Len(intake'), NEW w \in 1 .. intake'[i] - 1
                 PROVE  w \in Settled' \/ w = yielded' \/ \E j \in 1 .. i - 1 : intake'[j] = w
      BY DEF IntakeCovered
    <3>1. CASE i \in 1 .. Len(intake)
      <4>1. w \in Settled \/ w = yielded \/ \E j \in 1 .. i - 1 : intake[j] = w
        BY <1>0, <2>2, <3>1 DEF Line, IntakeCovered
      <4>2. \A j \in 1 .. i - 1 : intake'[j] = intake[j]
        BY <1>0, <2>2, <3>1, Queues
      <4> QED BY <2>1, <4>1, <4>2 DEF Settled
    <3>2. CASE i = Len(intake) + 1
      <4>1. Taken(w)
        BY <2>2, <3>2, WireHead
      <4>2. In(w, intake) => \E j \in 1 .. i - 1 : intake'[j] = w
        <5>1. ASSUME In(w, intake) PROVE \E j \in 1 .. Len(intake) : intake[j] = w
          BY <1>0, <5>1 DEF In, Shape
        <5> QED BY <1>0, <2>2, <3>2, <5>1, Queues
      <4> QED BY <2>1, <4>1, <4>2 DEF Taken, Settled
    <3> QED BY <1>0, <2>2, <3>1, <3>2, Queues
  <2>8. WireCovered'
    <3>1. SUFFICES ASSUME NEW i \in 1 .. Len(Tail(wire)), NEW w \in 1 .. Tail(wire)[i] - 1
                   PROVE  Taken(w)' \/ \E j \in 1 .. i - 1 : Tail(wire)[j] = w
      BY <2>1 DEF WireCovered
    <3>2. w \in Nat
      OBVIOUS
    <3>3. Taken(v)'
      BY <2>2 DEF Taken
    <3> QED BY <2>4, <3>1, <3>2, <3>3, WireHead
  <2>9. SeenTaken' /\ PresentKnown'
    BY <1>0, <1>1, <2>1, <2>2 DEF SeenTaken, PresentKnown
  <2> QED BY <2>3, <2>5, <2>6, <2>7, <2>8, <2>9 DEF IInv, Line
<1>4. CASE ~In(v, seen) /\ ~(LiveAdmitted /\ Len(intake) < IntakeLimit)
  <2> USE <1>4 DEF Receive, Enqueue, ReaderFails
  <2>1. Bounded' /\ Line' /\ SeenTaken' /\ PresentKnown'
    BY WireCut
  <2>2. Shape' /\ HeadroomKept'
    <3>1. Shape'
      BY <1>0, NoQueue DEF Shape
    <3> QED BY <1>0, <3>1 DEF HeadroomKept, Held, LiveAdmitted
  <2> QED BY <2>1, <2>2 DEF IInv
<1> QED BY <1>2, <1>3, <1>4

LEMMA YieldStep ==
    ASSUME IInv, Yield
    PROVE  IInv'
<1>0. Shape /\ HeadroomKept /\ Bounded /\ Line /\ SeenTaken /\ PresentKnown /\ yielded = 0
  BY DEF IInv, Yield, Held
<1> PICK v : v = Head(intake)
  OBVIOUS
<1>1. /\ yielded' = v /\ intake' = Tail(intake)
      /\ UNCHANGED <<market, wire, link, reader, seen, closed, live, page, noticed, stored, excused>>
  BY DEF Yield
<1>2. /\ v \in Nat \ {0} /\ v = intake[1] /\ Len(intake) \in Nat /\ Len(intake) > 0
      /\ intake' \in Seq(Nat \ {0}) /\ Len(intake') = Len(intake) - 1
      /\ \A i \in 1 .. Len(intake') : intake'[i] = intake[i + 1]
      /\ \A w : In(w, intake) <=> w = v \/ In(w, intake')
  <2>1. intake \in Seq(Nat \ {0}) /\ intake # <<>> /\ Len(intake) \in Nat
    BY <1>0, Queues DEF Shape, Yield
  <2> QED BY <1>1, <2>1, InTail
<1>3. Shape'
  BY <1>0, <1>1, <1>2 DEF Shape
<1>4. HeadroomKept'
  BY <1>0, <1>1, <1>2 DEF HeadroomKept, Held, LiveAdmitted
<1>5. Bounded'
  BY <1>0, <1>1, <1>2 DEF Bounded
<1>6. StoredCovered'
  BY <1>0, <1>1 DEF Line, StoredCovered, Settled
<1>7. YieldedCovered'
  BY <1>0, <1>1, <1>2 DEF Line, IntakeCovered, YieldedCovered, Settled
<1>8. IntakeCovered'
  <2> SUFFICES ASSUME NEW i \in 1 .. Len(intake'), NEW w \in 1 .. intake'[i] - 1
               PROVE  w \in Settled' \/ w = yielded' \/ \E j \in 1 .. i - 1 : intake'[j] = w
    BY DEF IntakeCovered
  <2>1. i + 1 \in 1 .. Len(intake) /\ intake'[i] = intake[i + 1] /\ w # 0
    BY <1>2
  <2>2. w \in Settled \/ \E j \in 1 .. (i + 1) - 1 : intake[j] = w
    BY <1>0, <2>1 DEF Line, IntakeCovered
  <2>3. ASSUME NEW j \in 1 .. (i + 1) - 1, intake[j] = w
        PROVE  w = v \/ \E k \in 1 .. i - 1 : intake'[k] = w
    <3>1. CASE j = 1
      BY <1>2, <2>3, <3>1
    <3>2. CASE j # 1
      <4> PICK k : k = j - 1
        OBVIOUS
      <4>1. k \in 1 .. i - 1 /\ k \in 1 .. Len(intake') /\ j = k + 1
        BY <1>2, <2>1, <2>3, <3>2
      <4>2. intake'[k] = w
        BY <1>2, <2>3, <4>1
      <4> QED BY <4>1, <4>2
    <3> QED BY <3>1, <3>2
  <2> QED BY <1>1, <2>2, <2>3 DEF Settled
<1>9. \A w \in Nat \ {0} : Taken(w) => Taken(w)'
  BY <1>0, <1>1, <1>2 DEF Taken, Settled
<1>10. WireCovered'
  <2> SUFFICES ASSUME NEW i \in 1 .. Len(wire), NEW w \in 1 .. wire[i] - 1
               PROVE  Taken(w)' \/ \E j \in 1 .. i - 1 : wire[j] = w
    BY <1>1 DEF WireCovered
  <2>1. Taken(w) \/ \E j \in 1 .. i - 1 : wire[j] = w
    BY <1>0 DEF Line, WireCovered
  <2>2. w \in Nat \ {0}
    BY <1>0, Queues
  <2> QED BY <1>9, <2>1, <2>2
<1>11. SeenTaken' /\ PresentKnown'
  <2>1. \A w : w \in stored \/ w = yielded \/ In(w, intake) =>
               w \in stored' \/ w = yielded' \/ In(w, intake') \/ w = 0
    BY <1>0, <1>1, <1>2
  <2>2. link = "up" => market # 0
    <3>1. ASSUME link = "up", market = 0 PROVE FALSE
      BY <1>0, <1>2, <3>1 DEF Bounded
    <3> QED BY <3>1
  <2>3. \A w : In(w, seen) => w # 0
    BY <1>0 DEF Shape, In
  <2> QED BY <1>0, <1>1, <2>1, <2>2, <2>3 DEF SeenTaken, PresentKnown
<1> QED BY <1>3, <1>4, <1>5, <1>6, <1>7, <1>8, <1>10, <1>11 DEF IInv, Line

LEMMA IngestStep ==
    ASSUME IInv, Ingested
    PROVE  IInv'
<1>0. Shape /\ HeadroomKept /\ Bounded /\ Line /\ SeenTaken /\ PresentKnown
  BY DEF IInv
<1>1. /\ yielded # 0 /\ yielded' = 0 /\ stored' = stored \cup {yielded} /\ live' = live - 1
      /\ UNCHANGED <<market, wire, link, reader, intake, seen, closed, page, noticed, excused>>
  BY DEF Ingested, Held
<1>2. Len(intake) \in Nat /\ yielded \in Nat /\ live \in Nat
  BY <1>0, Queues DEF Shape
<1>3. Shape'
  BY <1>0, <1>1, <1>2 DEF Shape, HeadroomKept, Held, Bounded
<1>4. HeadroomKept'
  <2>1. page \in Nat
    BY <1>0, Constants DEF Shape
  <2> QED BY <1>0, <1>1, <1>2, <2>1, Constants DEF HeadroomKept, Held, LiveAdmitted
<1>5. Bounded'
  BY <1>0, <1>1, <1>2 DEF Bounded, Shape
<1>6. StoredCovered' /\ YieldedCovered'
  <2>1. \A w \in 1 .. yielded : w \in Settled'
    BY <1>0, <1>1, <1>2 DEF Line, YieldedCovered, Settled
  <2>2. StoredCovered'
    BY <1>0, <1>1, <2>1 DEF Line, StoredCovered, Settled
  <2> QED BY <1>1, <2>2 DEF YieldedCovered
<1>7. \A w : Taken(w) => Taken(w)'
  BY <1>1 DEF Taken, Settled
<1>8. IntakeCovered' /\ WireCovered'
  BY <1>0, <1>1, <1>7 DEF Line, IntakeCovered, WireCovered, Settled
<1>9. SeenTaken' /\ PresentKnown'
  BY <1>0, <1>1 DEF SeenTaken, PresentKnown
<1> QED BY <1>3, <1>4, <1>5, <1>6, <1>8, <1>9 DEF IInv, Line

LEMMA LeaveStep ==
    ASSUME IInv, Refused \/ FinishStream
    PROVE  IInv'
<1>0. Shape /\ HeadroomKept /\ Bounded /\ Line /\ SeenTaken /\ PresentKnown
  BY DEF IInv
<1>1. /\ reader' = "none" /\ link' = "down" /\ wire' = <<>> /\ intake' = <<>>
      /\ seen' = <<>> /\ yielded' = 0
      /\ excused \subseteq excused' /\ UNCHANGED <<market, page, stored, closed>>
      /\ closed \/ noticed'
  BY DEF Refused, FinishStream, LeaveStream, ReportLoss
<1>2. live' = 0
  BY <1>0, Queues DEF HeadroomKept, Refused, FinishStream, LeaveStream, Held, Shape
<1>3. Bounded' /\ Line' /\ SeenTaken' /\ PresentKnown'
  BY <1>1, LineEmptied
<1>4. Shape'
  BY <1>0, <1>1, <1>2, NoQueue DEF Shape
<1>5. HeadroomKept'
  <2>1. page \in Nat /\ live \in Nat
    BY <1>0, Constants DEF Shape
  <2>2. Len(intake') = 0
    BY <1>1
  <2> QED BY <1>0, <1>1, <1>2, <2>1, <2>2, Constants DEF HeadroomKept, Held, LiveAdmitted
<1> QED BY <1>3, <1>4, <1>5 DEF IInv

LEMMA FlagStep ==
    ASSUME IInv, ReconnectAfterLoss \/ Close
    PROVE  IInv'
<1>0. Shape /\ HeadroomKept /\ Bounded /\ Line /\ SeenTaken /\ PresentKnown
  BY DEF IInv
<1>1. /\ UNCHANGED <<market, wire, link, intake, seen, yielded, live, page, stored>>
      /\ excused \subseteq excused'
  BY DEF ReconnectAfterLoss, ReportLoss, Close
<1>2. Shape'
  BY <1>0, <1>1 DEF Shape, ReconnectAfterLoss, ReportLoss, Close
<1>3. HeadroomKept'
  BY <1>0, <1>1 DEF HeadroomKept, Held, LiveAdmitted
<1>4. Bounded' /\ SeenTaken' /\ PresentKnown'
  BY <1>0, <1>1 DEF Bounded, SeenTaken, PresentKnown
<1>5. StoredCovered' /\ YieldedCovered' /\ IntakeCovered' /\ \A w : Taken(w) => Taken(w)'
  BY <1>0, <1>1, ExcusedGrows
<1>6. WireCovered'
  BY <1>0, <1>1, <1>5 DEF Line, WireCovered
<1> QED BY <1>2, <1>3, <1>4, <1>5, <1>6 DEF IInv, Line

LEMMA NextStep ==
    ASSUME IInv, [LiveSourceNext]_liveVars
    PROVE  IInv'
<1>1. CASE UNCHANGED liveVars
  <2>1. UNCHANGED Moving /\ UNCHANGED <<live, page, closed, reader, noticed>>
    BY <1>1 DEF liveVars, Moving
  <2>2. Bounded' /\ Line' /\ SeenTaken' /\ PresentKnown'
    BY <2>1, LineKept DEF IInv
  <2>3. Shape' /\ HeadroomKept'
    BY <2>1 DEF Moving, IInv, Shape, HeadroomKept, Held, LiveAdmitted
  <2> QED BY <2>2, <2>3 DEF IInv
<1>2. CASE LiveSourceNext
  BY <1>2, BudgetStep, UpdateStep, ConnectStep, CutStep, ReceiveStep, YieldStep, IngestStep,
     LeaveStep, FlagStep DEF LiveSourceNext
<1> QED BY <1>1, <1>2

LEMMA InitHolds == LiveSourceInit => IInv
<1> SUFFICES ASSUME LiveSourceInit PROVE IInv
  OBVIOUS
<1>1. Shape
  BY NoQueue DEF LiveSourceInit, Shape
<1>2. HeadroomKept
  BY Constants DEF LiveSourceInit, HeadroomKept, Held, LiveAdmitted
<1>3. Bounded /\ Line /\ SeenTaken /\ PresentKnown
  BY DEF LiveSourceInit, Bounded, Line, StoredCovered, YieldedCovered, IntakeCovered,
         WireCovered, SeenTaken, PresentKnown, In
<1> QED BY <1>1, <1>2, <1>3 DEF IInv

-----------------------------------------------------------------------------
(* The theorems.                                                           *)

(* The invariant holds.                                                    *)
THEOREM Invariance == LiveSourceSpec => []IInv
<1>1. LiveSourceInit => IInv
  BY InitHolds
<1>2. IInv /\ [LiveSourceNext]_liveVars => IInv'
  BY NextStep
<1> QED BY <1>1, <1>2, PTL DEF LiveSourceSpec

(* Whatever the sizes of the budget and the queue, the budget counts what    *)
(* intake holds, and repair leaves room for live records (budget.py).        *)
THEOREM HeadroomIsKept == LiveSourceSpec => []HeadroomKept
<1>1. IInv => HeadroomKept
  BY DEF IInv
<1> QED BY <1>1, Invariance, PTL

(* However long the stream and however it breaks, overflows, is replayed or  *)
(* refused: what is stored has no hole that no reported loss covers, and a   *)
(* quiet connection has the present state stored (_pump, _enqueue, stream).  *)
THEOREM NothingIsLostSilently == LiveSourceSpec => []NothingLostSilently
<1>1. ASSUME IInv PROVE NothingLostSilently
  <2>1. \A v \in stored : 1 .. v \subseteq stored \cup excused
    BY <1>1 DEF IInv, Line, StoredCovered, Settled
  <2>2. ASSUME Quiet PROVE market \in stored
    <3>1. market # 0 /\ ~In(market, intake) /\ ~In(market, wire) /\ yielded = 0
      BY <1>1, <2>2 DEF Quiet, Held, In, IInv, Shape
    <3>2. link = "up"
      BY <2>2 DEF Quiet
    <3> QED BY <1>1, <3>1, <3>2 DEF IInv, PresentKnown
  <2> QED BY <2>1, <2>2 DEF NothingLostSilently
<1> QED BY <1>1, Invariance, PTL

-----------------------------------------------------------------------------
(***************************************************************************)
(* Pull.  Every manifest there is was written by a producer, and the trust *)
(* and its backup are each the history of every epoch from its bootstrap   *)
(* to its anchor; what was imported is retained and its objects are        *)
(* installed.                                                              *)
(***************************************************************************)

(* A manifest as the producer writes it. *)
SoundManifest(m) ==
    /\ m.epoch \in EpochIds /\ m.sequence \in Nat \ {0}
    /\ m.before \in Nat /\ m.after = m.before + 1 /\ m.after <= MaxManifests

(* Each field of the trust has a value for every epoch. *)
WellFormed(t) ==
    /\ t.epochs \in Seq(EpochIds)
    /\ \A i, j \in DOMAIN t.epochs : t.epochs[i] = t.epochs[j] => i = j
    /\ t.bootstrap = [e \in EpochIds |-> t.bootstrap[e]]
    /\ t.anchor = [e \in EpochIds |-> t.anchor[e]]
    /\ t.retained = [e \in EpochIds |-> t.retained[e]]
    /\ \A e \in EpochIds : \A m \in t.retained[e] : SoundManifest(m)

History(t) == WellFormed(t) /\ Coherent(t)

Manifests == \A m \in remote \cup committed \cup pending : SoundManifest(m)
Awaited   == \A m \in pending : m.epoch \in Authorized /\ stage # "idle"
Restorable == backup.epochs # <<>> => History(backup)
Imported ==
    \A m \in imports :
        /\ m.epoch \in Authorized /\ m \in retained[m.epoch]
        /\ Objects(m) \subseteq installed

PullInv == Manifests /\ Awaited /\ History(Trust) /\ Restorable /\ Imported

-----------------------------------------------------------------------------
(* Numbers, and the last manifest of a history.                              *)

LessNat == {ss \in Nat \X Nat : ss[1] < ss[2]}

LEMMA LeastNatural ==
  ASSUME NEW T \in SUBSET Nat, T # {}
  PROVE  \E m \in T : \A n \in T : m <= n
<1>1. LessNat = OpToRel(<, Nat)
  BY DEF OpToRel, LessNat
<1>2. IsWellFoundedOn(LessNat, Nat)
  BY <1>1, NatLessThanWellFounded
<1>3. PICK m \in T : \A y \in T : <<y, m>> \notin LessNat
  BY <1>2, WFMin
<1>4. ASSUME NEW n \in T PROVE m <= n
  <2>1. m \in Nat /\ n \in Nat
    OBVIOUS
  <2>2. <<n, m>> \notin LessNat
    BY <1>3
  <2>3. n < m => <<n, m>> \in LessNat
    BY <2>1 DEF LessNat
  <2> QED BY <2>1, <2>2, <2>3
<1> QED BY <1>4

LEMMA LatestOfMany ==
    ASSUME NEW S, S # {}, \A m \in S : SoundManifest(m)
    PROVE  Latest(S) \in S /\ \A n \in S : n.after <= Latest(S).after
<1> DEFINE gaps == {MaxManifests - m.after : m \in S}
<1>1. \A m \in S : m.after \in Nat /\ MaxManifests - m.after \in Nat
  BY PullAssumption DEF SoundManifest
<1>2. gaps \in SUBSET Nat /\ gaps # {}
  BY <1>1
<1>3. PICK g \in gaps : \A h \in gaps : g <= h
  BY <1>2, LeastNatural
<1>4. PICK m \in S : g = MaxManifests - m.after
  BY <1>3
<1>5. \A n \in S : n.after <= m.after
  <2>1. ASSUME NEW n \in S PROVE n.after <= m.after
    <3>1. g <= MaxManifests - n.after
      BY <1>3, <2>1
    <3> QED BY <1>1, <1>4, <3>1, PullAssumption
  <2> QED BY <2>1
<1> QED BY <1>5 DEF Latest

LEMMA LatestIsLast ==
    ASSUME NEW S, NEW m \in S, \A n \in S : n.after \in Nat,
           \A n \in S \ {m} : n.after < m.after
    PROVE  Latest(S) = m
<1>1. \A n \in S : n.after <= m.after
  OBVIOUS
<1>2. ASSUME NEW x \in S, \A n \in S : n.after <= x.after PROVE x = m
  BY <1>2
<1> QED BY <1>1, <1>2 DEF Latest

(* The input up to an epoch depends on the epochs before it only. *)
LEMMA PriorAgrees ==
    ASSUME NEW list, NEW other, NEW kept, NEW held, NEW i \in Nat,
           \A j \in 1 .. i - 1 : list[j] = other[j] /\ kept[list[j]] = held[other[j]]
    PROVE  PriorCheckpoint(list, kept, i) = PriorCheckpoint(other, held, i)
<1> DEFINE known == {x \in 1 .. i - 1 : kept[list[x]] # {}}
           last == CHOOSE x \in known : \A k \in known : k <= x
<1>1. known = {j \in 1 .. i - 1 : held[other[j]] # {}}
  OBVIOUS
<1>2. CASE known = {}
  BY <1>1, <1>2 DEF PriorCheckpoint
<1>3. CASE known # {}
  <2> DEFINE gaps == {i - x : x \in known}
  <2>1. gaps \in SUBSET Nat /\ gaps # {}
    BY <1>3
  <2>2. PICK g \in gaps : \A h \in gaps : g <= h
    BY <2>1, LeastNatural
  <2>3. PICK j \in known : g = i - j
    BY <2>2
  <2>4. \A k \in known : k <= j
    <3>1. ASSUME NEW k \in known PROVE k <= j
      <4>1. g <= i - k
        BY <2>2, <3>1
      <4> QED BY <2>3, <4>1
    <3> QED BY <3>1
  <2>5. last \in known
    BY <2>4
  <2>6. list[last] = other[last] /\ kept[list[last]] = held[other[last]]
    BY <2>5
  <2>7. PriorCheckpoint(list, kept, i) = Latest(kept[list[last]]).after
    BY <1>3 DEF PriorCheckpoint
  <2> DEFINE busy == {x \in 1 .. i - 1 : held[other[x]] # {}}
  <2>8. PriorCheckpoint(other, held, i)
            = Latest(held[other[CHOOSE x \in busy : \A k \in busy : k <= x]]).after
    BY <1>1, <1>3 DEF PriorCheckpoint
  <2>9. last = CHOOSE x \in busy : \A k \in busy : k <= x
    BY <1>1
  <2> QED BY <2>6, <2>7, <2>8, <2>9
<1> QED BY <1>2, <1>3

-----------------------------------------------------------------------------
(* The trust, and what extends it.                                           *)

LEMMA TrustFields ==
    /\ Trust.epochs = epochs /\ Trust.bootstrap = bootstrap
    /\ Trust.anchor = anchor /\ Trust.retained = retained
BY DEF Trust

(* An authorized epoch with nothing kept is at its beginning; the others     *)
(* are at the last manifest that is kept of them.                            *)
LEMMA AtTheEnd ==
    ASSUME History(Trust), NEW i \in DOMAIN epochs
    PROVE  LET e == epochs[i] IN
           /\ e \in EpochIds
           /\ \A m \in retained[e] : m.epoch = e /\ SoundManifest(m)
           /\ bootstrap[e] # Genesis => bootstrap[e] \in retained[e]
           /\ \/ retained[e] = {} /\ anchor[e] = Genesis /\ bootstrap[e] = Genesis
              \/ /\ anchor[e] \in retained[e]
                 /\ \A n \in retained[e] : n.after <= anchor[e].after
           /\ bootstrap[e].sequence <= anchor[e].sequence
           /\ \A m \in retained[e] \ {bootstrap[e]} : m.sequence > bootstrap[e].sequence
           /\ anchor[e].sequence \in Nat /\ bootstrap[e].sequence \in Nat
<1> DEFINE e == epochs[i]
<1>1. e \in EpochIds
  BY DEF History, WellFormed, Trust
<1>2. /\ \A m \in retained[e] : m.epoch = e
      /\ bootstrap[e] # Genesis => bootstrap[e] \in retained[e]
      /\ anchor[e] = IF retained[e] = {} THEN bootstrap[e] ELSE Latest(retained[e])
      /\ \A m \in retained[e] \ {bootstrap[e]} : m.sequence > bootstrap[e].sequence
  BY DEF History, Coherent, Trust
<1>3. \A m \in retained[e] : SoundManifest(m)
  BY <1>1 DEF History, WellFormed, Trust
<1>4. CASE retained[e] = {}
  BY <1>1, <1>2, <1>4 DEF Genesis
<1>5. CASE retained[e] # {}
  <2>1. anchor[e] \in retained[e] /\ \A n \in retained[e] : n.after <= anchor[e].after
    BY <1>2, <1>3, <1>5, LatestOfMany
  <2>2. anchor[e].sequence \in Nat
    BY <1>3, <2>1 DEF SoundManifest
  <2>3. bootstrap[e].sequence \in Nat
    BY <1>2, <1>3 DEF Genesis, SoundManifest
  <2>4. bootstrap[e].sequence <= anchor[e].sequence
    BY <1>2, <2>1, <2>2, <2>3
  <2> QED BY <1>1, <1>2, <1>3, <2>1, <2>2, <2>3, <2>4
<1> QED BY <1>4, <1>5

(* An epoch that is authorized begins at its checkpoint. *)
LEMMA EpochAdded ==
    ASSUME History(Trust), \A m \in remote : SoundManifest(m),
           NEW e \in EpochIds, e \notin Authorized, NEW c \in Checkpoints(e), AddEpoch(e, c)
    PROVE  /\ History(Trust)' /\ Authorized \subseteq Authorized'
           /\ \A f \in Authorized : bootstrap'[f] = bootstrap[f] /\ anchor'[f] = anchor[f]
                                    /\ retained'[f] = retained[f]
<1> DEFINE n == Len(epochs) + 1
<1>1. /\ epochs \in Seq(EpochIds)
      /\ \A i, j \in DOMAIN epochs : epochs[i] = epochs[j] => i = j
      /\ bootstrap = [f \in EpochIds |-> bootstrap[f]]
      /\ anchor = [f \in EpochIds |-> anchor[f]]
      /\ retained = [f \in EpochIds |-> retained[f]]
      /\ \A f \in EpochIds : \A m \in retained[f] : SoundManifest(m)
  BY DEF History, WellFormed, Trust
<1>2. /\ epochs' \in Seq(EpochIds) /\ DOMAIN epochs = 1 .. n - 1 /\ DOMAIN epochs' = 1 .. n
      /\ n \in Nat \ {0} /\ epochs'[n] = e /\ \A i \in 1 .. n - 1 : epochs'[i] = epochs[i]
  BY <1>1 DEF AddEpoch
<1>3. \A i \in 1 .. n - 1 : epochs[i] \in EpochIds /\ epochs[i] # e
  BY <1>1, <1>2 DEF Authorized
<1>4. c = Genesis \/ (SoundManifest(c) /\ c.epoch = e)
  BY DEF Checkpoints
<1>5. /\ bootstrap' = [bootstrap EXCEPT ![e] = c] /\ anchor' = [anchor EXCEPT ![e] = c]
      /\ retained' = [retained EXCEPT ![e] = {c} \ {Genesis}]
  BY DEF AddEpoch
<1>6. /\ bootstrap' = [f \in EpochIds |-> bootstrap'[f]]
      /\ anchor' = [f \in EpochIds |-> anchor'[f]]
      /\ retained' = [f \in EpochIds |-> retained'[f]]
  BY <1>1, <1>5
<1>7. bootstrap'[e] = c /\ anchor'[e] = c /\ retained'[e] = {c} \ {Genesis}
  BY <1>1, <1>5
<1>8. \A f \in EpochIds \ {e} :
          bootstrap'[f] = bootstrap[f] /\ anchor'[f] = anchor[f] /\ retained'[f] = retained[f]
  BY <1>1, <1>5
<1>9. WellFormed(Trust)'
  <2>1. \A i, j \in DOMAIN epochs' : epochs'[i] = epochs'[j] => i = j
    BY <1>1, <1>2, <1>3
  <2>2. \A f \in EpochIds : \A m \in retained'[f] : SoundManifest(m)
    BY <1>1, <1>4, <1>7, <1>8
  <2> QED BY <1>2, <1>6, <2>1, <2>2 DEF WellFormed, Trust
<1>10. Coherent(Trust)'
  <2>1. SUFFICES ASSUME NEW i \in 1 .. n
                 PROVE  LET f == epochs'[i]
                            kept == retained'[f]
                            from == bootstrap'[f]
                        IN  /\ \A m \in kept : m.epoch = f
                            /\ from # Genesis => from \in kept
                            /\ anchor'[f] = IF kept = {} THEN from ELSE Latest(kept)
                            /\ \A m \in kept \ {from} :
                                 m.sequence > from.sequence /\
                                 Step(m, kept, from, PriorCheckpoint(epochs', retained', i))
    BY <1>2 DEF Coherent, Trust
  <2>2. CASE i = n
    <3>1. epochs'[i] = e
      BY <1>2, <2>2
    <3>2. CASE c = Genesis
      BY <1>7, <3>1, <3>2
    <3>3. CASE c # Genesis
      <4>1. retained'[e] = {c} /\ c.after \in Nat
        BY <1>4, <1>7, <3>3 DEF SoundManifest
      <4>2. Latest({c}) = c
        BY <4>1, LatestIsLast
      <4> QED BY <1>4, <1>7, <3>1, <3>3, <4>1, <4>2
    <3> QED BY <3>2, <3>3
  <2>3. CASE i # n
    <3>1. i \in 1 .. n - 1 /\ i \in Nat
      BY <1>2, <2>3
    <3>2. epochs'[i] = epochs[i] /\ epochs[i] \in EpochIds \ {e}
      BY <1>2, <1>3, <3>1
    <3>3. \A j \in 1 .. i - 1 :
              epochs'[j] = epochs[j] /\ retained'[epochs'[j]] = retained[epochs[j]]
      BY <1>2, <1>3, <1>8, <3>1
    <3>4. PriorCheckpoint(epochs', retained', i) = PriorCheckpoint(epochs, retained, i)
      BY <3>1, <3>3, PriorAgrees
    <3>5. i \in DOMAIN epochs
      BY <1>2, <3>1
    <3> QED BY <1>8, <3>2, <3>4, <3>5 DEF History, Coherent, Trust
  <2> QED BY <2>2, <2>3
<1>11. Authorized \subseteq Authorized'
  BY <1>2 DEF Authorized
<1>12. Authorized \subseteq EpochIds \ {e}
  BY <1>2, <1>3 DEF Authorized
<1> QED BY <1>8, <1>9, <1>10, <1>11, <1>12 DEF History

(* What registration writes of a manifest that is new. *)
Advance(m) ==
    /\ anchor' = [anchor EXCEPT ![m.epoch] = m]
    /\ retained' = [retained EXCEPT ![m.epoch] = @ \cup {m}]
    /\ UNCHANGED <<epochs, bootstrap>>

(* A manifest that continues the active epoch. *)
LEMMA AnchorAdvanced ==
    ASSUME History(Trust), epochs # <<>>, NEW m, SoundManifest(m), Acceptable(m), ~Repeats(m),
           m.epoch \in Authorized, Advance(m)
    PROVE  /\ History(Trust)' /\ m \in retained'[m.epoch]
           /\ \A f \in Authorized : anchor[f].sequence <= anchor'[f].sequence
                                    /\ retained[f] \subseteq retained'[f]
<1> DEFINE n == Len(epochs)
           e == m.epoch
           old == anchor[e]
           kept == retained[e]
           from == bootstrap[e]
<1>1. /\ epochs \in Seq(EpochIds)
      /\ \A i, j \in DOMAIN epochs : epochs[i] = epochs[j] => i = j
      /\ bootstrap = [f \in EpochIds |-> bootstrap[f]]
      /\ anchor = [f \in EpochIds |-> anchor[f]]
      /\ retained = [f \in EpochIds |-> retained[f]]
      /\ \A f \in EpochIds : \A x \in retained[f] : SoundManifest(x)
  BY DEF History, WellFormed, Trust
<1>2. /\ DOMAIN epochs = 1 .. n /\ n \in Nat \ {0} /\ epochs[n] = e /\ e \in EpochIds
      /\ \A i \in 1 .. n : epochs[i] \in EpochIds /\ (i # n => epochs[i] # e)
  <2>1. DOMAIN epochs = 1 .. n /\ n \in Nat \ {0}
    BY <1>1
  <2>2. epochs[n] = e
    BY DEF Acceptable, Active
  <2> QED BY <1>1, <2>1, <2>2
<1> HIDE DEF n
<1>0. epochs' = epochs /\ bootstrap' = bootstrap
  BY DEF Advance
<1>3. Position(e) = n
  <2>1. \A i \in 1 .. n : epochs[i] = e <=> i = n
    BY <1>2
  <2>2. n \in 1 .. n
    BY <1>2
  <2> QED BY <1>2, <2>1, <2>2 DEF Position
<1>4. /\ m.sequence = old.sequence + 1 /\ m.previous = old
      /\ m.before = IF old = Genesis THEN PriorCheckpoint(epochs, retained, n) ELSE old.after
  BY <1>3 DEF Acceptable
<1>5. /\ anchor' = [f \in EpochIds |-> anchor'[f]] /\ retained' = [f \in EpochIds |-> retained'[f]]
      /\ anchor'[e] = m /\ retained'[e] = kept \cup {m}
      /\ \A f \in EpochIds \ {e} : anchor'[f] = anchor[f] /\ retained'[f] = retained[f]
  BY <1>1, <1>2 DEF Advance
<1>6. /\ \A x \in kept : x.epoch = e /\ SoundManifest(x)
      /\ from # Genesis => from \in kept
      /\ \/ kept = {} /\ old = Genesis /\ from = Genesis
         \/ old \in kept /\ \A x \in kept : x.after <= old.after
      /\ from.sequence <= old.sequence
      /\ \A x \in kept \ {from} : x.sequence > from.sequence
      /\ old.sequence \in Nat /\ from.sequence \in Nat
  <2>1. n \in DOMAIN epochs
    BY <1>2
  <2>2. epochs[n] = e
    BY <1>2
  <2> QED BY <2>1, <2>2, AtTheEnd
<1>8. WellFormed(Trust)'
  <2>1. \A f \in EpochIds : \A x \in retained'[f] : SoundManifest(x)
    BY <1>1, <1>2, <1>5
  <2> QED BY <1>0, <1>1, <1>5, <2>1 DEF WellFormed, Trust
<1>9. \A i \in 1 .. n : PriorCheckpoint(epochs', retained', i) = PriorCheckpoint(epochs, retained, i)
  <2>1. ASSUME NEW i \in 1 .. n
        PROVE  PriorCheckpoint(epochs', retained', i) = PriorCheckpoint(epochs, retained, i)
    <3>1. n \in Nat
      BY <1>2
    <3>2. i \in Nat /\ \A j \in 1 .. i - 1 : j \in 1 .. n /\ j # n
      BY <3>1
    <3>3. \A j \in 1 .. i - 1 :
              epochs'[j] = epochs[j] /\ retained'[epochs'[j]] = retained[epochs[j]]
      BY <1>0, <1>2, <1>5, <3>2
    <3>4. i \in Nat
      BY <3>2
    <3> QED BY <3>3, <3>4, PriorAgrees
  <2> QED BY <2>1
<1>10. m.after \in Nat /\ \A x \in kept : x.after < m.after /\ x.after \in Nat
  <2>1. m.after \in Nat /\ m.before \in Nat /\ m.before < m.after
    BY DEF SoundManifest
  <2>2. CASE kept = {}
    BY <2>1, <2>2
  <2>3. CASE kept # {}
    <3>1. old # Genesis
      BY <1>6, <2>3 DEF Genesis, SoundManifest, EpochIds
    <3>2. \A x \in kept : x.after \in Nat
      BY <1>6 DEF SoundManifest
    <3>3. old.after \in Nat
      BY <1>6, <2>3, <3>2
    <3> QED BY <1>4, <1>6, <2>1, <2>3, <3>1, <3>2, <3>3
  <2> QED BY <2>2, <2>3
<1>11. Latest(kept \cup {m}) = m
  BY <1>10, LatestIsLast
<1>12. Step(m, kept \cup {m}, from, PriorCheckpoint(epochs, retained, n))
  <2>1. CASE m.sequence = from.sequence + 1
    <3>1. old = from
      <4>1. old.sequence = from.sequence
        BY <1>4, <1>6, <2>1
      <4>2. CASE old \in kept
        BY <1>6, <4>1, <4>2
      <4> QED BY <1>6, <4>2
    <3> QED BY <1>4, <2>1, <3>1 DEF Step
  <2>2. CASE m.sequence # from.sequence + 1
    <3>1. old # from
      BY <1>4, <2>2
    <3>2. old \in kept /\ old # Genesis
      BY <1>6, <3>1 DEF Genesis, SoundManifest, EpochIds
    <3> QED BY <1>4, <2>2, <3>2 DEF Step
  <2> QED BY <2>1, <2>2
<1>13. Coherent(Trust)'
  <2>1. SUFFICES ASSUME NEW i \in 1 .. n
                 PROVE  LET f == epochs'[i]
                            all == retained'[f]
                            first == bootstrap'[f]
                        IN  /\ \A x \in all : x.epoch = f
                            /\ first # Genesis => first \in all
                            /\ anchor'[f] = IF all = {} THEN first ELSE Latest(all)
                            /\ \A x \in all \ {first} :
                                 x.sequence > first.sequence /\
                                 Step(x, all, first, PriorCheckpoint(epochs', retained', i))
    <3>1. DOMAIN epochs' = 1 .. n
      BY <1>0, <1>2
    <3> QED BY <3>1 DEF Coherent, Trust
  <2>2. CASE i # n
    <3>1. epochs[i] \in EpochIds \ {e} /\ i \in DOMAIN epochs
      BY <1>2, <2>2
    <3>2. PriorCheckpoint(epochs', retained', i) = PriorCheckpoint(epochs, retained, i)
      BY <1>9
    <3> QED BY <1>0, <1>5, <3>1, <3>2 DEF History, Coherent, Trust
  <2>3. CASE i = n
    <3>1. epochs[i] = e /\ m.epoch = e
      BY <1>2, <2>3
    <3>2. ASSUME NEW x \in kept \ {from}
          PROVE  x.sequence > from.sequence /\
                 Step(x, kept \cup {m}, from, PriorCheckpoint(epochs, retained, i))
      <4>1. x.sequence > from.sequence /\ Step(x, kept, from, PriorCheckpoint(epochs, retained, i))
        BY <1>2, <2>3, <3>2 DEF History, Coherent, Trust
      <4> QED BY <4>1 DEF Step
    <3>3. m.sequence > from.sequence
      BY <1>4, <1>6
    <3>4. /\ \A x \in kept \cup {m} : x.epoch = e
          /\ from # Genesis => from \in kept \cup {m}
          /\ m = IF kept \cup {m} = {} THEN from ELSE Latest(kept \cup {m})
      BY <1>6, <1>11
    <3>5. \A x \in (kept \cup {m}) \ {from} :
             x.sequence > from.sequence /\
             Step(x, kept \cup {m}, from, PriorCheckpoint(epochs, retained, i))
      BY <1>12, <2>3, <3>2, <3>3
    <3>6. PriorCheckpoint(epochs', retained', i) = PriorCheckpoint(epochs, retained, i)
      BY <1>9
    <3> QED BY <1>0, <1>5, <3>1, <3>4, <3>5, <3>6
  <2> QED BY <2>2, <2>3
<1>14. \A f \in Authorized : anchor[f].sequence <= anchor'[f].sequence /\ retained[f] \subseteq retained'[f]
  <2>1. ASSUME NEW f \in Authorized
        PROVE  anchor[f].sequence <= anchor'[f].sequence /\ retained[f] \subseteq retained'[f]
    <3>1. PICK i \in DOMAIN epochs : f = epochs[i]
      BY DEF Authorized
    <3>2. f \in EpochIds /\ anchor[f].sequence \in Nat
      BY <3>1, AtTheEnd
    <3> QED BY <1>4, <1>5, <1>6, <3>2
  <2> QED BY <2>1
<1> QED BY <1>5, <1>8, <1>13, <1>14 DEF History

-----------------------------------------------------------------------------
(* The steps.                                                                *)

LEMMA PullInitHolds == PullInit => PullInv
<1> SUFFICES ASSUME PullInit PROVE PullInv
  OBVIOUS
<1>1. Manifests /\ Awaited /\ Restorable /\ Imported
  BY DEF PullInit, Manifests, Awaited, Restorable, Imported
<1>2. epochs = <<>> /\ epochs \in Seq(EpochIds)
  BY DEF PullInit
<1>3. /\ bootstrap = [e \in EpochIds |-> bootstrap[e]] /\ anchor = [e \in EpochIds |-> anchor[e]]
      /\ retained = [e \in EpochIds |-> retained[e]]
      /\ \A e \in EpochIds : retained[e] = {}
  BY DEF PullInit, Untrusting, Unkept
<1>4. WellFormed(Trust)
  BY <1>2, <1>3 DEF WellFormed, Trust
<1>5. Coherent(Trust)
  BY <1>2 DEF Coherent, Trust
<1> QED BY <1>1, <1>4, <1>5 DEF PullInv, History

LEMMA TrustKept ==
    ASSUME UNCHANGED trust
    PROVE  Trust' = Trust /\ Authorized' = Authorized
BY DEF trust, Trust, Authorized

LEMMA EpochOf ==
    ASSUME History(Trust), NEW e \in Authorized
    PROVE  e \in EpochIds /\ Position(e) \in DOMAIN epochs /\ epochs[Position(e)] = e
BY DEF History, WellFormed, Trust, Authorized, Position

(* The entry to be taken next is one that is pending. *)
LEMMA EntryIsPending ==
    ASSUME PullInv, pending # {}
    PROVE  Entry \in pending
<1>1. \A m \in pending : Position(m.epoch) \in Nat /\ m.sequence \in Nat
                         /\ epochs[Position(m.epoch)] = m.epoch
  BY EpochOf DEF PullInv, Awaited, Manifests, SoundManifest, History, WellFormed, Trust
<1> DEFINE places == {Position(m.epoch) : m \in pending}
<1>2. places \in SUBSET Nat /\ places # {}
  BY <1>1
<1>3. PICK p \in places : \A q \in places : p <= q
  BY <1>2, LeastNatural
<1> DEFINE first == {m \in pending : Position(m.epoch) = p}
           ranks == {m.sequence : m \in first}
<1>4. ranks \in SUBSET Nat /\ ranks # {}
  BY <1>1, <1>3
<1>5. PICK r \in ranks : \A q \in ranks : r <= q
  BY <1>4, LeastNatural
<1>6. PICK m \in first : m.sequence = r
  BY <1>5
<1>7. \A n \in pending : Earlier(m, n)
  <2>1. ASSUME NEW n \in pending PROVE Earlier(m, n)
    <3>1. p <= Position(n.epoch) /\ Position(m.epoch) = p /\ Position(n.epoch) \in Nat /\ p \in Nat
      BY <1>1, <1>3, <1>6
    <3>2. CASE Position(n.epoch) = p
      <4>1. n.epoch = m.epoch
        BY <1>1, <1>6, <3>1, <3>2
      <4>2. n \in first
        BY <3>2
      <4>3. m.sequence <= n.sequence
        BY <1>5, <1>6, <4>2
      <4> QED BY <4>1, <4>3 DEF Earlier
    <3>3. CASE Position(n.epoch) # p
      BY <3>1, <3>3 DEF Earlier
    <3> QED BY <3>2, <3>3
  <2> QED BY <2>1
<1>8. m \in pending
  BY <1>6
<1> QED BY <1>7, <1>8 DEF Entry

(* The producer goes on, or its history is cut. *)
LEMMA ProducerStep ==
    ASSUME PullInv,
           \/ \E e \in EpochIds : Publish(e)
           \/ \E m \in remote : TruncateRemote(m) \/ LoseObjects(m)
    PROVE  PullInv' /\ UNCHANGED trust
<1>1. UNCHANGED <<durable, backup, transfer>> /\ (\A m \in remote' : SoundManifest(m))
  <2>1. CASE \E e \in EpochIds : Publish(e)
    <3>1. PICK e \in EpochIds : Publish(e)
      BY <2>1
    <3>2. Tip.after \in Nat
      BY LatestOfMany DEF PullInv, Manifests, Tip, Genesis, SoundManifest
    <3>3. HeadOf(e).sequence \in Nat
      <4> DEFINE own == {m \in remote : m.epoch = e}
      <4>1. CASE own = {}
        BY <4>1 DEF HeadOf, Genesis
      <4>2. CASE own # {}
        <5>1. \A m \in own : SoundManifest(m)
          BY DEF PullInv, Manifests
        <5>2. Latest(own) \in own
          BY <4>2, <5>1, LatestOfMany
        <5> QED BY <4>2, <5>1, <5>2 DEF HeadOf, SoundManifest
      <4> QED BY <4>1, <4>2
    <3> DEFINE new == [epoch |-> e, sequence |-> HeadOf(e).sequence + 1, previous |-> HeadOf(e),
                       before |-> Tip.after, after |-> Tip.after + 1, branch |-> branch]
    <3>4. remote' = remote \cup {new} /\ Tip.after < MaxManifests
      BY <3>1 DEF Publish
    <3>5. SoundManifest(new)
      BY <3>2, <3>3, <3>4, PullAssumption DEF SoundManifest
    <3> QED BY <3>1, <3>4, <3>5 DEF Publish, PullInv, Manifests
  <2>2. CASE \E m \in remote : TruncateRemote(m) \/ LoseObjects(m)
    BY <2>2 DEF TruncateRemote, LoseObjects, PullInv, Manifests
  <2> QED BY <2>1, <2>2
<1>2. UNCHANGED trust
  BY <1>1 DEF durable
<1> QED BY <1>1, <1>2, TrustKept DEF PullInv, Manifests, Awaited, Restorable, Imported,
       durable, transfer, trust, Trust

(* Listing and validation only read the trust. *)
LEMMA DiscoveryStep ==
    ASSUME PullInv,
           \/ StartPull \/ FinishPull \/ Interrupt \/ StagingFull
           \/ \E e \in EpochIds : ListEpoch(e)
           \/ \E degraded \in BOOLEAN : Validate(degraded)
    PROVE  PullInv' /\ UNCHANGED trust
<1>1. UNCHANGED <<remote, trust, imports, installed, backup>>
  BY DEF StartPull, FinishPull, Interrupt, StagingFull, ListEpoch, Validate, producer, durable
<1>2. Authorized' = Authorized
  BY <1>1, TrustKept
<1>3. /\ \A m \in committed' \cup pending' : SoundManifest(m)
      /\ \A m \in pending' : m.epoch \in Authorized /\ stage' # "idle"
  <2>1. CASE StartPull \/ FinishPull \/ Interrupt \/ StagingFull
    BY <2>1 DEF StartPull, FinishPull, Interrupt, StagingFull, EndPull
  <2>2. ASSUME NEW e \in EpochIds, ListEpoch(e)
        PROVE  /\ \A m \in committed' \cup pending' : SoundManifest(m)
               /\ \A m \in pending' : m.epoch \in Authorized /\ stage' # "idle"
    BY <2>2 DEF ListEpoch, EndPull, PullInv, Manifests, Awaited
  <2>3. ASSUME NEW degraded \in BOOLEAN, Validate(degraded)
        PROVE  /\ \A m \in committed' \cup pending' : SoundManifest(m)
               /\ \A m \in pending' : m.epoch \in Authorized /\ stage' # "idle"
    <3>1. \A m \in Candidates : m \in committed /\ m.epoch \in Authorized
      BY DEF Candidates, Selected
    <3> QED BY <2>3, <3>1 DEF Validate, EndPull, PullInv, Manifests, Awaited
  <2> QED BY <2>1, <2>2, <2>3
<1>4. Manifests' /\ Awaited'
  BY <1>1, <1>2, <1>3 DEF PullInv, Manifests, Awaited
<1> QED BY <1>1, <1>2, <1>4, TrustKept DEF PullInv, Restorable, Imported, trust, Trust

(* Staging and installation only add objects. *)
LEMMA StagingStep ==
    ASSUME PullInv,
           \/ Wanted /\ \E o \in Objects(Entry) : Cache(o) \/ BeginDownload(o) \/ FinishDownload(o)
           \/ Install \/ Discard
    PROVE  PullInv' /\ UNCHANGED trust
<1>1. /\ UNCHANGED <<remote, trust, imports, backup>>
      /\ installed \subseteq installed'
  BY DEF Cache, BeginDownload, FinishDownload, Install, Discard, producer
<1>2. Authorized' = Authorized
  BY <1>1, TrustKept
<1>3. Manifests' /\ Awaited'
  BY <1>1, <1>2 DEF PullInv, Manifests, Awaited, Cache, BeginDownload, FinishDownload, Install,
        Discard, EndPull, transfer
<1> QED BY <1>1, <1>2, <1>3, TrustKept DEF PullInv, Restorable, Imported, trust, Trust

(* What the trust of a step to the next may do: what AnchorsOnlyAdvance says. *)
Advances ==
    \A e \in Authorized :
        /\ bootstrap'[e] = bootstrap[e]
        /\ anchor[e].sequence <= anchor'[e].sequence
        /\ retained[e] \subseteq retained'[e]

LEMMA SameTrustAdvances == ASSUME PullInv, UNCHANGED trust PROVE Advances
<1>1. \A e \in Authorized : anchor[e].sequence \in Nat
  <2>1. ASSUME NEW e \in Authorized PROVE anchor[e].sequence \in Nat
    <3>1. PICK i \in DOMAIN epochs : e = epochs[i]
      BY DEF Authorized
    <3> QED BY <3>1, AtTheEnd DEF PullInv
  <2> QED BY <2>1
<1> QED BY <1>1 DEF Advances, trust

LEMMA AuthorizationStep ==
    ASSUME PullInv, NEW e \in EpochIds, NEW c \in Checkpoints(e), Enroll(e, c) \/ AuthorizeEpoch(e, c)
    PROVE  PullInv' /\ Advances
<1>1. AddEpoch(e, c) /\ e \notin Authorized
  BY DEF Enroll, AuthorizeEpoch, Authorized
<1>2. History(Trust) /\ \A m \in remote : SoundManifest(m)
  BY DEF PullInv, Manifests
<1>3. /\ History(Trust)' /\ Authorized \subseteq Authorized'
      /\ \A f \in Authorized : bootstrap'[f] = bootstrap[f] /\ anchor'[f] = anchor[f]
                               /\ retained'[f] = retained[f]
  BY <1>1, <1>2, EpochAdded
<1>4. UNCHANGED <<remote, committed, pending, stage, imports, installed, backup>>
  BY <1>1 DEF AddEpoch, producer, transfer
<1>5. Manifests' /\ Awaited' /\ Restorable' /\ Imported'
  BY <1>3, <1>4 DEF PullInv, Manifests, Awaited, Restorable, Imported
<1>6. \A f \in Authorized : anchor[f].sequence \in Nat
  <2>1. ASSUME NEW f \in Authorized PROVE anchor[f].sequence \in Nat
    <3>1. PICK i \in DOMAIN epochs : f = epochs[i]
      BY DEF Authorized
    <3> QED BY <1>2, <3>1, AtTheEnd
  <2> QED BY <2>1
<1> QED BY <1>3, <1>5, <1>6 DEF PullInv, Advances

LEMMA BackupStep == ASSUME PullInv, Backup PROVE PullInv' /\ UNCHANGED trust
<1>1. UNCHANGED <<remote, trust, imports, installed, transfer>> /\ backup' = Trust
  BY DEF Backup, producer, durable
<1>2. Trust' = Trust /\ Authorized' = Authorized
  BY <1>1, TrustKept
<1>3. History(Trust)' /\ Restorable'
  BY <1>1, <1>2 DEF PullInv, Restorable
<1> QED BY <1>1, <1>2, <1>3 DEF PullInv, Manifests, Awaited, Imported, transfer, trust

(* A backup that is taken back extends what is kept. *)
LEMMA RestoreStep == ASSUME PullInv, Restore PROVE PullInv' /\ Advances
<1>1. /\ epochs' = backup.epochs /\ bootstrap' = backup.bootstrap
      /\ anchor' = backup.anchor /\ retained' = backup.retained
      /\ UNCHANGED <<remote, imports, installed, backup, committed, pending, stage>>
  BY DEF Restore, producer, transfer
<1>2. History(backup)
  BY DEF Restore, PullInv, Restorable
<1>3. History(Trust)'
  BY <1>1, <1>2 DEF History, WellFormed, Coherent, Trust
<1>4. epochs \in Seq(EpochIds) /\ epochs' \in Seq(EpochIds)
  BY <1>1, <1>2 DEF PullInv, History, WellFormed, Trust
<1>5. Len(epochs) <= Len(epochs') /\ epochs = SubSeq(epochs', 1, Len(epochs))
  BY <1>1 DEF Restore
<1>6. Authorized \subseteq Authorized'
  <2>1. \A i \in 1 .. Len(epochs) : i \in DOMAIN epochs' /\ epochs[i] = epochs'[i]
    BY <1>4, <1>5
  <2> QED BY <1>4, <2>1 DEF Authorized
<1>7. \A e \in Authorized : Extends(backup, e)
  BY DEF Restore
<1>8. Advances
  BY <1>1, <1>7 DEF Advances, Extends
<1>9. Imported'
  BY <1>1, <1>6, <1>8 DEF PullInv, Imported, Advances
<1> QED BY <1>1, <1>3, <1>6, <1>8, <1>9 DEF PullInv, Manifests, Awaited, Restorable

LEMMA LossStep == ASSUME PullInv, LoseInstallation PROVE PullInv' /\ epochs' = <<>>
<1>1. /\ epochs' = <<>> /\ bootstrap' = Untrusting /\ anchor' = Untrusting /\ retained' = Unkept
      /\ imports' = {} /\ UNCHANGED <<remote, committed, pending, stage, backup>> /\ stage = "idle"
  BY DEF LoseInstallation, producer, transfer
<1>2. /\ bootstrap' = [e \in EpochIds |-> bootstrap'[e]] /\ anchor' = [e \in EpochIds |-> anchor'[e]]
      /\ retained' = [e \in EpochIds |-> retained'[e]]
      /\ \A e \in EpochIds : retained'[e] = {}
  BY <1>1 DEF Untrusting, Unkept
<1>3. WellFormed(Trust)'
  BY <1>1, <1>2 DEF WellFormed, Trust
<1>4. Coherent(Trust)'
  BY <1>1 DEF Coherent, Trust
<1>5. Manifests' /\ Awaited' /\ Restorable' /\ Imported'
  BY <1>1 DEF PullInv, Manifests, Awaited, Restorable, Imported
<1> QED BY <1>1, <1>3, <1>4, <1>5 DEF PullInv, History

LEMMA RegisterStep == ASSUME PullInv, Register PROVE PullInv' /\ Advances
<1>1. Entry \in pending /\ Entry.epoch \in Authorized /\ SoundManifest(Entry) /\ epochs # <<>>
  <2>1. Entry \in pending
    BY EntryIsPending DEF Register, Validated, Wanted
  <2> QED BY <2>1 DEF PullInv, Awaited, Manifests, Authorized
<1>2. /\ Acceptable(Entry) /\ Objects(Entry) \subseteq installed
      /\ imports' = imports \cup {Entry}
      /\ UNCHANGED <<remote, installed, backup, committed, pending, epochs, bootstrap>>
      /\ stage' = "discarding"
  BY DEF Register, Validated, producer
<1>3. Authorized' = Authorized
  BY <1>2 DEF Authorized
<1>4. History(Trust)' /\ Advances /\ Entry \in retained'[Entry.epoch]
  <2>1. CASE Repeats(Entry)
    <3>1. UNCHANGED trust
      BY <1>2, <2>1 DEF Register, trust
    <3>2. Entry \in retained[Entry.epoch]
      BY <1>2, <2>1 DEF Acceptable
    <3> QED BY <3>1, <3>2, TrustKept, SameTrustAdvances DEF PullInv, trust
  <2>2. CASE ~Repeats(Entry)
    <3>1. Advance(Entry)
      BY <1>2, <2>2 DEF Register, Advance
    <3>2. History(Trust)
      BY DEF PullInv
    <3>3. /\ History(Trust)' /\ Entry \in retained'[Entry.epoch]
          /\ \A f \in Authorized : anchor[f].sequence <= anchor'[f].sequence
                                   /\ retained[f] \subseteq retained'[f]
      BY <1>1, <1>2, <2>2, <3>1, <3>2, AnchorAdvanced
    <3> QED BY <1>2, <3>3 DEF Advances
  <2> QED BY <2>1, <2>2
<1>5. Imported'
  BY <1>1, <1>2, <1>3, <1>4 DEF PullInv, Imported, Advances, Objects
<1>6. Manifests' /\ Awaited' /\ Restorable'
  BY <1>2, <1>3 DEF PullInv, Manifests, Awaited, Restorable
<1> QED BY <1>4, <1>5, <1>6 DEF PullInv

(* A step keeps the invariant and, short of a lost installation, the trust. *)
LEMMA PullNextHolds ==
    ASSUME PullInv, [PullNext]_pullVars
    PROVE  PullInv' /\ (epochs' # <<>> => Advances)
<1>1. CASE UNCHANGED pullVars
  <2>1. UNCHANGED <<durable, remote, backup, transfer>>
    BY <1>1 DEF pullVars, producer
  <2>2. UNCHANGED trust
    BY <2>1 DEF durable
  <2>3. PullInv'
    BY <2>1, <2>2, TrustKept DEF PullInv, Manifests, Awaited, Restorable, Imported, durable,
          transfer, trust, Trust
  <2> QED BY <2>2, <2>3, SameTrustAdvances
<1>2. CASE PullNext
  <2>1. CASE (\E e \in EpochIds : Publish(e)) \/ \E m \in remote : TruncateRemote(m) \/ LoseObjects(m)
    BY <2>1, ProducerStep, SameTrustAdvances
  <2>2. CASE \/ StartPull \/ FinishPull \/ Interrupt \/ StagingFull
             \/ \E e \in EpochIds : ListEpoch(e)
             \/ \E degraded \in BOOLEAN : Validate(degraded)
    BY <2>2, DiscoveryStep, SameTrustAdvances
  <2>3. CASE \/ Wanted /\ \E o \in Objects(Entry) : Cache(o) \/ BeginDownload(o) \/ FinishDownload(o)
             \/ Install \/ Discard
    BY <2>3, StagingStep, SameTrustAdvances
  <2>4. CASE Operator
    BY <2>4, AuthorizationStep, BackupStep, RestoreStep, SameTrustAdvances DEF Operator
  <2>5. CASE LoseInstallation
    BY <2>5, LossStep
  <2>6. CASE Register
    BY <2>6, RegisterStep
  <2> QED BY <1>2, <2>1, <2>2, <2>3, <2>4, <2>5, <2>6 DEF PullNext, PullStep, Trouble
<1> QED BY <1>1, <1>2

-----------------------------------------------------------------------------
LEMMA PullInvariance == PullSpec => []PullInv
<1>1. PullInit => PullInv
  BY PullInitHolds
<1>2. PullInv /\ [PullNext]_pullVars => PullInv'
  BY PullNextHolds
<1> QED BY <1>1, <1>2, PTL DEF PullSpec

(* What was accepted is one coherent history that can be backed up, and what *)
(* was imported is of it, whatever was cut short, lost and restored          *)
(* (sync/catalog.py, _register_import, restore).                             *)
THEOREM HistoryStaysWhole == PullSpec => []HistoryIsWhole
<1>1. PullInv => HistoryIsWhole
  BY DEF PullInv, History, Imported, HistoryIsWhole
<1> QED BY <1>1, PullInvariance, PTL

(* Short of a lost installation trust is never taken back (_missing_history, *)
(* _next).                                                                   *)
THEOREM TrustIsNotTakenBack == PullSpec => AnchorsOnlyAdvance
<1>1. PullInv /\ [PullNext]_pullVars =>
        [epochs' # <<>> =>
           \A e \in Authorized :
              /\ bootstrap'[e] = bootstrap[e]
              /\ anchor[e].sequence <= anchor'[e].sequence
              /\ retained[e] \subseteq retained'[e]]_pullVars
  BY PullNextHolds DEF Advances
<1> QED BY <1>1, PullInvariance, PTL DEF PullSpec, AnchorsOnlyAdvance
=============================================================================
