------------------------------- MODULE Clock -------------------------------
(* Clock quality: what clock/monitor.py and clock/policy.py make of the     *)
(* host's clocks and of the report of the local chrony daemon.  A sample    *)
(* reads the clocks, asks chrony, and reads the clocks again; the host may  *)
(* move between those three reads.  The world outside the monitor (true     *)
(* time, the error of the wall clock, what chrony last measured) is modelled *)
(* as far as application/clock.py lets the monitor see it, and true time is *)
(* kept so that the properties can compare a verdict with it.               *)
(*                                                                         *)
(* Units are arbitrary.  Reading the clocks takes no time (no capture       *)
(* uncertainty, hence no allowance in _discontinuity); the oscillator keeps *)
(* true time and chrony corrects nothing by itself, so the operator's       *)
(* holdover drift, Holdover units of age for one of radius, only widens the *)
(* radius.                                                                  *)
EXTENDS Integers, FiniteSets

CONSTANTS
    Shifts,           \* by how much one step may move the wall clock
    MaxOffset, MaxUncertainty, MaxAge, MaxStep, MaxGap, Holdover, \* ClockLimits
    MaxNow,           \* bound: true time
    MaxShifts,        \* bound: steps, suspends and changes of chrony's source
    MaxSamples        \* bound: samples taken

(* What ClockLimits accepts; a holdover of one per second is refused.       *)
ClockLimits ==
    /\ {MaxOffset, MaxUncertainty} \subseteq Nat
    /\ {MaxAge, MaxStep, MaxGap} \subseteq Nat \ {0} /\ Holdover \in Nat \ {0, 1}

ASSUME ClockAssumption ==
    /\ ClockLimits
    /\ Shifts \subseteq Int
    /\ {MaxNow, MaxShifts, MaxSamples} \subseteq Nat

VARIABLES
    now, skew, slept, \* true time, error of the wall clock, time suspended
    chrony,           \* the tracking report, or Silent
    measured,         \* the measurements chrony has, as the reports of them
    before, probed,   \* what the sample in progress has read so far, or Unread
    monitor,          \* ClockMonitor's fields
    health,           \* ClockMonitor.health, with the truth at that moment
    shifts, samples   \* the bounds' counters

clockVars == <<now, skew, slept, chrony, measured, before, probed, monitor,
               health, shifts, samples>>

Silent == [kind |-> "silent"]
Unread == [kind |-> "unread"]
Unknown == -MaxNow - 1000     \* None where Python keeps a time

Larger(a, b) == IF a > b THEN a ELSE b
Distance(a, b) == IF a > b THEN a - b ELSE b - a
CeilDiv(a, b) == (a + b - 1) \div b

(* SystemClockReader.read: the three clocks of the host at one moment.     *)
Reading == [kind |-> "read", wall |-> now + skew, mono |-> now - slept, boot |-> now]

(* parse_tracking: chrony's correction is the error it knows of, and bounds *)
(* the radius.  taken is the true time of the measurement.                  *)
Report(reference, correction, synchronized, taken) ==
    [kind |-> "report", reference |-> reference, offset |-> correction,
     uncertainty |-> Distance(correction, 0), synchronized |-> synchronized,
     taken |-> taken]

(* A monitor that has sampled nothing, as its constructor leaves it.  The   *)
(* last three fields record what happened: the true time of the last break  *)
(* it reported, the error already there when it began to count anew, and    *)
(* whether it began with a measurement it did not then trust.               *)
Fresh == [previous |-> Unread, lastReference |-> Unknown, refreshAfter |-> Unknown,
          unmeasured |-> 0, epoch |-> 0, brokenAt |-> Unknown, forgotten |-> 0,
          overtaken |-> FALSE]

NoHealth == [status |-> "none", reason |-> "none"]

ClockInit ==
    /\ now = 0 /\ skew = 0 /\ slept = 0
    /\ chrony = Report(0, 0, TRUE, 0) /\ measured = {chrony}
    /\ before = Unread /\ probed = Unread
    /\ monitor = Fresh /\ health = NoHealth
    /\ shifts = 0 /\ samples = 0

-----------------------------------------------------------------------------
(* The host and chrony.                                                     *)

Elapse ==
    /\ now < MaxNow /\ now' = now + 1
    /\ UNCHANGED <<skew, slept, chrony, measured, before, probed, monitor, health,
                   shifts, samples>>

Shift == shifts < MaxShifts /\ shifts' = shifts + 1

(* Somebody sets the wall clock; chrony does not learn of it before it      *)
(* measures again.                                                          *)
StepWall ==
    \E d \in Shifts :
        /\ Shift /\ skew' = skew + d
        /\ UNCHANGED <<now, slept, chrony, measured, before, probed, monitor, health, samples>>

(* The machine sleeps: CLOCK_MONOTONIC stands still, the others go on.      *)
Suspend ==
    /\ Shift /\ \E d \in 1 .. (MaxNow - now) :
        d > MaxStep /\ now' = now + d /\ slept' = slept + d
    /\ UNCHANGED <<skew, chrony, measured, before, probed, monitor, health, samples>>

(* chrony measures its source: it knows the error of the wall clock at this *)
(* moment.  Two measurements never bear the same time.                      *)
Measure ==
    /\ \A older \in measured : older.taken # now /\ older.reference # now + skew
    /\ chrony' = Report(now + skew, skew, TRUE, now)
    /\ measured' = measured \cup {chrony'}
    /\ UNCHANGED <<now, skew, slept, before, probed, monitor, health, shifts, samples>>

(* chrony loses its sources, falls back on one it measured before, or stops *)
(* answering.                                                               *)
Falter ==
    /\ Shift
    /\ \/ chrony.kind = "report" /\ chrony' = [chrony EXCEPT !.synchronized = FALSE]
       \/ chrony' \in measured
       \/ chrony' = Silent
    /\ UNCHANGED <<now, skew, slept, measured, before, probed, monitor, health, samples>>

-----------------------------------------------------------------------------
(* ClockMonitor.                                                            *)

(* _discontinuity.  One process keeps one session, so the reader's session  *)
(* and its monotonic clock never regress.                                   *)
Discontinuity(a, b) ==
    LET elapsed == b.mono - a.mono
    IN IF Distance(b.boot - a.boot, elapsed) > MaxStep THEN "suspend"
       ELSE IF Distance(b.wall - a.wall, elapsed) > MaxStep THEN "clock_step"
       ELSE IF elapsed > MaxGap THEN "sampling_gap"
       ELSE "none"

Either(a, b) == IF a # "none" THEN a ELSE b

(* The break _update_continuity finds between three readings.               *)
Break(after) ==
    LET inside == Discontinuity(before, after)
        since == Discontinuity(monitor.previous, before)
    IN IF monitor.previous = Unread THEN inside
       ELSE Either(Either(since, inside), Discontinuity(monitor.previous, after))

Synchronized(evidence) == evidence.kind = "report" /\ evidence.synchronized

Regressed(evidence) ==
    /\ Synchronized(evidence) /\ monitor.lastReference # Unknown
    /\ evidence.reference < monitor.lastReference

Disruption(after, evidence) ==
    Either(Break(after), IF Regressed(evidence) THEN "reference_regression" ELSE "none")

Moved(after) ==
    IF monitor.previous = Unread THEN 0
    ELSE Distance(after.wall - monitor.previous.wall, after.mono - monitor.previous.mono)

(* A measurement newer than the last one trusted ends the count of small    *)
(* changes.                                                                 *)
Renewed(after, evidence) ==
    /\ Disruption(after, evidence) = "none" /\ Synchronized(evidence)
    /\ monitor.lastReference # Unknown /\ evidence.reference > monitor.lastReference
    /\ evidence.reference =< after.wall + evidence.uncertainty

(* Mutant: the change seen by this sample is left out of the count.         *)
ChangeNotCounted(after, evidence) ==
    IF Renewed(after, evidence) THEN 0 ELSE monitor.unmeasured

Unmeasured(after, evidence) ==
    IF Renewed(after, evidence) THEN 0 ELSE monitor.unmeasured + Moved(after)

(* After a break, evidence must be later than every wall time involved.     *)
RefreshAfter(after, evidence) ==
    IF Disruption(after, evidence) = "none" THEN monitor.refreshAfter
    ELSE Larger(Larger(before.wall, after.wall),
                Larger(IF monitor.previous = Unread THEN before.wall
                       ELSE monitor.previous.wall,
                       IF monitor.lastReference = Unknown THEN 0
                       ELSE monitor.lastReference))

(* The radius before holdover, the age it gives, and the radius with it.    *)
Narrow(after, evidence) ==
    evidence.uncertainty + (after.mono - before.mono) + Unmeasured(after, evidence)
AgeOf(after, evidence) ==
    LET behind == Larger(0, after.wall + Narrow(after, evidence) - evidence.reference)
    IN CeilDiv(behind * Holdover, Holdover - 1)
RadiusOf(after, evidence) ==
    Narrow(after, evidence) + CeilDiv(AgeOf(after, evidence), Holdover)

(* _quality: the first of its tests that fails names the reason.            *)
Reason(after, evidence) ==
    IF evidence.kind = "silent" THEN "missing_evidence"
    ELSE IF ~evidence.synchronized THEN "unsynchronized"
    ELSE IF /\ RefreshAfter(after, evidence) # Unknown
            /\ evidence.reference =< RefreshAfter(after, evidence) THEN "awaiting_refresh"
    ELSE IF evidence.reference > after.wall + RadiusOf(after, evidence) THEN "future_evidence"
    ELSE IF AgeOf(after, evidence) > MaxAge THEN "stale_evidence"
    ELSE IF Distance(evidence.offset, 0) > MaxOffset THEN "excess_offset"
    ELSE IF RadiusOf(after, evidence) > MaxUncertainty THEN "excess_uncertainty"
    ELSE "bounded_evidence"

Status(reason) ==
    IF reason = "bounded_evidence" THEN "healthy"
    ELSE IF reason \in {"unsynchronized", "excess_offset", "excess_uncertainty",
                        "suspend", "clock_step", "sampling_gap"} THEN "degraded"
    ELSE "unknown"

(* What sample() finally says: a disruption overrules the quality, and the  *)
(* first sample of a process is never healthy.                              *)
Verdict(after, evidence) ==
    LET disruption == Disruption(after, evidence)
        reason == Reason(after, evidence)
    IN IF disruption # "none" THEN disruption
       ELSE IF monitor.previous = Unread /\ reason = "bounded_evidence" THEN "startup"
       ELSE reason

(* _record_transition: the epoch changes with the first sample, with every  *)
(* break and with every change of verdict.                                  *)
EpochAfter(after, evidence) ==
    IF \/ health.reason = "none" \/ Disruption(after, evidence) # "none"
       \/ health.reason # Verdict(after, evidence)
    THEN monitor.epoch + 1 ELSE monitor.epoch

(* The first reading and ChronyStatus.read, which returns nothing when the  *)
(* command fails or times out; the host moves on before the second reading. *)
BeginSample ==
    /\ before = Unread /\ samples < MaxSamples
    /\ before' = Reading /\ probed' = chrony /\ samples' = samples + 1
    /\ UNCHANGED <<now, skew, slept, chrony, measured, monitor, health, shifts>>

FinishSample ==
    /\ before # Unread
    /\ LET after == Reading
           disruption == Disruption(after, probed)
           verdict == Verdict(after, probed)
           known == probed.kind = "report"
           relies == known /\ verdict \in {"startup", "bounded_evidence"}
       IN /\ monitor' =
               [previous |-> after,
                lastReference |-> IF relies THEN probed.reference
                                  ELSE monitor.lastReference,
                refreshAfter |-> IF Reason(after, probed) = "bounded_evidence" THEN Unknown
                                 ELSE RefreshAfter(after, probed),
                unmeasured |-> Unmeasured(after, probed),
                epoch |-> EpochAfter(after, probed),
                brokenAt |-> IF disruption # "none" THEN now ELSE monitor.brokenAt,
                forgotten |-> IF known /\ (Renewed(after, probed)
                                           \/ monitor.lastReference = Unknown)
                              THEN Distance(skew, probed.offset)
                              ELSE monitor.forgotten,
                overtaken |-> /\ monitor.overtaken \/ Renewed(after, probed)
                              /\ relies => probed.reference = monitor.lastReference]
          /\ health' =
               [status |-> Status(verdict), reason |-> verdict,
                wall |-> after.wall, truth |-> now,
                epoch |-> EpochAfter(after, probed),
                offset |-> IF known THEN probed.offset ELSE 0,
                radius |-> IF known THEN RadiusOf(after, probed) ELSE 0,
                age |-> IF known THEN AgeOf(after, probed) ELSE 0,
                taken |-> IF known THEN probed.taken ELSE Unknown]
    /\ before' = Unread /\ probed' = Unread
    /\ UNCHANGED <<now, skew, slept, chrony, measured, shifts, samples>>

(* The process restarts: a new monitor, a new session.                      *)
RestartMonitor ==
    /\ Shift /\ monitor # Fresh
    /\ monitor' = Fresh /\ health' = NoHealth /\ before' = Unread /\ probed' = Unread
    /\ UNCHANGED <<now, skew, slept, chrony, measured, samples>>

ClockNext ==
    \/ Elapse \/ StepWall \/ Suspend \/ Measure \/ Falter
    \/ BeginSample \/ FinishSample \/ RestartMonitor

ClockSpec == ClockInit /\ [][ClockNext]_clockVars

-----------------------------------------------------------------------------
(* clock/policy.py.                                                         *)

(* time_interval gives no interval to such a sample.                        *)
Bounded(sample) ==
    /\ sample.status = "healthy"
    /\ Distance(sample.offset, 0) =< MaxOffset
    /\ sample.radius =< MaxUncertainty /\ sample.age =< MaxAge
    /\ sample.radius >= Distance(sample.offset, 0) + CeilDiv(sample.age, Holdover)

IsFinal(sample, boundary) == Bounded(sample) /\ sample.wall - sample.radius > boundary

-----------------------------------------------------------------------------
(* A boundary that is_final accepts has passed in true time, whatever steps, *)
(* suspends and restarts the clock went through, except for the error that   *)
(* was already there when the monitor began to count with the measurement it *)
(* relies on (a step between that measurement and the sample which first saw *)
(* it cannot be told from the measured error).                               *)
NotEarly ==
    \A boundary \in -MaxNow .. 2 * MaxNow :
        IsFinal(health, boundary) => boundary < health.truth + monitor.forgotten

(* That holds short of one sequence of reports: chrony has given a newer     *)
(* measurement, which ended the count though it was not trusted, and then    *)
(* gives the trusted one again.                                              *)
FinalityIsNotEarly == ~monitor.overtaken => NotEarly

(* What docs/data/CLOCK.md:24-26 says: a break invalidates old evidence      *)
(* until chrony reports a later measurement.                                 *)
BreakNeedsNewMeasurement ==
    health.status = "healthy" => health.taken >= monitor.brokenAt
=============================================================================
