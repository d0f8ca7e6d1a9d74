---------------------------- MODULE SessionMachine ----------------------------
(***************************************************************************)
(* The flow-session state machine of the firmware                          *)
(* (firmware/src/session_machine.cpp): one operator per method, each a     *)
(* function from the machine before the call to the machine after it.      *)
(* Firmware.tla runs them from the interrupt handler and the main loop.    *)
(*                                                                         *)
(* Counters keep their width: MaxSeq stands for UINT32_MAX, MaxLifetime    *)
(* for UINT64_MAX, MaxResultPulses for 2^63-1 and ClockModulus for the     *)
(* 2^32 of millis(), so saturation and rollover happen in small instances. *)
(* Fault tokens, error texts and the start/end stamps of a result are left *)
(* out: no branch of the machine reads them.                               *)
(*                                                                         *)
(* A definition no action uses is a mutant: the definition of the shorter  *)
(* name with one plausible mistake, for the runs to find.                  *)
(***************************************************************************)
EXTENDS Integers, Sequences

CONSTANTS
  Sids,            \* session identities the host may send
  NoSid,           \* the empty session id of an unattributed event
  Capacity,        \* kResultCapacity: retained results
  MaxSeq,          \* UINT32_MAX for event sequences
  MaxLifetime,     \* UINT64_MAX for the lifetime and recovery counters
  MaxResultPulses, \* kMaxResultPulses for one event
  ClockModulus,    \* 2^32 of millis()
  FlowGap,         \* flow_gap_ms_
  Settling         \* settling_ms_

ASSUME SidsAssumption == NoSid \notin Sids

ASSUME WidthAssumption ==
  /\ Capacity \in Nat \ {0}
  /\ MaxSeq \in Nat \ {0}
  /\ MaxLifetime \in Nat \ {0}
  /\ MaxResultPulses \in Nat \ {0}

ASSUME ClockAssumption ==
  /\ ClockModulus \in Nat \ {0}
  /\ FlowGap \in Nat
  /\ Settling \in Nat
  /\ 2 * (FlowGap + Settling) < ClockModulus

LiveStates     == {"armed", "pouring", "settling"}
TerminalStates == {"complete", "timed_out", "interrupted"}
DeviceStates   == {"idle"} \cup LiveStates \cup TerminalStates

Times == Int

(***************************************************************************)
(* SessionMachine::Active.  timer is the one stamp that state reads:       *)
(* arm_deadline_ms when armed, last_pulse_ms when pouring and              *)
(* settle_deadline_ms when settling.                                       *)
(***************************************************************************)
Active == [present : BOOLEAN, seq : Nat, sid : Sids \cup {NoSid},
           state : {"idle"} \cup LiveStates, pulses : Nat, timer : Times]

NoActive == [present |-> FALSE, seq |-> 0, sid |-> NoSid,
             state |-> "idle", pulses |-> 0, timer |-> 0]

Result == [seq : Nat, sid : Sids \cup {NoSid}, status : TerminalStates,
           pulses : Nat, life : Nat]

Machine == [state : DeviceStates, active : Active, results : Seq(Result),
            next : Nat, lifetime : Nat, recovery : Nat]

(* The constructor. *)
NewMachine == [state |-> "idle", active |-> NoActive, results |-> << >>,
               next |-> 1, lifetime |-> 0, recovery |-> 0]

-------------------------------------------------------------------------------
(* static_cast<int32_t>(now - deadline) >= 0 and > 0, on 32-bit stamps.    *)
Wrap(t) == t % ClockModulus
Due(now, deadline)   == 2 * Wrap(now - deadline) < ClockModulus
After(now, deadline) == Due(now, deadline) /\ Wrap(now - deadline) # 0

Full(m) == Len(m.results) >= Capacity

(* The retained result of this sequence and session, which makes a repeat  *)
(* of ARM or CANCEL a duplicate.                                           *)
Retained(m, seq, sid) ==
  \E i \in 1..Len(m.results) : m.results[i].seq = seq /\ m.results[i].sid = sid

IsActive(m, seq, sid) ==
  m.active.present /\ m.active.seq = seq /\ m.active.sid = sid

AddRecovery(m, count) ==
  [m EXCEPT !.recovery =
     IF MaxLifetime - m.recovery < count THEN MaxLifetime ELSE m.recovery + count]

(* finalize(): a full store keeps the event active (BUSY). *)
Finalize(m, status) ==
  IF ~m.active.present \/ Full(m) THEN m
  ELSE [m EXCEPT
          !.results = Append(m.results,
             [seq |-> m.active.seq, sid |-> m.active.sid, status |-> status,
              pulses |-> m.active.pulses, life |-> m.lifetime]),
          !.active = NoActive,
          !.state = status]

SettleOneCopy(m, now) ==
  LET gapAt == Wrap(m.active.timer + FlowGap)
  IN  IF m.active.present /\ m.active.state = "pouring" /\ Due(now, gapAt)
      THEN [m EXCEPT !.active.timer = Wrap(gapAt + Settling), !.state = "settling"]
      ELSE m

(* POURING becomes SETTLING once the gap has passed. *)
Settle(m, now) ==
  LET gapAt == Wrap(m.active.timer + FlowGap)
  IN  IF m.active.present /\ m.active.state = "pouring" /\ Due(now, gapAt)
      THEN [m EXCEPT !.active.state = "settling",
                     !.active.timer = Wrap(gapAt + Settling),
                     !.state = "settling"]
      ELSE m

(* tick() *)
Tick(m, now) ==
  IF m.active.present /\ m.active.state = "armed" /\ Due(now, m.active.timer)
  THEN Finalize(m, "timed_out")
  ELSE LET s == Settle(m, now)
       IN  IF s.active.present /\ s.active.state = "settling" /\ Due(now, s.active.timer)
           THEN Finalize(s, "complete")
           ELSE s

TickIfDue(m, captured) ==
  IF /\ m.active.present
     /\ m.active.state \in {"armed", "settling"}
     /\ Due(captured, m.active.timer)
  THEN Tick(m, captured)
  ELSE m

TickIfArmLate(m, captured) ==
  IF m.active.present /\ m.active.state = "armed" /\ After(captured, m.active.timer)
  THEN Tick(m, captured)
  ELSE m

(* The first lines of add_pulses(): an edge later than the arm or settle   *)
(* deadline closes the event before it is counted.                         *)
TickIfLate(m, captured) ==
  IF /\ m.active.present
     /\ m.active.state \in {"armed", "settling"}
     /\ After(captured, m.active.timer)
  THEN Tick(m, captured)
  ELSE m

OpenUnattributedIgnoresFull(m, count, captured) ==
  IF m.next = MaxSeq
  THEN AddRecovery(m, count)
  ELSE [m EXCEPT
          !.active = [present |-> TRUE, seq |-> m.next, sid |-> NoSid,
                      state |-> "pouring", pulses |-> count, timer |-> captured],
          !.next = m.next + 1,
          !.state = "pouring"]

(* No event is open: retain the pulses as a new unattributed event, or, if *)
(* no result slot or no sequence is left, in the recovery counter.         *)
OpenUnattributed(m, count, captured) ==
  IF Full(m) \/ m.next = MaxSeq
  THEN AddRecovery(m, count)
  ELSE [m EXCEPT
          !.active = [present |-> TRUE, seq |-> m.next, sid |-> NoSid,
                      state |-> "pouring", pulses |-> count, timer |-> captured],
          !.next = m.next + 1,
          !.state = "pouring"]

(* The open event takes the pulses, or saturates and is interrupted. *)
Accumulate(m, count, captured) ==
  IF m.active.pulses > MaxResultPulses \/ MaxResultPulses - m.active.pulses < count
  THEN Finalize([m EXCEPT !.active.pulses = MaxResultPulses], "interrupted")
  ELSE [m EXCEPT !.active.pulses = m.active.pulses + count,
                 !.active.timer = captured,
                 !.active.state = "pouring",
                 !.state = "pouring"]

(* The lifetime counter saturates: an event with pulses is interrupted. *)
SaturateLifetime(m) ==
  LET s == [m EXCEPT !.lifetime = MaxLifetime]
  IN  IF s.active.present /\ s.active.pulses > 0 THEN Finalize(s, "interrupted") ELSE s

(* add_pulses() *)
AddPulses(m, count, captured) ==
  LET t == TickIfLate(m, captured)
      u == [t EXCEPT !.lifetime = t.lifetime + count]
  IN  IF MaxLifetime - t.lifetime < count THEN SaturateLifetime(t)
      ELSE IF u.active.present THEN Accumulate(u, count, captured)
      ELSE OpenUnattributed(u, count, captured)

(* add_pulse_batch(): the first edge at its own stamp, the rest at the last. *)
AddBatch(m, count, first, last) ==
  LET one == AddPulses(m, 1, first)
  IN  IF count = 1 THEN one ELSE AddPulses(one, count - 1, last)

(* mark_counter_saturated() *)
MarkSaturated(m) == Finalize(m, "interrupted")

-------------------------------------------------------------------------------
(* arm(): the reply code, then the machine, both after the leading tick.   *)
ArmReply(m, seq, sid) ==
  IF IsActive(m, seq, sid) \/ Retained(m, seq, sid) THEN "already"
  ELSE IF m.active.present \/ Full(m) THEN "BUSY"
  ELSE IF seq # m.next THEN "STALE"
  ELSE IF m.next = MaxSeq THEN "INTERNAL"
  ELSE "ok"

Arm(m, seq, sid, now, ttl) ==
  IF ArmReply(m, seq, sid) # "ok" THEN m
  ELSE [m EXCEPT
          !.active = [present |-> TRUE, seq |-> m.next, sid |-> sid,
                      state |-> "armed", pulses |-> 0, timer |-> Wrap(now + ttl)],
          !.next = m.next + 1,
          !.state = "armed"]

(* cancel(): an armed session without pulses leaves no result behind. *)
CancelReply(m, seq, sid) ==
  IF Retained(m, seq, sid) THEN "already"
  ELSE IF ~IsActive(m, seq, sid) THEN "STALE"
  ELSE IF m.active.pulses > 0 /\ Full(m) THEN "BUSY"
  ELSE "ok"

CancelDropsPulses(m, seq, sid) ==
  IF CancelReply(m, seq, sid) # "ok" THEN m
  ELSE [m EXCEPT !.active = NoActive, !.state = "idle"]

Cancel(m, seq, sid) ==
  IF CancelReply(m, seq, sid) # "ok" THEN m
  ELSE IF m.active.pulses = 0
       THEN [m EXCEPT !.active = NoActive, !.state = "idle"]
       ELSE Finalize(m, "interrupted")

(* acknowledge(): drops the matching result and, between events, returns a *)
(* terminal state to idle.                                                 *)
Without(seq, i) ==
  [j \in 1..(Len(seq) - 1) |-> IF j < i THEN seq[j] ELSE seq[j + 1]]

AcknowledgeThrough(m, seq) ==
  IF \A i \in 1..Len(m.results) : m.results[i].seq # seq THEN m
  ELSE [m EXCEPT
          !.results = SelectSeq(m.results, LAMBDA r : r.seq > seq),
          !.state = IF ~m.active.present /\ m.state \in TerminalStates
                    THEN "idle" ELSE m.state]

Acknowledge(m, seq) ==
  IF \A i \in 1..Len(m.results) : m.results[i].seq # seq THEN m
  ELSE LET i == CHOOSE i \in 1..Len(m.results) :
                  /\ m.results[i].seq = seq
                  /\ \A j \in 1..(i - 1) : m.results[j].seq # seq
       IN  [m EXCEPT
              !.results = Without(m.results, i),
              !.state = IF ~m.active.present /\ m.state \in TerminalStates
                        THEN "idle" ELSE m.state]

-------------------------------------------------------------------------------
(***************************************************************************)
(* What a machine promises between two calls.                              *)
(***************************************************************************)

(* state_ and active_.state are two variables that must agree, and an      *)
(* event has pulses exactly when it is past ARMED.                         *)
StateAgrees(m) ==
  IF m.active.present
  THEN /\ m.active.state \in LiveStates
       /\ m.state = m.active.state
       /\ (m.active.state = "armed") <=> (m.active.pulses = 0)
       /\ m.active.state = "armed" => m.active.sid \in Sids
  ELSE m.state \notin LiveStates /\ m.active = NoActive

(* An open event always has a result slot left, so finalize() never        *)
(* answers BUSY and no measured event is lost to a full store.             *)
SlotReserved(m) ==
  /\ Len(m.results) <= Capacity
  /\ m.active.present => Len(m.results) < Capacity

(* Sequences are allocated once, in order: results are kept in allocation  *)
(* order, below the open event's sequence, below next_sequence_.           *)
SequencesOrdered(m) ==
  /\ m.next \in 1..MaxSeq
  /\ \A i, j \in 1..Len(m.results) : i < j => m.results[i].seq < m.results[j].seq
  /\ \A i \in 1..Len(m.results) : m.results[i].seq \in 1..(m.next - 1)
  /\ m.active.present =>
       /\ m.active.seq \in 1..(m.next - 1)
       /\ \A i \in 1..Len(m.results) : m.results[i].seq < m.active.seq

(* The pulses an event reports are the last ones counted before it closed, *)
(* so with life the lifetime count at its end a result stands for the      *)
(* pulses life-pulses+1 .. life.  No pulse is in two results, or in a      *)
(* result and in the open event.                                           *)
PulsesDisjoint(m) ==
  /\ \A i \in 1..Len(m.results) : m.results[i].pulses <= m.results[i].life
  /\ \A i, j \in 1..Len(m.results) :
        i < j => m.results[i].life <= m.results[j].life - m.results[j].pulses
  /\ \A i \in 1..Len(m.results) : m.results[i].life <= m.lifetime - m.active.pulses
  /\ m.active.pulses <= m.lifetime

(* A timed-out event has no pulses and a completed one has some. *)
TimeoutsMatchPulses(m) ==
  \A i \in 1..Len(m.results) :
     /\ m.results[i].status = "timed_out" => m.results[i].pulses = 0
     /\ m.results[i].status = "complete"  => m.results[i].pulses > 0

(* The pulses of the first n of these results. *)
TotalPulses(results, n) ==
  LET total[i \in 0..n] == IF i = 0 THEN 0 ELSE total[i - 1] + results[i].pulses
  IN  total[n]

(* The pulses a machine still has, wherever they are. *)
Held(mm) == TotalPulses(mm.results, Len(mm.results)) + mm.active.pulses + mm.recovery

(* The open event, or a result, as an event. *)
EventOf(e) == [seq |-> e.seq, sid |-> e.sid, pulses |-> e.pulses]

(* What every SessionMachine method preserves. *)
GoodMachine(mm) ==
  /\ mm \in Machine
  /\ StateAgrees(mm)
  /\ SlotReserved(mm)
  /\ SequencesOrdered(mm)
  /\ PulsesDisjoint(mm)
  /\ TimeoutsMatchPulses(mm)
  /\ mm.lifetime <= MaxLifetime
===============================================================================
