---------------------------- MODULE SimulatedDevice ----------------------------
(***************************************************************************)
(* The simulated controller: DeviceSessionMachine (domain/device_machine)  *)
(* behind SimulatorTransport (serialio/simulator), driven by the demo's    *)
(* scenario calls (pulses, time, link faults, reset) and by the host's     *)
(* requests.  It is the device every host test runs against, so it must    *)
(* promise what the firmware promises: EventStore.                         *)
(*                                                                         *)
(* Time is kept as the time left to the stamp the machine's state reads.   *)
(* device.results is a dict that is filled in the order of the sequences:  *)
(* it is kept as the set of its values.                                    *)
(* The wire holds the RESULT frames that will parse; any of them may be    *)
(* read next, which covers duplicate_next and flush_delayed(reverse).      *)
(* A definition no action uses is a mutant.                                *)
(***************************************************************************)
EXTENDS Integers, FiniteSets

CONSTANTS
  Sids, NoSid,
  Capacity,        \* result_capacity
  MaxSeq,          \* UINT32_MAX
  MaxLifetime,     \* UINT64_MAX
  MaxResultPulses, \* MAX_RESULT_PULSES
  FlowGap, Settling,
  Ttl,             \* the ARM request's ttl
  Interval,        \* inject_pulses' interval_ms
  MaxAdvance,      \* 600000 ms
  MaxBoot,         \* bounds the resets
  MaxDelayed,      \* bounds the delayed frames; one fault is set at a time
  MaxBatch         \* bounds the count of inject_pulses

ASSUME SimulatorAssumption ==
  /\ NoSid \notin Sids
  /\ Capacity \in 1..16
  /\ {MaxSeq, MaxLifetime, MaxResultPulses, FlowGap, Settling, Ttl,
      Interval, MaxAdvance, MaxBoot, MaxDelayed, MaxBatch} \subseteq Nat \ {0}
  /\ MaxBatch <= MaxResultPulses

VARIABLES
  d,     \* DeviceSessionMachine
  boot,  \* device.boot_id
  link,  \* _available, _open
  wire,  \* _incoming and _delayed, and the fault settings
  read,  \* the host: results read, as <<boot, seq>>
  idle   \* history: time since the last edge, ARM or reset

vars == <<d, boot, link, wire, read, idle>>

Live == {"armed", "pouring", "settling"}
Terminal == {"complete", "timed_out", "interrupted"}
Faults == {"corrupt_next", "delay_next"}

NoActive == [seq |-> 0, sid |-> NoSid, state |-> "idle", pulses |-> 0, left |-> 0]

NewDevice == [state |-> "idle", active |-> NoActive, results |-> {},
              next |-> 1, lifetime |-> 0, recovery |-> 0]

LeftFloor == -(Settling + 1)
Least(a, b) == IF a < b THEN a ELSE b
Most(a, b) == IF a < b THEN b ELSE a
IdleCap == Most(Ttl, FlowGap + Settling) + 1

Init ==
  /\ d = NewDevice
  /\ boot = 1
  /\ link = [available |-> TRUE, open |-> FALSE]
  /\ wire = [incoming |-> {}, delayed |-> {}, faults |-> {}]
  /\ read = {}
  /\ idle = 0

-------------------------------------------------------------------------------
(* DeviceSessionMachine *)

IsLive(m) == m.active # NoActive
Full(m) == Cardinality(m.results) >= Capacity
Holds(m, seq) == \E r \in m.results : r.seq = seq
HoldsOf(m, seq, sid) == \E r \in m.results : r.seq = seq /\ r.sid = sid
IsActive(m, seq, sid) == IsLive(m) /\ m.active.seq = seq /\ m.active.sid = sid

(* _finalize() checks no capacity: the slot was reserved when the event    *)
(* opened.                                                                 *)
Finalize(m, status) ==
  [m EXCEPT !.results = m.results \cup
              {[seq |-> m.active.seq, sid |-> m.active.sid,
                status |-> status, pulses |-> m.active.pulses]},
            !.active = NoActive,
            !.state = status]

(* tick() *)
Tick(m) ==
  LET settles == m.active.state = "pouring" /\ m.active.left <= 0
      s == IF settles
           THEN [m EXCEPT !.active.state = "settling",
                          !.active.left = m.active.left + Settling,
                          !.state = "settling"]
           ELSE m
  IN  IF m.active.state = "armed" /\ m.active.left <= 0 THEN Finalize(m, "timed_out")
      ELSE IF s.active.state = "settling" /\ s.active.left <= 0
           THEN Finalize(s, "complete")
           ELSE s

(* A stamp further in the past than LeftFloor makes no difference. *)
Age(m, time) ==
  IF IsLive(m) THEN [m EXCEPT !.active.left = Most(m.active.left - time, LeftFloor)]
  ELSE m

TickIfDue(m) ==
  LET t == IF m.active.state \in {"armed", "settling"} /\ m.active.left <= 0
           THEN Tick(m) ELSE m
  IN  IF ~IsLive(t) /\ t.state \in Terminal THEN [t EXCEPT !.state = "idle"] ELSE t

(* The start of pulse(): an edge past the deadline closes the event first. *)
TickIfLate(m) ==
  LET t == IF m.active.state \in {"armed", "settling"} /\ m.active.left < 0
           THEN Tick(m) ELSE m
  IN  IF ~IsLive(t) /\ t.state \in Terminal THEN [t EXCEPT !.state = "idle"] ELSE t

(* No event is open; with no result slot the pulses go to the recovery     *)
(* counter, with no sequence (Raises) they stay in the lifetime only.      *)
OpenUnattributed(m, count) ==
  IF Full(m) THEN [m EXCEPT !.recovery = m.recovery + count]
  ELSE IF m.next > MaxSeq THEN m
  ELSE [m EXCEPT !.active = [seq |-> m.next, sid |-> NoSid, state |-> "pouring",
                             pulses |-> count, left |-> FlowGap],
                 !.next = m.next + 1,
                 !.state = "pouring"]

Accumulate(m, count) ==
  IF m.active.pulses > MaxResultPulses - count
  THEN Finalize([m EXCEPT !.active.pulses = MaxResultPulses], "interrupted")
  ELSE [m EXCEPT !.active.pulses = m.active.pulses + count,
                 !.active.left = FlowGap,
                 !.active.state = "pouring",
                 !.state = "pouring"]

Saturates(m, count) == m.lifetime > MaxLifetime - count

(* pulse() *)
Pulse(m, count) ==
  LET full == [m EXCEPT !.lifetime = MaxLifetime]
      t == TickIfLate(m)
      u == [t EXCEPT !.lifetime = t.lifetime + count]
  IN  IF Saturates(m, count)
      THEN IF m.active.pulses > 0 THEN Finalize(full, "interrupted") ELSE full
      ELSE IF IsLive(u) THEN Accumulate(u, count) ELSE OpenUnattributed(u, count)

(* pulse() ends in a ConflictError, after it has changed the machine. *)
Raises(m, count) ==
  LET t == TickIfLate(m)
  IN  \/ Saturates(m, count)
      \/ IsLive(t) /\ t.active.pulses > MaxResultPulses - count
      \/ ~IsLive(t) /\ ~Full(t) /\ t.next > MaxSeq

(* arm(), after its tick: refused, repeated or accepted. *)
CanArm(m, seq) == ~IsLive(m) /\ ~Full(m) /\ seq = m.next /\ m.next <= MaxSeq

Arm(m, seq, sid) ==
  IF IsActive(m, seq, sid) \/ HoldsOf(m, seq, sid) \/ ~CanArm(m, seq) THEN m
  ELSE [m EXCEPT !.active = [seq |-> seq, sid |-> sid, state |-> "armed",
                             pulses |-> 0, left |-> Ttl],
                 !.next = m.next + 1,
                 !.state = "armed"]

CancelForgets(m, seq, sid) ==
  IF HoldsOf(m, seq, sid) \/ ~IsActive(m, seq, sid) THEN m
  ELSE [m EXCEPT !.active = NoActive, !.state = "idle"]

(* cancel(), after its tick. *)
Cancel(m, seq, sid) ==
  IF HoldsOf(m, seq, sid) \/ ~IsActive(m, seq, sid) THEN m
  ELSE IF m.active.pulses = 0 THEN [m EXCEPT !.active = NoActive, !.state = "idle"]
  ELSE Finalize(m, "interrupted")

(* acknowledge() leaves a terminal state even when the result is unknown.  *)
Acknowledge(m, seq) ==
  [m EXCEPT !.results = {r \in m.results : r.seq # seq},
            !.state = IF ~IsLive(m) /\ m.state \in Terminal THEN "idle" ELSE m.state]

-------------------------------------------------------------------------------
(* SimulatorTransport *)

Frames(results) == {<<boot, r.seq>> : r \in results}
Oldest(frames) == {f \in frames : \A g \in frames : f[2] <= g[2]}

(* _enqueue() of the news, of the results an answer repeats and of the     *)
(* reply that ends it, in this order.  A pending fault is used up by the   *)
(* first frame, whatever it is; of the frames only RESULTs are kept.       *)
Enqueue(w, news, told, replied) ==
  LET ahead  == IF news = {} THEN told ELSE news
      struck == IF w.faults = {} THEN {} ELSE Oldest(ahead)
      sent   == (ahead \ struck) \cup (IF news = {} THEN {} ELSE told)
      late   == IF w.faults = {"delay_next"} THEN struck ELSE {}
  IN  [incoming |-> w.incoming \cup sent,
       delayed  |-> w.delayed \cup late,
       faults   |-> IF replied \/ ahead # {} THEN {} ELSE w.faults]

(* _emit_new_result(): the results whose sequence was not held before. *)
New(m) == {r \in m.results : ~Holds(d, r.seq)}

(* write(): the device ticks, handles the request, and puts the results    *)
(* this finalized ahead of its answer.                                     *)
Request(m, told) ==
  /\ link.open /\ link.available
  /\ d' = m
  /\ wire' = Enqueue(wire, Frames(New(m)), Frames(told), TRUE)
  /\ UNCHANGED <<boot, link, read>>

(* HELLO, PING, STATUS, COUNTERS and every refused frame. *)
Poll == Request(Tick(d), {}) /\ UNCHANGED idle

HandleArm(seq, sid) ==
  LET t == Tick(d)
  IN  /\ Request(Arm(t, seq, sid), {})
      /\ idle' = IF Arm(t, seq, sid) # t THEN 0 ELSE idle

(* The result of a CANCEL is sent twice: as news and in the answer. *)
HandleCancel(seq, sid) ==
  LET c == Cancel(Tick(d), seq, sid)
  IN  Request(c, {r \in c.results : r.seq = seq /\ r.sid = sid}) /\ UNCHANGED idle

HandleAckAnyBoot(of, seq) ==
  Request(Acknowledge(Tick(d), seq), {}) /\ UNCHANGED idle

HandleAck(of, seq) ==
  LET t == Tick(d)
  IN  Request(IF of = boot THEN Acknowledge(t, seq) ELSE t, {}) /\ UNCHANGED idle

HandleResults == Request(Tick(d), Tick(d).results) /\ UNCHANGED idle

(* inject_pulses() with an interval: time moves from edge to edge without  *)
(* a tick, up to the first edge that raises.                               *)
Spaced[n \in 0..MaxBatch] ==
  IF n = 0 THEN [m |-> d, raised |-> FALSE, quiet |-> idle]
  ELSE LET before == Spaced[n - 1]
           aged == Age(before.m, Interval)
       IN  IF before.raised THEN before
           ELSE [m |-> Pulse(aged, 1), raised |-> Raises(aged, 1),
                 quiet |-> IF Saturates(aged, 1)
                           THEN Least(before.quiet + Interval, IdleCap) ELSE 0]

(* A call that raises emits nothing: its results wait for RESULTS. *)
Inject(after) ==
  /\ link.available
  /\ d' = after.m
  /\ wire' = IF after.raised THEN wire ELSE Enqueue(wire, Frames(New(after.m)), {}, FALSE)
  /\ idle' = after.quiet
  /\ UNCHANGED <<boot, link, read>>

InjectPulses(count) ==
  Inject([m |-> Pulse(d, count), raised |-> Raises(d, count),
          quiet |-> IF Saturates(d, count) THEN idle ELSE 0])
InjectSpaced(count) == Inject(Spaced[count])

(* advance(), and finish_pour() *)
Advance(time) ==
  /\ d' = Tick(Age(d, time))
  /\ wire' = Enqueue(wire, Frames(New(d')), {}, FALSE)
  /\ idle' = Least(idle + time, IdleCap)
  /\ UNCHANGED <<boot, link, read>>

DisconnectDevice ==
  /\ link' = [available |-> FALSE, open |-> FALSE]
  /\ UNCHANGED <<d, boot, wire, read, idle>>

ReconnectDevice ==
  /\ link' = [link EXCEPT !.available = TRUE]
  /\ UNCHANGED <<d, boot, wire, read, idle>>

Open  == link.available /\ link' = [link EXCEPT !.open = TRUE] /\ UNCHANGED <<d, boot, wire, read, idle>>
Close == link' = [link EXCEPT !.open = FALSE] /\ UNCHANGED <<d, boot, wire, read, idle>>

(* reset_device(): what was sent is lost, what was delayed is not. *)
ResetDevice ==
  /\ boot < MaxBoot
  /\ boot' = boot + 1
  /\ d' = NewDevice
  /\ wire' = [wire EXCEPT !.incoming = {}]
  /\ idle' = 0
  /\ UNCHANGED <<link, read>>

ConfigureFault(fault, enabled) ==
  /\ enabled => wire.faults = {} /\ Cardinality(wire.delayed) < MaxDelayed
  /\ wire' = [wire EXCEPT !.faults = IF enabled THEN @ \cup {fault} ELSE @ \ {fault}]
  /\ UNCHANGED <<d, boot, link, read, idle>>

FlushDelayed ==
  /\ wire' = [wire EXCEPT !.incoming = @ \cup wire.delayed, !.delayed = {}]
  /\ UNCHANGED <<d, boot, link, read, idle>>

(* read(): buffered bytes are read even from a closed port. *)
Read(frame) ==
  /\ wire' = [wire EXCEPT !.incoming = @ \ {frame}]
  /\ read' = read \cup {frame}
  /\ UNCHANGED <<d, boot, link, idle>>

(* The host acknowledges what it has read, at any later time. *)
Next ==
  \/ Poll
  \/ \E seq \in 1..MaxSeq, sid \in Sids : HandleArm(seq, sid) \/ HandleCancel(seq, sid)
  \/ \E frame \in read : HandleAck(frame[1], frame[2])
  \/ HandleResults
  \/ \E count \in 1..MaxBatch : InjectPulses(count) \/ InjectSpaced(count)
  \/ \E time \in 0..MaxAdvance : Advance(time)
  \/ DisconnectDevice \/ ReconnectDevice \/ Open \/ Close
  \/ ResetDevice
  \/ \E fault \in Faults, enabled \in BOOLEAN : ConfigureFault(fault, enabled)
  \/ FlushDelayed
  \/ \E frame \in wire.incoming : Read(frame)

Spec == Init /\ [][Next]_vars

-------------------------------------------------------------------------------
(* The simulator implements EventStore, with its own treatment of an       *)
(* exhausted sequence and of saturation, which raise instead of closing    *)
(* quietly (device_machine.py, every method).                              *)
Store == INSTANCE EventStore WITH
  next <- d.next,
  open <- [seq |-> d.active.seq, sid |-> d.active.sid, pulses |-> d.active.pulses],
  retained <- d.results,
  counted <- d.lifetime,
  spilled <- d.recovery

ImplementsEventStore == Store!Spec

(* A result is dropped only after the host has read that very result: an   *)
(* ACK for a frame delayed across a reset never drops the result to which  *)
(* the new boot gave the same sequence (simulator.py _handle, ACK).        *)
ReleasedWasRead ==
  [][boot' = boot =>
       \A r \in d.results \ d'.results : <<boot, r.seq>> \in read]_vars

(* The results this step added. *)
Closed(status) == {r \in d'.results \ d.results : r.status = status}

(* True time from the last edge to the next one, or to now. *)
Silence == IF d'.lifetime > d.lifetime THEN idle + Interval ELSE Most(idle, idle')

(* An edge at an exact deadline wins: a session times out, and a pour      *)
(* completes, only when the deadline has passed without an edge, also when *)
(* inject_pulses moves the time past it without a tick                     *)
(* (device_machine.py pulse).                                              *)
DeadlinesAreExact ==
  [][LET late(time) == IF d'.lifetime > d.lifetime THEN Silence > time ELSE Silence >= time
     IN  /\ Closed("timed_out") # {} => late(Ttl)
         /\ Closed("complete") # {} => late(FlowGap + Settling)]_vars
===============================================================================
