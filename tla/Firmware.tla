------------------------------- MODULE Firmware -------------------------------
(***************************************************************************)
(* The flow controller: the pulse interrupt and the main loop of           *)
(* firmware/src/main.cpp around one SessionMachine, between two resets.    *)
(*                                                                         *)
(* Every command and every timer tick is linearised: it takes the batch of *)
(* edges the interrupt has captured so far, applies it, and only then acts,*)
(* with the clock read in the same atomic block.                           *)
(***************************************************************************)
EXTENDS SessionMachine

CONSTANTS
  Ttls,       \* arm time-outs the host may ask for
  MaxPending, \* UINT32_MAX for the interrupt's edge counter
  MaxStall    \* longest time the main loop may go without a tick

ASSUME PendingAssumption ==
  MaxPending \in Nat \ {0} /\ MaxPending <= MaxResultPulses

ASSUME StallAssumption ==
  /\ MaxStall \in Nat /\ 2 * MaxStall < ClockModulus
  /\ \A ttl \in Ttls : ttl \in Nat /\ 2 * ttl < ClockModulus

VARIABLES
  m,           \* g_machine
  clock,       \* millis()
  pending,     \* edges captured by the interrupt and not yet drained
  lastEmitted, \* g_last_emitted_sequence
  stall,       \* time since the last tick of the main loop (bounds the model)
  quiet,       \* history: time since the open event's last edge, or its ARM
  released     \* history: pulses in results the host has acknowledged

vars == <<m, clock, pending, lastEmitted, stall, quiet, released>>

(* g_pending_pulses, g_first_pulse_ms, g_last_pulse_ms, g_pending_saturated *)
Pending == [count : 0..MaxPending, first : Times, last : Times, saturated : BOOLEAN]
NoPending == [count |-> 0, first |-> 0, last |-> 0, saturated |-> FALSE]

TypeOK ==
  /\ m \in Machine
  /\ clock \in Times
  /\ pending \in Pending
  /\ lastEmitted \in Nat
  /\ stall \in Nat
  /\ quiet \in Nat
  /\ released \in Nat

Init ==
  /\ m = NewMachine
  /\ clock = 0
  /\ pending = NoPending
  /\ lastEmitted = 0
  /\ stall = 0
  /\ quiet = 0
  /\ released = 0

-------------------------------------------------------------------------------
(* The interrupt: only the edge count saturates, the stamps move on. *)
PulseIsr ==
  /\ pending' =
       IF pending.count = MaxPending
       THEN [pending EXCEPT !.saturated = TRUE, !.last = clock]
       ELSE [pending EXCEPT !.count = pending.count + 1,
                            !.first = IF pending.count = 0 THEN clock ELSE pending.first,
                            !.last = clock]
  /\ UNCHANGED <<m, clock, lastEmitted, stall, quiet, released>>

(* Time passes, and rolls over.  quiet stops at the modulus, which is more *)
(* than any deadline and a stall together.                                 *)
ClockTick ==
  /\ stall < MaxStall
  /\ clock' = Wrap(clock + 1)
  /\ stall' = stall + 1
  /\ quiet' = IF m.active.present /\ quiet < ClockModulus THEN quiet + 1 ELSE quiet
  /\ UNCHANGED <<m, pending, lastEmitted, released>>

(* capture_pending_batch() and apply_pending_batch() *)
Drained ==
  LET batch == AddBatch(m, pending.count, pending.first, pending.last)
  IN  IF pending.count = 0 THEN m
      ELSE IF pending.saturated THEN MarkSaturated(batch) ELSE batch

QuietAfterDrain ==
  IF pending.count = 0 THEN quiet ELSE Wrap(clock - pending.last)

(* emit_new_results(): every retained result above the last one sent. *)
EmitNew(machine) ==
  LET n == Len(machine.results)
  IN  IF n > 0 /\ machine.results[n].seq > lastEmitted
      THEN machine.results[n].seq ELSE lastEmitted

(* What a step emits: always after a non-empty batch, and after its own    *)
(* change when the handler asks for it.                                    *)
EmitAfter(machine, asked) ==
  lastEmitted' = IF asked \/ pending.count > 0
                 THEN EmitNew(IF asked THEN machine ELSE Drained)
                 ELSE lastEmitted

(* tick_linearized(), and the STATUS command, which ticks the same way. *)
TickLinearized ==
  LET t == Tick(Drained, clock)
  IN  /\ m' = t
      /\ EmitAfter(t, Len(t.results) > Len(Drained.results))
      /\ pending' = NoPending
      /\ stall' = 0
      /\ quiet' = QuietAfterDrain
      /\ UNCHANGED <<clock, released>>

(* drain_pulses() alone, as between two bytes of a frame. *)
DrainPulses ==
  /\ pending.count > 0
  /\ m' = Drained
  /\ EmitAfter(m', FALSE)
  /\ pending' = NoPending
  /\ quiet' = QuietAfterDrain
  /\ UNCHANGED <<clock, stall, released>>

(* The ARM request.  arm() ticks first, and discards whether that tick     *)
(* produced a result: such a result is not emitted here.                   *)
HandleArm(seq, sid, ttl) ==
  LET t == Tick(Drained, clock)
  IN  /\ m' = Arm(t, seq, sid, clock, ttl)
      /\ EmitAfter(m', FALSE)
      /\ pending' = NoPending
      /\ quiet' = IF ArmReply(t, seq, sid) = "ok" THEN 0 ELSE QuietAfterDrain
      /\ UNCHANGED <<clock, stall, released>>

(* The CANCEL request. *)
HandleCancel(seq, sid) ==
  LET t == Tick(Drained, clock)
  IN  /\ m' = Cancel(t, seq, sid)
      /\ EmitAfter(m', CancelReply(t, seq, sid) \in {"ok", "already"})
      /\ pending' = NoPending
      /\ quiet' = QuietAfterDrain
      /\ UNCHANGED <<clock, stall, released>>

(* The ACK request, with this device's identity and boot. *)
HandleAck(seq) ==
  /\ \E i \in 1..Len(m.results) : m.results[i].seq = seq
  /\ m' = Acknowledge(Drained, seq)
  /\ released' = released +
       (LET i == CHOOSE i \in 1..Len(m.results) : m.results[i].seq = seq
        IN  m.results[i].pulses)
  /\ EmitAfter(m', FALSE)
  /\ pending' = NoPending
  /\ quiet' = QuietAfterDrain
  /\ UNCHANGED <<clock, stall>>

HandleResultsNewestFirst ==
  /\ m' = Drained
  /\ lastEmitted' = IF Len(Drained.results) > 0 THEN Drained.results[1].seq ELSE lastEmitted
  /\ pending' = NoPending
  /\ quiet' = QuietAfterDrain
  /\ UNCHANGED <<clock, stall, released>>

(* The RESULTS request replays every retained result, the last one last. *)
HandleResults ==
  /\ m' = Drained
  /\ lastEmitted' = LET n == Len(Drained.results)
                    IN  IF n > 0 THEN Drained.results[n].seq ELSE lastEmitted
  /\ pending' = NoPending
  /\ quiet' = QuietAfterDrain
  /\ UNCHANGED <<clock, stall, released>>

(* A power cycle: everything is RAM. *)
Reset ==
  /\ m' = NewMachine
  /\ clock' = 0
  /\ pending' = NoPending
  /\ lastEmitted' = 0
  /\ stall' = 0
  /\ quiet' = 0
  /\ released' = 0

Command ==
  \/ \E seq \in 1..MaxSeq, sid \in Sids :
       \/ \E ttl \in Ttls : HandleArm(seq, sid, ttl)
       \/ HandleCancel(seq, sid)
  \/ \E seq \in 1..MaxSeq : HandleAck(seq)
  \/ HandleResults

Next == PulseIsr \/ ClockTick \/ TickLinearized \/ DrainPulses \/ Command \/ Reset

Spec == Init /\ [][Next]_vars

(***************************************************************************)
(* Time does not stop, the main loop ticks again and again, and the host's *)
(* poll asks for RESULTS again and again.                                  *)
(***************************************************************************)
Fairness ==
  /\ []<><<ClockTick>>_vars
  /\ []<><<TickLinearized>>_vars
  /\ WF_vars(HandleResults)

FairSpec == Spec /\ Fairness

-------------------------------------------------------------------------------
(***************************************************************************)
(* Safety: SessionMachine's promises about m.                              *)
(***************************************************************************)

(* The two copies of the device state and the pulse count of the open      *)
(* event never disagree (session_machine.cpp state_, active_.state).       *)
Coherent == StateAgrees(m)

(* The firmware can always close the event it has open: the result store   *)
(* is never full under an open event, so finalize() never answers BUSY.    *)
AlwaysRoomToFinalize == SlotReserved(m)

(* Event sequences are unique and retained in allocation order, which is   *)
(* what lets emit_new_results() remember one number.                       *)
OrderedSequences == SequencesOrdered(m)

(* No accepted pulse is reported by two results, nor by a result and the   *)
(* event still open.                                                       *)
NoPulseReportedTwice == PulsesDisjoint(m)

(* The host quarantines a timed-out result with pulses: the firmware never *)
(* makes one.                                                              *)
TimeoutsAreEmpty == TimeoutsMatchPulses(m)

Accounted == released + Held(m)

(* Every pulse the lifetime counter accepted is in exactly one place: an   *)
(* acknowledged result, a retained one, the open event or the recovery     *)
(* counter.  Saturation may only lose pulses, and no event saturates while *)
(* the lifetime count itself is within one event's range.                  *)
PulsesConserved ==
  /\ Accounted <= m.lifetime
  /\ m.lifetime < MaxLifetime /\ m.lifetime <= MaxResultPulses => Accounted = m.lifetime

(* The firmware implements EventStore: a retained result is released only  *)
(* by the host, an open event is never dropped, sequences are used once    *)
(* and pulses move only between the event, the results and the recovery    *)
(* counter (session_machine.cpp, every method).                            *)
Record(r) == [seq |-> r.seq, sid |-> r.sid, status |-> r.status, pulses |-> r.pulses]

Store == INSTANCE EventStore WITH
  next <- m.next,
  open <- EventOf(m.active),
  retained <- {Record(m.results[i]) : i \in 1..Len(m.results)},
  counted <- m.lifetime,
  spilled <- m.recovery

ImplementsEventStore == Store!Spec

(* The inductive invariant of the controller: the five promises above and  *)
(* the types, which only together survive every method (finalize() relies  *)
(* on the slot, the order of the results on the sequences, the empty       *)
(* timeouts on the agreement of the two states).                           *)
Inv == TypeOK /\ GoodMachine(m)

(***************************************************************************)
(* Timing, against true elapsed time (quiet) rather than the stamps, which *)
(* roll over.                                                              *)
(***************************************************************************)

(* The results this step added. *)
Closed(status) ==
  \E i \in 1..Len(m'.results) :
    /\ m'.results[i].status = status
    /\ \A j \in 1..Len(m.results) : m.results[j].seq # m'.results[i].seq

(* True time from the open event's last stamp to an edge captured at t. *)
QuietUntil(t) == quiet - Wrap(clock - t)

(* A pour completes only after the flow gap and the settling time have     *)
(* passed without an edge: rollover of millis() never ends a pour early,   *)
(* and an edge already captured is never left out of the pour it belongs to. *)
CompletesOnlyAfterSilence ==
  Closed("complete") =>
    IF pending.count = 0 THEN quiet >= FlowGap + Settling
    ELSE \/ QuietUntil(pending.first) > FlowGap + Settling
         \/ QuietAfterDrain >= FlowGap + Settling

(* An edge captured at or before the arm deadline always starts the        *)
(* attributed pour: the timeout never takes the session away from it       *)
(* (session_machine.cpp add_pulses, docs/PROTOCOL.md on linearisation).    *)
TimesOutOnlyWithoutEdges ==
  Closed("timed_out") /\ m'.lifetime < MaxLifetime =>
    \E ttl \in Ttls :
      IF pending.count = 0 THEN quiet >= ttl
      ELSE QuietUntil(pending.first) > ttl

(* An event ends when its time is up, and never before.                    *)
EventsEndOnTime == [][CompletesOnlyAfterSilence /\ TimesOutOnlyWithoutEdges]_vars

(* Two pours with more than gap plus settling time between their edges are *)
(* two events, as long as the main loop ticks once in a settling time.     *)
SeparatePoursStaySeparate ==
  [][(/\ m.active.present /\ m.active.state # "armed"
      /\ pending.count > 0 /\ pending'.count = 0
      /\ QuietUntil(pending.first) > FlowGap + Settling)
     => (m'.active.seq # m.active.seq)]_vars

(***************************************************************************)
(* Liveness                                                                *)
(***************************************************************************)

(* An armed, pouring or settling event is always closed: the timers fire   *)
(* across a rollover and under any pattern of edges.                       *)
EveryEventCloses == m.active.present ~> ~m.active.present

(* Every retained result is put on the wire, even one produced by the tick *)
(* inside arm(), whose caller ignores it.                                  *)
EveryResultIsSent ==
  \A seq \in 1..MaxSeq :
    (\E i \in 1..Len(m.results) : m.results[i].seq = seq)
      ~> (lastEmitted >= seq \/ \A i \in 1..Len(m.results) : m.results[i].seq # seq)

===============================================================================
