------------------------------ MODULE EventStore ------------------------------
(***************************************************************************)
(* What a flow controller promises the host between two resets, whichever  *)
(* program plays it: the firmware (Firmware.tla) and the Python simulator  *)
(* (SimulatedDevice.tla) both implement this specification.                *)
(*                                                                         *)
(* An event is numbered once, in order.  An open event is never lost: it   *)
(* stays open with at least its pulses or is retained as a result, for     *)
(* which a slot was kept free; a result leaves only when the host releases *)
(* it; and every counted pulse is in an event or in the spill counter.     *)
(* One step may close an event, open another and close that one too (a     *)
(* batch of edges does), so a step is described by what it adds.           *)
(***************************************************************************)
EXTENDS Integers, FiniteSetsExt

CONSTANTS Sids, NoSid, Capacity, MaxSeq, MaxLifetime, MaxResultPulses

VARIABLES
  next,     \* next event sequence
  open,     \* the open event, or NoEvent
  retained, \* results not yet released
  counted,  \* pulses accepted since the reset
  spilled   \* pulses kept outside any event

vars == <<next, open, retained, counted, spilled>>

NoEvent == [seq |-> 0, sid |-> NoSid, pulses |-> 0]

Event(e) == [seq |-> e.seq, sid |-> e.sid, pulses |-> e.pulses]

Fresh == retained' \ retained
Opened == IF open' = NoEvent THEN {} ELSE {open'}

(* The events a step leaves behind that were not retained before it. *)
Left == {Event(r) : r \in Fresh} \cup Opened

Pulses(events) == MapThenSumSet(LAMBDA e : e.pulses, events)

Init ==
  /\ next = 1
  /\ open = NoEvent
  /\ retained = {}
  /\ counted = 0
  /\ spilled = 0

(* The open event is still there, with no fewer pulses. *)
Continues ==
  open # NoEvent =>
    \E e \in Left : e.seq = open.seq /\ e.sid = open.sid /\ e.pulses >= open.pulses

(* Every other event of the step takes the next sequence, each its own. *)
Numbered ==
  /\ {e.seq : e \in Left} \ {open.seq} = next..(next' - 1)
  /\ Cardinality({e.seq : e \in Left}) = Cardinality(Left)
  /\ next' <= MaxSeq + 1

(* The new events are unattributed, but for the session the step arms. *)
OpensOnly(armed) ==
  \A e \in Left : e.seq >= next => (e \in armed \/ (e.sid = NoSid /\ e.pulses > 0))

(* A result says how its event ended, and there is room for the open one.  *)
ClosesWell ==
  /\ \A r \in Fresh : r.status \in {"complete", "timed_out", "interrupted"}
  /\ \A r \in Fresh : r.status = "timed_out" => r.pulses = 0
  /\ \A r \in Fresh : r.pulses = 0 => r.status = "timed_out" \/ counted' = MaxLifetime
  /\ Cardinality(retained') + Cardinality(Opened) <= Capacity

(* No pulse is invented.  None is lost but to a saturated counter, or to   *)
(* an exhausted sequence.                                                  *)
Conserves ==
  LET gained == Pulses(Left) - open.pulses + spilled' - spilled
      accepted == counted' - counted
  IN  /\ 0 <= gained /\ gained <= accepted
      /\ spilled <= spilled'
      /\ \/ gained = accepted
         \/ counted' = MaxLifetime \/ spilled' = MaxLifetime \/ next' > MaxSeq
         \/ \E r \in Fresh : r.pulses = MaxResultPulses

Progress(gone, armed) ==
  /\ retained \ retained' = gone
  /\ Continues
  /\ Numbered
  /\ OpensOnly(armed)
  /\ ClosesWell
  /\ Conserves

(* Pulses are counted and timers fire. *)
Work == Progress({}, {})

(* The host's session becomes the open event. *)
Arm(sid) ==
  /\ open' = [seq |-> next' - 1, sid |-> sid, pulses |-> 0]
  /\ next' > next
  /\ Progress({}, {open'})

(* A session nothing was poured in is forgotten. *)
Abandon ==
  /\ open.sid # NoSid
  /\ open.pulses = 0
  /\ open' = NoEvent
  /\ UNCHANGED <<next, retained, counted, spilled>>

(* The host has the result. *)
Release(r) == Progress({r}, {})

(* Everything is RAM. *)
Reset ==
  /\ next' = 1
  /\ open' = NoEvent
  /\ retained' = {}
  /\ counted' = 0
  /\ spilled' = 0

Next ==
  \/ Work
  \/ \E sid \in Sids : Arm(sid)
  \/ Abandon
  \/ \E r \in retained : Release(r)
  \/ Reset

Spec == Init /\ [][Next]_vars
===============================================================================
