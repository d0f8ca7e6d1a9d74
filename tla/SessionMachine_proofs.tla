------------------------ MODULE SessionMachine_proofs -------------------------
(***************************************************************************)
(* Every method of the session machine keeps a good machine good, for      *)
(* every store capacity, counter width, clock width and timer setting.     *)
(* One lemma per operator: the proofs about Firmware and PourSystem rest   *)
(* on them, because their actions only compose these operators.            *)
(***************************************************************************)
EXTENDS SessionMachine, TLAPS, SequenceTheorems, WellFoundedInduction

USE SidsAssumption, WidthAssumption

LEMMA WrapType ==
  ASSUME NEW t \in Int
  PROVE  Wrap(t) \in 0..(ClockModulus - 1)
BY ClockAssumption DEF Wrap

LEMMA NewMachineGood == GoodMachine(NewMachine)
BY DEF GoodMachine, NewMachine, Machine, Active, NoActive, Result, StateAgrees,
       SlotReserved, SequencesOrdered, PulsesDisjoint, TimeoutsMatchPulses,
       LiveStates, TerminalStates, DeviceStates, Times

LEMMA FinalizeGood ==
  ASSUME NEW mm, GoodMachine(mm), NEW status \in TerminalStates,
         status = "timed_out" => mm.active.pulses = 0,
         status = "complete" => mm.active.pulses > 0
  PROVE  GoodMachine(Finalize(mm, status))
<1> DEFINE r == [seq |-> mm.active.seq, sid |-> mm.active.sid, status |-> status,
                 pulses |-> mm.active.pulses, life |-> mm.lifetime]
           f == Finalize(mm, status)
<1>1. CASE ~mm.active.present \/ Full(mm)
  BY <1>1 DEF Finalize
<1>2. CASE mm.active.present /\ ~Full(mm)
  <2>1. /\ mm \in Machine
        /\ mm.active \in Active
        /\ mm.results \in Seq(Result)
    BY DEF GoodMachine, Machine
  <2>2. r \in Result
    BY <2>1 DEF Result, Active, GoodMachine, Machine
  <2>3. f = [mm EXCEPT !.results = Append(mm.results, r),
                       !.active = NoActive, !.state = status]
    BY <1>2 DEF Finalize
  <2>4. /\ f.results = Append(mm.results, r)
        /\ f.active = NoActive
        /\ f.state = status
        /\ f.next = mm.next
        /\ f.lifetime = mm.lifetime
    BY <2>1, <2>3 DEF Machine
  <2>5. f \in Machine
    <3>1. NoActive \in Active
      BY DEF Active, NoActive, Times
    <3>2. Append(mm.results, r) \in Seq(Result)
      BY <2>1, <2>2
    <3>3. status \in DeviceStates
      BY DEF DeviceStates
    <3> HIDE DEF r, f
    <3> QED BY <2>1, <2>3, <3>1, <3>2, <3>3 DEF Machine
  <2>6. /\ Len(f.results) = Len(mm.results) + 1
        /\ \A i \in 1..Len(mm.results) : f.results[i] = mm.results[i]
        /\ f.results[Len(mm.results) + 1] = r
    BY <2>1, <2>2, <2>4
  <2>7. StateAgrees(f)
    BY <2>4 DEF StateAgrees, NoActive, TerminalStates, LiveStates
  <2>8. SlotReserved(f)
    BY <1>2, <2>1, <2>4, <2>6 DEF SlotReserved, GoodMachine, NoActive
  <2>9. SequencesOrdered(f)
    <3>1. SequencesOrdered(mm)
      BY DEF GoodMachine
    <3>2. \A i, j \in 1..Len(f.results) : i < j => f.results[i].seq < f.results[j].seq
      <4> SUFFICES ASSUME NEW i \in 1..Len(f.results), NEW j \in 1..Len(f.results), i < j
                   PROVE  f.results[i].seq < f.results[j].seq
        OBVIOUS
      <4>1. i \in 1..Len(mm.results)
        BY <2>1, <2>6
      <4>2. CASE j \in 1..Len(mm.results)
        BY <3>1, <4>1, <4>2, <2>6 DEF SequencesOrdered
      <4>3. CASE j = Len(mm.results) + 1
        BY <1>2, <3>1, <4>1, <4>3, <2>6 DEF SequencesOrdered
      <4> QED BY <4>2, <4>3, <2>1, <2>6
    <3>3. \A i \in 1..Len(f.results) : f.results[i].seq \in 1..(f.next - 1)
      BY <1>2, <3>1, <2>1, <2>4, <2>6 DEF SequencesOrdered
    <3> QED BY <3>1, <3>2, <3>3, <2>4 DEF SequencesOrdered, NoActive
  <2>10. PulsesDisjoint(f)
    <3>1. PulsesDisjoint(mm)
      BY DEF GoodMachine
    <3>2. \A i \in 1..Len(f.results) : f.results[i].pulses <= f.results[i].life
      BY <3>1, <2>1, <2>6, SMTT(40) DEF PulsesDisjoint
    <3>3. \A i, j \in 1..Len(f.results) :
            i < j => f.results[i].life <= f.results[j].life - f.results[j].pulses
      <4> SUFFICES ASSUME NEW i \in 1..Len(f.results), NEW j \in 1..Len(f.results), i < j
                   PROVE  f.results[i].life <= f.results[j].life - f.results[j].pulses
        OBVIOUS
      <4>1. i \in 1..Len(mm.results)
        BY <2>1, <2>6
      <4>2. CASE j \in 1..Len(mm.results)
        BY <3>1, <4>1, <4>2, <2>6 DEF PulsesDisjoint
      <4>3. CASE j = Len(mm.results) + 1
        BY <3>1, <4>1, <4>3, <2>6 DEF PulsesDisjoint
      <4> QED BY <4>2, <4>3, <2>1, <2>6
    <3>4. \A i \in 1..Len(f.results) : f.results[i].life <= f.lifetime - f.active.pulses
      <4> SUFFICES ASSUME NEW i \in 1..Len(f.results)
                   PROVE  f.results[i].life <= f.lifetime - f.active.pulses
        OBVIOUS
      <4>1. f.active.pulses = 0 /\ f.lifetime = mm.lifetime /\ mm.lifetime \in Nat
        BY <2>1, <2>4 DEF NoActive, Machine
      <4>2. CASE i \in 1..Len(mm.results)
        <5>1. mm.results[i].life <= mm.lifetime - mm.active.pulses
          BY <3>1, <4>2 DEF PulsesDisjoint
        <5>2. mm.results[i].life \in Nat
          <6>1. mm.results[i] \in Result
            BY <2>1, <4>2
          <6> QED BY <6>1 DEF Result
        <5>3. mm.active.pulses \in Nat
          BY <2>1 DEF Active
        <5>4. f.results[i].life = mm.results[i].life
          BY <4>2, <2>6
        <5> HIDE DEF f
        <5> QED BY <4>1, <5>1, <5>2, <5>3, <5>4
      <4>3. CASE i = Len(mm.results) + 1
        BY <4>1, <4>3, <2>6
      <4> QED BY <4>2, <4>3, <2>1, <2>6
    <3>5. f.active.pulses <= f.lifetime
      BY <2>1, <2>4 DEF NoActive, Machine
    <3> QED BY <3>2, <3>3, <3>4, <3>5 DEF PulsesDisjoint
  <2>11. TimeoutsMatchPulses(f)
    <3>1. TimeoutsMatchPulses(mm)
      BY DEF GoodMachine
    <3> SUFFICES ASSUME NEW i \in 1..Len(f.results)
                   PROVE  /\ f.results[i].status = "timed_out" => f.results[i].pulses = 0
                          /\ f.results[i].status = "complete"  => f.results[i].pulses > 0
      BY DEF TimeoutsMatchPulses
    <3>3. CASE i \in 1..Len(mm.results)
      BY <2>6, <3>1, <3>3 DEF TimeoutsMatchPulses
    <3>4. CASE i = Len(mm.results) + 1
      BY <2>6, <3>4
    <3> QED BY <2>1, <2>6, <3>3, <3>4
  <2>12. f.lifetime <= MaxLifetime
    BY <2>4 DEF GoodMachine
  <2> QED BY <2>5, <2>7, <2>8, <2>9, <2>10, <2>11, <2>12 DEF GoodMachine
<1> QED BY <1>1, <1>2

(* The field types of a good machine, and what its open event satisfies. *)
LEMMA GoodFields ==
  ASSUME NEW mm, GoodMachine(mm)
  PROVE  /\ mm \in Machine
         /\ mm.state \in DeviceStates
         /\ mm.active \in Active
         /\ mm.active.present \in BOOLEAN
         /\ mm.active.pulses \in Nat
         /\ mm.active.seq \in Nat
         /\ mm.active.timer \in Int
         /\ mm.results \in Seq(Result)
         /\ mm.next \in 1..MaxSeq
         /\ mm.lifetime \in 0..MaxLifetime
         /\ mm.recovery \in Nat
         /\ mm.active.present =>
              /\ mm.state = mm.active.state
              /\ mm.active.state \in {"armed", "pouring", "settling"}
              /\ (mm.active.state = "armed") <=> (mm.active.pulses = 0)
              /\ Len(mm.results) < Capacity
         /\ ~mm.active.present =>
              /\ mm.active = NoActive
              /\ mm.active.pulses = 0
              /\ mm.state \notin LiveStates
<1>1. mm \in Machine
  BY DEF GoodMachine
<1>2. mm.active \in Active
  BY <1>1 DEF Machine
<1>3. mm.next \in 1..MaxSeq /\ mm.lifetime \in 0..MaxLifetime
  BY <1>1 DEF GoodMachine, SequencesOrdered, Machine
<1>4. mm.active.present =>
        /\ mm.state = mm.active.state
        /\ mm.active.state \in {"armed", "pouring", "settling"}
        /\ (mm.active.state = "armed") <=> (mm.active.pulses = 0)
        /\ Len(mm.results) < Capacity
  BY DEF GoodMachine, StateAgrees, SlotReserved, LiveStates
<1>5. ~mm.active.present =>
        /\ mm.active = NoActive
        /\ mm.active.pulses = 0
        /\ mm.state \notin LiveStates
  BY DEF GoodMachine, StateAgrees, NoActive
<1> QED BY <1>1, <1>2, <1>3, <1>4, <1>5 DEF Machine, Active, Times

(* Replacing the open event by one of the same sequence and with no more   *)
(* pulses, in the state that goes with them, keeps the machine good.       *)
LEMMA ReplaceActiveGood ==
  ASSUME NEW mm, GoodMachine(mm), mm.active.present,
         NEW a \in Active,
         a.present, a.seq = mm.active.seq, a.state \in LiveStates,
         (a.state = "armed") <=> (a.pulses = 0),
         a.state = "armed" => a.sid \in Sids,
         \A i \in 1..Len(mm.results) : mm.results[i].life <= mm.lifetime - a.pulses,
         a.pulses <= mm.lifetime
  PROVE  GoodMachine([mm EXCEPT !.active = a, !.state = a.state])
<1> DEFINE g == [mm EXCEPT !.active = a, !.state = a.state]
<1>1. mm \in Machine
  BY DEF GoodMachine
<1>2. a.state \in DeviceStates
  BY DEF DeviceStates
<1>3. /\ g \in Machine
      /\ g.active = a
      /\ g.state = a.state
      /\ g.results = mm.results
      /\ g.next = mm.next
      /\ g.lifetime = mm.lifetime
  BY <1>1, <1>2 DEF Machine
<1> HIDE DEF g
<1>4. StateAgrees(g)
  BY <1>3 DEF StateAgrees
<1>5. SlotReserved(g)
  BY <1>3 DEF SlotReserved, GoodMachine
<1>6. SequencesOrdered(g)
  BY <1>3 DEF SequencesOrdered, GoodMachine
<1>7. PulsesDisjoint(g)
  BY <1>3 DEF PulsesDisjoint, GoodMachine
<1>8. TimeoutsMatchPulses(g) /\ g.lifetime <= MaxLifetime
  BY <1>3 DEF TimeoutsMatchPulses, GoodMachine
<1> QED BY <1>3, <1>4, <1>5, <1>6, <1>7, <1>8 DEF GoodMachine, g

LEMMA SettleGood ==
  ASSUME NEW mm, GoodMachine(mm), NEW now \in Int
  PROVE  /\ GoodMachine(Settle(mm, now))
         /\ Settle(mm, now).lifetime = mm.lifetime
         /\ Settle(mm, now).recovery = mm.recovery
<1> DEFINE gapAt == Wrap(mm.active.timer + FlowGap)
           a == [mm.active EXCEPT !.state = "settling", !.timer = Wrap(gapAt + Settling)]
           moved == [mm EXCEPT !.active = a, !.state = a.state]
<1>1. CASE mm.active.present /\ mm.active.state = "pouring" /\ Due(now, gapAt)
  <2>1. /\ mm.active \in Active
        /\ mm.active.timer \in Int
        /\ mm \in Machine
        /\ mm.active.pulses # 0
    BY <1>1, GoodFields
  <2>2. gapAt \in Int /\ Wrap(gapAt + Settling) \in Int
    BY <2>1, WrapType, ClockAssumption
  <2>3. a \in Active /\ a.state = "settling" /\ a.present /\ a.pulses = mm.active.pulses
        /\ a.seq = mm.active.seq
    BY <1>1, <2>1, <2>2 DEF Active, LiveStates, Times
  <2>4. Settle(mm, now) = moved
    BY <1>1, <2>1, <2>3 DEF Settle, Machine, Active
  <2> HIDE DEF a
  <2>5. GoodMachine(moved)
    <3>1. /\ \A i \in 1..Len(mm.results) : mm.results[i].life <= mm.lifetime - a.pulses
          /\ a.pulses <= mm.lifetime
      BY <2>3 DEF GoodMachine, PulsesDisjoint
    <3>2. a.state \in LiveStates
      BY <2>3 DEF LiveStates
    <3> QED BY <1>1, <2>1, <2>3, <3>1, <3>2, ReplaceActiveGood
  <2> QED BY <2>1, <2>4, <2>5 DEF Machine
<1>2. CASE ~(mm.active.present /\ mm.active.state = "pouring" /\ Due(now, gapAt))
  BY <1>2 DEF Settle
<1> QED BY <1>1, <1>2

(* finalize() changes neither counter. *)
LEMMA FinalizeCounters ==
  ASSUME NEW mm \in Machine, NEW status
  PROVE  /\ Finalize(mm, status).lifetime = mm.lifetime
         /\ Finalize(mm, status).recovery = mm.recovery
BY DEF Finalize, Machine

LEMMA TickGood ==
  ASSUME NEW mm, GoodMachine(mm), NEW now \in Int
  PROVE  /\ GoodMachine(Tick(mm, now))
         /\ Tick(mm, now).lifetime = mm.lifetime
<1> DEFINE s == Settle(mm, now)
<1>1. CASE mm.active.present /\ mm.active.state = "armed" /\ Due(now, mm.active.timer)
  <2>1. mm.active.pulses = 0 /\ mm \in Machine
    BY <1>1, GoodFields
  <2>2. Tick(mm, now) = Finalize(mm, "timed_out")
    BY <1>1 DEF Tick
  <2>3. "timed_out" \in TerminalStates
    BY DEF TerminalStates
  <2> QED BY <2>1, <2>2, <2>3, FinalizeGood, FinalizeCounters
<1>2. CASE ~(mm.active.present /\ mm.active.state = "armed" /\ Due(now, mm.active.timer))
  <2>1. GoodMachine(s) /\ s.lifetime = mm.lifetime
    BY SettleGood
  <2>2. Tick(mm, now) =
          IF s.active.present /\ s.active.state = "settling" /\ Due(now, s.active.timer)
          THEN Finalize(s, "complete") ELSE s
    BY <1>2 DEF Tick
  <2> HIDE DEF s
  <2>3. CASE s.active.present /\ s.active.state = "settling"
    <3>1. s.active.pulses > 0 /\ s \in Machine
      BY <2>1, <2>3, GoodFields
    <3>2. "complete" \in TerminalStates
      BY DEF TerminalStates
    <3>3. GoodMachine(Finalize(s, "complete"))
      BY <2>1, <3>1, <3>2, FinalizeGood
    <3> QED BY <2>1, <2>2, <3>1, <3>3, FinalizeCounters
  <2>4. CASE ~(s.active.present /\ s.active.state = "settling")
    BY <2>1, <2>2, <2>4
  <2> QED BY <2>3, <2>4
<1> QED BY <1>1, <1>2

LEMMA TickIfLateGood ==
  ASSUME NEW mm, GoodMachine(mm), NEW captured \in Int
  PROVE  GoodMachine(TickIfLate(mm, captured))
BY TickGood DEF TickIfLate

-------------------------------------------------------------------------------
(* add_pulses() counts the batch before it gives it to an event: in        *)
(* between, the newest count pulses of the lifetime belong to no event.    *)
Unclaimed(mm, count) ==
  /\ \A i \in 1..Len(mm.results) :
        mm.results[i].life <= mm.lifetime - (mm.active.pulses + count)
  /\ mm.active.pulses + count <= mm.lifetime

LEMMA GrowLifetimeGood ==
  ASSUME NEW mm, GoodMachine(mm), NEW count \in Nat,
         mm.lifetime + count <= MaxLifetime
  PROVE  LET u == [mm EXCEPT !.lifetime = mm.lifetime + count]
         IN  GoodMachine(u) /\ Unclaimed(u, count)
<1> DEFINE total == mm.lifetime + count
           u == [mm EXCEPT !.lifetime = total]
<1>1. /\ mm \in Machine
      /\ mm.lifetime \in Nat
      /\ mm.active.pulses \in Nat
      /\ mm.results \in Seq(Result)
      /\ total \in Nat
  BY GoodFields
<1> HIDE DEF total
<1>2. /\ u \in Machine
      /\ u.state = mm.state
      /\ u.active = mm.active
      /\ u.results = mm.results
      /\ u.next = mm.next
      /\ u.lifetime = mm.lifetime + count
  BY <1>1 DEF Machine, total
<1> HIDE DEF u
<1>3. StateAgrees(u) /\ SlotReserved(u) /\ SequencesOrdered(u) /\ TimeoutsMatchPulses(u)
  BY <1>2 DEF GoodMachine, StateAgrees, SlotReserved, SequencesOrdered, TimeoutsMatchPulses
<1>4. \A i \in 1..Len(mm.results) :
        /\ mm.results[i].life \in Nat
        /\ mm.results[i].life <= mm.lifetime - mm.active.pulses
  <2> SUFFICES ASSUME NEW i \in 1..Len(mm.results)
               PROVE  /\ mm.results[i].life \in Nat
                      /\ mm.results[i].life <= mm.lifetime - mm.active.pulses
    OBVIOUS
  <2>1. mm.results[i] \in Result
    BY <1>1
  <2> QED BY <2>1 DEF GoodMachine, PulsesDisjoint, Result
<1>5. PulsesDisjoint(mm)
  BY DEF GoodMachine
<1>6. Unclaimed(u, count)
  BY <1>1, <1>2, <1>4, <1>5 DEF Unclaimed, PulsesDisjoint
<1>7. \A i \in 1..Len(u.results) : u.results[i].life <= u.lifetime - u.active.pulses
  BY <1>1, <1>2, <1>4, SMTT(40)
<1>8. PulsesDisjoint(u)
  BY <1>1, <1>2, <1>5, <1>7 DEF PulsesDisjoint
<1> QED BY <1>2, <1>3, <1>6, <1>8 DEF GoodMachine, u, total

LEMMA AccumulateGood ==
  ASSUME NEW mm, GoodMachine(mm), mm.active.present,
         NEW count \in Nat \ {0}, Unclaimed(mm, count), NEW captured \in Int
  PROVE  GoodMachine(Accumulate(mm, count, captured))
<1>1. /\ mm \in Machine
      /\ mm.active \in Active
      /\ mm.active.pulses \in Nat
      /\ mm.lifetime \in Nat
      /\ mm.results \in Seq(Result)
      /\ mm.state = mm.active.state
      /\ mm.active.state \in {"armed", "pouring", "settling"}
  BY GoodFields
<1>2. \A i \in 1..Len(mm.results) : mm.results[i].life \in Nat
  <2> SUFFICES ASSUME NEW i \in 1..Len(mm.results) PROVE mm.results[i].life \in Nat
    OBVIOUS
  <2>1. mm.results[i] \in Result
    BY <1>1
  <2> QED BY <2>1 DEF Result
<1>3. CASE mm.active.pulses > MaxResultPulses \/ MaxResultPulses - mm.active.pulses < count
  \* The clamped event may still be marked armed, with no finalize to come
  \* between: so the clamp and finalize() are taken as one step.
  <2> DEFINE a == [mm.active EXCEPT !.pulses = MaxResultPulses, !.state = "pouring"]
             g == [mm EXCEPT !.active = a, !.state = a.state]
             clamped == [mm EXCEPT !.active.pulses = MaxResultPulses]
  <2>1. /\ a \in Active
        /\ a.present
        /\ a.state = "pouring"
        /\ a.seq = mm.active.seq
        /\ a.sid = mm.active.sid
        /\ a.pulses = MaxResultPulses
    BY <1>1 DEF Active, LiveStates
  <2> HIDE DEF a
  <2>2. MaxResultPulses <= mm.active.pulses + count
    BY <1>1, <1>3
  <2>3. GoodMachine(g)
    <3>1. a.pulses <= mm.lifetime
      BY <1>1, <2>1, <2>2 DEF Unclaimed
    <3>2. \A i \in 1..Len(mm.results) : mm.results[i].life <= mm.lifetime - a.pulses
      BY <1>1, <1>2, <2>1, <2>2, SMTT(40) DEF Unclaimed
    <3>3. a.state \in LiveStates /\ a.pulses # 0
      BY <2>1 DEF LiveStates
    <3> QED BY <2>1, <3>1, <3>2, <3>3, ReplaceActiveGood
  <2>4. /\ clamped.active.present
        /\ clamped.active.seq = a.seq
        /\ clamped.active.sid = a.sid
        /\ clamped.active.pulses = a.pulses
        /\ clamped.results = mm.results
        /\ clamped.lifetime = mm.lifetime
        /\ clamped \in Machine
    BY <1>1, <2>1 DEF Machine, Active, a
  <2>5. /\ g.active.present
        /\ g.active.seq = a.seq
        /\ g.active.sid = a.sid
        /\ g.active.pulses = a.pulses
        /\ g.results = mm.results
        /\ g.lifetime = mm.lifetime
        /\ g \in Machine
    BY <1>1, <2>1, <2>3, GoodFields DEF Machine
  <2> HIDE DEF g, clamped
  <2>6. Len(mm.results) < Capacity
    BY GoodFields
  <2>7. Finalize(clamped, "interrupted") = Finalize(g, "interrupted")
    <3> DEFINE r == [seq |-> a.seq, sid |-> a.sid, status |-> "interrupted",
                     pulses |-> a.pulses, life |-> mm.lifetime]
    <3>1. Finalize(clamped, "interrupted") =
            [clamped EXCEPT !.results = Append(mm.results, r), !.active = NoActive,
                            !.state = "interrupted"]
      BY <1>1, <2>4, <2>6 DEF Finalize, Full
    <3>2. Finalize(g, "interrupted") =
            [g EXCEPT !.results = Append(mm.results, r), !.active = NoActive,
                      !.state = "interrupted"]
      BY <1>1, <2>5, <2>6 DEF Finalize, Full
    <3> HIDE DEF r
    <3> QED BY <1>1, <3>1, <3>2, ZenonT(60) DEF Machine, g, clamped
  <2>8. "interrupted" \in TerminalStates
    BY DEF TerminalStates
  <2>9. GoodMachine(Finalize(g, "interrupted"))
    BY <2>3, <2>8, FinalizeGood
  <2> QED BY <1>3, <2>7, <2>9 DEF Accumulate, clamped
<1>4. CASE ~(mm.active.pulses > MaxResultPulses \/ MaxResultPulses - mm.active.pulses < count)
  <2> DEFINE total == mm.active.pulses + count
             a == [mm.active EXCEPT !.pulses = total, !.timer = captured,
                                    !.state = "pouring"]
  <2>0. total \in Nat /\ total # 0
    BY <1>1
  <2> HIDE DEF total
  <2>1. /\ a \in Active
        /\ a.present
        /\ a.state = "pouring"
        /\ a.seq = mm.active.seq
        /\ a.pulses = total
    BY <1>1, <2>0 DEF Active, LiveStates, Times
  <2>2. Accumulate(mm, count, captured) = [mm EXCEPT !.active = a, !.state = a.state]
    BY <1>1, <1>4, <2>1 DEF Accumulate, Machine, Active, total
  <2> HIDE DEF a
  <2>3. /\ a.state \in LiveStates
        /\ a.pulses # 0
        /\ a.pulses <= mm.lifetime
        /\ \A i \in 1..Len(mm.results) : mm.results[i].life <= mm.lifetime - a.pulses
    BY <1>1, <2>0, <2>1 DEF LiveStates, Unclaimed, total
  <2>4. GoodMachine([mm EXCEPT !.active = a, !.state = a.state])
    BY <2>1, <2>3, ReplaceActiveGood
  <2> QED BY <2>2, <2>4
<1> QED BY <1>3, <1>4

LEMMA AddRecoveryGood ==
  ASSUME NEW mm, GoodMachine(mm), NEW count \in Nat
  PROVE  GoodMachine(AddRecovery(mm, count))
<1> DEFINE total == IF MaxLifetime - mm.recovery < count
                    THEN MaxLifetime ELSE mm.recovery + count
           g == [mm EXCEPT !.recovery = total]
<1>1. mm \in Machine /\ total \in Nat
  BY GoodFields
<1> HIDE DEF total
<1>2. /\ g \in Machine
      /\ g.state = mm.state
      /\ g.active = mm.active
      /\ g.results = mm.results
      /\ g.next = mm.next
      /\ g.lifetime = mm.lifetime
  BY <1>1 DEF Machine
<1> HIDE DEF g
<1>3. GoodMachine(g)
  BY <1>2 DEF GoodMachine, StateAgrees, SlotReserved, SequencesOrdered,
              PulsesDisjoint, TimeoutsMatchPulses
<1> QED BY <1>3 DEF AddRecovery, g, total

(* Opening an event with the next sequence, for ARM and for an edge that   *)
(* belongs to no session.                                                  *)
LEMMA OpenEventGood ==
  ASSUME NEW mm, GoodMachine(mm), ~mm.active.present, ~Full(mm), mm.next # MaxSeq,
         NEW a \in Active,
         a.present, a.seq = mm.next, a.state \in LiveStates,
         (a.state = "armed") <=> (a.pulses = 0),
         a.state = "armed" => a.sid \in Sids,
         Unclaimed(mm, a.pulses)
  PROVE  GoodMachine([mm EXCEPT !.active = a, !.next = mm.next + 1, !.state = a.state])
<1> DEFINE succ == mm.next + 1
           g == [mm EXCEPT !.active = a, !.next = succ, !.state = a.state]
<1>1. /\ mm \in Machine
      /\ mm.next \in 1..MaxSeq
      /\ mm.active.pulses = 0
      /\ mm.lifetime \in Nat
      /\ a.pulses \in Nat
      /\ mm.results \in Seq(Result)
      /\ Len(mm.results) \in Nat
  BY GoodFields DEF Active
<1>2. a.state \in DeviceStates /\ succ \in 1..MaxSeq /\ succ \in Nat
  BY <1>1 DEF DeviceStates
<1> HIDE DEF succ
<1>3. /\ g \in Machine
      /\ g.active = a
      /\ g.state = a.state
      /\ g.results = mm.results
      /\ g.next = succ
      /\ g.lifetime = mm.lifetime
  BY <1>1, <1>2 DEF Machine
<1> HIDE DEF g
<1>4. StateAgrees(g)
  BY <1>3 DEF StateAgrees
<1>5. SlotReserved(g)
  BY <1>1, <1>3 DEF SlotReserved, Full, GoodMachine
<1>6. SequencesOrdered(g)
  <2>1. SequencesOrdered(mm)
    BY DEF GoodMachine
  <2>2. \A i \in 1..Len(mm.results) : mm.results[i].seq \in 1..(mm.next - 1)
    BY <2>1 DEF SequencesOrdered
  <2>3. \A i \in 1..Len(g.results) :
           g.results[i].seq \in 1..(g.next - 1) /\ g.results[i].seq < g.active.seq
    BY <1>1, <1>2, <1>3, <2>2 DEF succ
  <2>4. g.active.seq \in 1..(g.next - 1)
    BY <1>1, <1>2, <1>3 DEF succ
  <2> QED BY <1>2, <1>3, <2>1, <2>3, <2>4 DEF SequencesOrdered
<1>7. PulsesDisjoint(g)
  <2>1. PulsesDisjoint(mm)
    BY DEF GoodMachine
  <2> QED BY <1>1, <1>3, <2>1 DEF PulsesDisjoint, Unclaimed
<1>8. TimeoutsMatchPulses(g) /\ g.lifetime <= MaxLifetime
  BY <1>3 DEF TimeoutsMatchPulses, GoodMachine
<1> QED BY <1>3, <1>4, <1>5, <1>6, <1>7, <1>8 DEF GoodMachine, g, succ

LEMMA OpenUnattributedGood ==
  ASSUME NEW mm, GoodMachine(mm), ~mm.active.present,
         NEW count \in Nat \ {0}, Unclaimed(mm, count), NEW captured \in Int
  PROVE  GoodMachine(OpenUnattributed(mm, count, captured))
<1> DEFINE a == [present |-> TRUE, seq |-> mm.next, sid |-> NoSid,
                 state |-> "pouring", pulses |-> count, timer |-> captured]
<1>1. CASE Full(mm) \/ mm.next = MaxSeq
  BY <1>1, AddRecoveryGood DEF OpenUnattributed
<1>2. CASE ~(Full(mm) \/ mm.next = MaxSeq)
  <2>1. /\ a \in Active
        /\ a.present
        /\ a.seq = mm.next
        /\ a.state = "pouring"
        /\ a.state \in LiveStates
        /\ a.pulses = count
    BY GoodFields DEF Active, LiveStates, Times
  <2>2. OpenUnattributed(mm, count, captured) =
          [mm EXCEPT !.active = a, !.next = mm.next + 1, !.state = a.state]
    BY <1>2 DEF OpenUnattributed
  <2> HIDE DEF a
  <2>3. GoodMachine([mm EXCEPT !.active = a, !.next = mm.next + 1, !.state = a.state])
    BY <1>2, <2>1, OpenEventGood
  <2> QED BY <2>2, <2>3
<1> QED BY <1>1, <1>2

LEMMA SaturateLifetimeGood ==
  ASSUME NEW mm, GoodMachine(mm)
  PROVE  GoodMachine(SaturateLifetime(mm))
<1> DEFINE u == [mm EXCEPT !.lifetime = MaxLifetime]
<1>1. GoodMachine(u)
  <2> DEFINE rest == MaxLifetime - mm.lifetime
             grown(n) == [mm EXCEPT !.lifetime = mm.lifetime + n]
  <2>1. mm.lifetime \in 0..MaxLifetime /\ mm \in Machine
    BY GoodFields
  <2>2. rest \in Nat /\ mm.lifetime + rest = MaxLifetime /\ mm.lifetime + rest <= MaxLifetime
    BY <2>1
  <2> HIDE DEF rest
  <2>3. GoodMachine(grown(rest))
    BY <2>2, GrowLifetimeGood
  <2> QED BY <2>2, <2>3
<1>2. "interrupted" \in TerminalStates
  BY DEF TerminalStates
<1> HIDE DEF u
<1>3. GoodMachine(Finalize(u, "interrupted"))
  BY <1>1, <1>2, FinalizeGood
<1> QED BY <1>1, <1>3 DEF SaturateLifetime, u

LEMMA AddPulsesGood ==
  ASSUME NEW mm, GoodMachine(mm), NEW count \in Nat \ {0}, NEW captured \in Int
  PROVE  GoodMachine(AddPulses(mm, count, captured))
<1> DEFINE t == TickIfLate(mm, captured)
           u == [t EXCEPT !.lifetime = t.lifetime + count]
<1>1. GoodMachine(t)
  BY TickIfLateGood
<1> HIDE DEF t
<1>2. t \in Machine /\ t.lifetime \in Nat
  BY <1>1, GoodFields
<1>3. CASE MaxLifetime - t.lifetime < count
  BY <1>1, <1>3, SaturateLifetimeGood DEF AddPulses, t
<1>4. CASE ~(MaxLifetime - t.lifetime < count)
  <2>1. GoodMachine(u) /\ Unclaimed(u, count)
    <3>1. t.lifetime + count <= MaxLifetime
      BY <1>2, <1>4
    <3> QED BY <1>1, <3>1, GrowLifetimeGood
  <2> HIDE DEF u
  <2>2. CASE u.active.present
    <3>1. GoodMachine(Accumulate(u, count, captured))
      BY <2>1, <2>2, AccumulateGood
    <3> QED BY <1>4, <2>2, <3>1 DEF AddPulses, t, u
  <2>3. CASE ~u.active.present
    <3>1. GoodMachine(OpenUnattributed(u, count, captured))
      BY <2>1, <2>3, OpenUnattributedGood
    <3> QED BY <1>4, <2>3, <3>1 DEF AddPulses, t, u
  <2> QED BY <2>2, <2>3
<1> QED BY <1>3, <1>4

LEMMA AddBatchGood ==
  ASSUME NEW mm, GoodMachine(mm), NEW count \in Nat \ {0},
         NEW first \in Int, NEW last \in Int
  PROVE  GoodMachine(AddBatch(mm, count, first, last))
<1>1. GoodMachine(AddPulses(mm, 1, first))
  BY AddPulsesGood
<1>2. CASE count = 1
  BY <1>1, <1>2 DEF AddBatch
<1>3. CASE count # 1
  <2>1. count - 1 \in Nat \ {0}
    BY <1>3
  <2>2. GoodMachine(AddPulses(AddPulses(mm, 1, first), count - 1, last))
    BY <1>1, <2>1, AddPulsesGood
  <2> QED BY <1>3, <2>2 DEF AddBatch
<1> QED BY <1>2, <1>3

LEMMA MarkSaturatedGood ==
  ASSUME NEW mm, GoodMachine(mm)
  PROVE  GoodMachine(MarkSaturated(mm))
BY FinalizeGood DEF MarkSaturated, TerminalStates

-------------------------------------------------------------------------------
LEMMA ArmGood ==
  ASSUME NEW mm, GoodMachine(mm), NEW seq \in Nat, NEW sid \in Sids,
         NEW now \in Int, NEW ttl \in Nat
  PROVE  GoodMachine(Arm(mm, seq, sid, now, ttl))
<1> DEFINE a == [present |-> TRUE, seq |-> mm.next, sid |-> sid,
                 state |-> "armed", pulses |-> 0, timer |-> Wrap(now + ttl)]
<1>1. CASE ArmReply(mm, seq, sid) # "ok"
  BY <1>1 DEF Arm
<1>2. CASE ArmReply(mm, seq, sid) = "ok"
  <2>1. ~mm.active.present /\ ~Full(mm) /\ mm.next # MaxSeq
    BY <1>2 DEF ArmReply
  <2>2. Wrap(now + ttl) \in Int
    <3>1. now + ttl \in Int
      OBVIOUS
    <3> QED BY <3>1, WrapType
  <2>3. /\ a \in Active
        /\ a.present
        /\ a.seq = mm.next
        /\ a.sid \in Sids
        /\ a.state = "armed"
        /\ a.state \in LiveStates
        /\ a.pulses = 0
    BY <2>2, GoodFields DEF Active, LiveStates, Times
  <2>4. Unclaimed(mm, 0)
    <3>1. mm.active.pulses = 0 /\ PulsesDisjoint(mm)
      BY <2>1, GoodFields DEF GoodMachine
    <3> QED BY <3>1 DEF Unclaimed, PulsesDisjoint
  <2>5. Arm(mm, seq, sid, now, ttl) =
          [mm EXCEPT !.active = a, !.next = mm.next + 1, !.state = a.state]
    BY <1>2 DEF Arm
  <2> HIDE DEF a
  <2>6. GoodMachine([mm EXCEPT !.active = a, !.next = mm.next + 1, !.state = a.state])
    BY <2>1, <2>3, <2>4, OpenEventGood
  <2> QED BY <2>5, <2>6
<1> QED BY <1>1, <1>2

LEMMA CancelGood ==
  ASSUME NEW mm, GoodMachine(mm), NEW seq \in Nat, NEW sid \in Sids
  PROVE  GoodMachine(Cancel(mm, seq, sid))
<1>1. CASE CancelReply(mm, seq, sid) # "ok"
  BY <1>1 DEF Cancel
<1>2. CASE CancelReply(mm, seq, sid) = "ok" /\ mm.active.pulses = 0
  <2> DEFINE g == [mm EXCEPT !.active = NoActive, !.state = "idle"]
  <2>1. Cancel(mm, seq, sid) = g
    BY <1>2 DEF Cancel
  <2>2. NoActive \in Active
    BY DEF Active, NoActive, Times
  <2>3. "idle" \in DeviceStates /\ mm \in Machine
    BY GoodFields DEF DeviceStates
  <2>4. /\ g \in Machine
        /\ g.active = NoActive
        /\ g.state = "idle"
        /\ g.results = mm.results
        /\ g.next = mm.next
        /\ g.lifetime = mm.lifetime
    BY <2>2, <2>3 DEF Machine
  <2> HIDE DEF g
  <2>5. NoActive.present = FALSE /\ NoActive.pulses = 0
    BY DEF NoActive
  <2>6. StateAgrees(g)
    BY <2>4, <2>5 DEF StateAgrees, LiveStates
  <2>7. SlotReserved(g) /\ SequencesOrdered(g) /\ TimeoutsMatchPulses(g)
    BY <2>4, <2>5 DEF SlotReserved, SequencesOrdered, TimeoutsMatchPulses, GoodMachine
  <2>8. PulsesDisjoint(g)
    BY <1>2, <2>4, <2>5 DEF PulsesDisjoint, GoodMachine
  <2> QED BY <2>1, <2>4, <2>6, <2>7, <2>8 DEF GoodMachine
<1>3. CASE CancelReply(mm, seq, sid) = "ok" /\ mm.active.pulses # 0
  BY <1>3, FinalizeGood DEF Cancel, TerminalStates
<1> QED BY <1>1, <1>2, <1>3

(* Dropping one retained result: the others keep their order. *)
LEMMA WithoutResult ==
  ASSUME NEW s \in Seq(Result), NEW i \in 1..Len(s)
  PROVE  /\ Without(s, i) \in Seq(Result)
         /\ Len(Without(s, i)) = Len(s) - 1
         /\ \A j \in 1..Len(Without(s, i)) :
               Without(s, i)[j] = s[IF j < i THEN j ELSE j + 1]
<1>1. Len(s) - 1 \in Nat
  OBVIOUS
<1>2. \A j \in 1..(Len(s) - 1) : (IF j < i THEN s[j] ELSE s[j + 1]) \in Result
  <2> SUFFICES ASSUME NEW j \in 1..(Len(s) - 1)
               PROVE  (IF j < i THEN s[j] ELSE s[j + 1]) \in Result
    OBVIOUS
  <2>1. j \in 1..Len(s) /\ j + 1 \in 1..Len(s)
    OBVIOUS
  <2>2. s[j] \in Result /\ s[j + 1] \in Result
    BY <2>1
  <2> QED BY <2>2
<1>3. Without(s, i) \in [1..(Len(s) - 1) -> Result]
  BY <1>2 DEF Without
<1>4. Without(s, i) \in Seq(Result)
  BY <1>1, <1>3, SeqDef
<1>5. Len(Without(s, i)) = Len(s) - 1
  BY <1>1, <1>3, <1>4
<1> QED BY <1>4, <1>5 DEF Without

LEMMA AcknowledgeGood ==
  ASSUME NEW mm, GoodMachine(mm), NEW seq \in Nat
  PROVE  GoodMachine(Acknowledge(mm, seq))
<1>1. CASE \A i \in 1..Len(mm.results) : mm.results[i].seq # seq
  BY <1>1 DEF Acknowledge
<1>2. CASE ~(\A i \in 1..Len(mm.results) : mm.results[i].seq # seq)
  <2> DEFINE First(i) == /\ mm.results[i].seq = seq
                         /\ \A j \in 1..(i - 1) : mm.results[j].seq # seq
             i == CHOOSE k \in 1..Len(mm.results) : First(k)
             rest == Without(mm.results, i)
             after == IF ~mm.active.present /\ mm.state \in TerminalStates
                      THEN "idle" ELSE mm.state
             g == [mm EXCEPT !.results = rest, !.state = after]
  <2>1. /\ mm \in Machine
        /\ mm.results \in Seq(Result)
        /\ mm.state \in DeviceStates
        /\ Len(mm.results) \in Nat
    BY GoodFields
  <2>2. i \in 1..Len(mm.results)
    <3>1. PICK k \in 1..Len(mm.results) : mm.results[k].seq = seq
      BY <1>2
    <3>2. \A j \in 1..(k - 1) : mm.results[j].seq # seq
      \* sequences are strictly increasing, so the match is unique
      <4> SUFFICES ASSUME NEW j \in 1..(k - 1) PROVE mm.results[j].seq # seq
        OBVIOUS
      <4>1. j \in 1..Len(mm.results) /\ j < k
        BY <2>1, <3>1
      <4>2. mm.results[j].seq < mm.results[k].seq
        BY <3>1, <4>1 DEF GoodMachine, SequencesOrdered
      <4> QED BY <3>1, <4>2
    <3> QED BY <3>1, <3>2
  <2>3. Acknowledge(mm, seq) = g
    BY <1>2 DEF Acknowledge
  <2> HIDE DEF i
  <2>4. /\ rest \in Seq(Result)
        /\ Len(rest) = Len(mm.results) - 1
        /\ \A j \in 1..Len(rest) : rest[j] = mm.results[IF j < i THEN j ELSE j + 1]
    BY <2>1, <2>2, WithoutResult
  <2>5. after \in DeviceStates
    BY <2>1 DEF DeviceStates
  <2> HIDE DEF rest, after
  <2>6. /\ g \in Machine
        /\ g.active = mm.active
        /\ g.state = after
        /\ g.results = rest
        /\ g.next = mm.next
        /\ g.lifetime = mm.lifetime
    BY <2>1, <2>4, <2>5 DEF Machine
  <2> HIDE DEF g
  <2>7. \A j \in 1..Len(rest) :
           /\ (IF j < i THEN j ELSE j + 1) \in 1..Len(mm.results)
           /\ rest[j] = mm.results[IF j < i THEN j ELSE j + 1]
    BY <2>1, <2>2, <2>4
  <2>8. \A j, k \in 1..Len(rest) :
           j < k => (IF j < i THEN j ELSE j + 1) < (IF k < i THEN k ELSE k + 1)
    BY <2>2
  <2>9. StateAgrees(g)
    <3>1. StateAgrees(mm)
      BY DEF GoodMachine
    <3>2. CASE mm.active.present
      BY <2>6, <3>1, <3>2 DEF StateAgrees, after
    <3>3. CASE ~mm.active.present
      BY <2>6, <3>1, <3>3 DEF StateAgrees, after, LiveStates
    <3> QED BY <3>2, <3>3
  <2>10. SlotReserved(g)
    BY <2>1, <2>4, <2>6 DEF SlotReserved, GoodMachine
  <2>11. SequencesOrdered(g)
    <3>1. SequencesOrdered(mm)
      BY DEF GoodMachine
    <3> QED BY <2>6, <2>7, <2>8, <3>1, ZenonT(60) DEF SequencesOrdered
  <2>12. PulsesDisjoint(g)
    <3>1. PulsesDisjoint(mm)
      BY DEF GoodMachine
    <3> QED BY <2>6, <2>7, <2>8, <3>1, ZenonT(60) DEF PulsesDisjoint
  <2>13. TimeoutsMatchPulses(g) /\ g.lifetime <= MaxLifetime
    BY <2>6, <2>7 DEF TimeoutsMatchPulses, GoodMachine
  <2> QED BY <2>3, <2>6, <2>9, <2>10, <2>11, <2>12, <2>13 DEF GoodMachine
<1> QED BY <1>1, <1>2

-------------------------------------------------------------------------------
(***************************************************************************)
(* Sums of pulses.                                                         *)
(***************************************************************************)
Below == {ss \in Nat \X Nat : ss[1] < ss[2]}

LEMMA Induct ==
  ASSUME NEW S, 0 \in S, \A n \in Nat : n \in S => n + 1 \in S
  PROVE  Nat \subseteq S
<1>. DEFINE T == Nat \ S
<1>. SUFFICES ASSUME T # {} PROVE FALSE
  OBVIOUS
<1>1. IsWellFoundedOn(Below, Nat)
  BY NatLessThanWellFounded DEF OpToRel, Below
<1>2. T \in SUBSET Nat /\ T # {}
  OBVIOUS
<1>. HIDE DEF T
<1>3. PICK n \in T : \A k \in T : <<k, n>> \notin Below
  BY <1>1, <1>2, WFMin
<1>4. n \in Nat /\ n \notin S
  BY <1>3 DEF T
<1>5. n - 1 \in Nat /\ n = (n - 1) + 1
  <2>1. n # 0
    BY <1>4
  <2>. QED  BY <2>1, <1>4
<1>6. <<n - 1, n>> \in Below
  BY <1>4, <1>5 DEF Below
<1>7. n - 1 \in S
  BY <1>3, <1>5, <1>6 DEF T
<1>8. (n - 1) + 1 \in S
  BY <1>5, <1>7
<1>. QED  BY <1>4, <1>5, <1>8

(* The recursive function that TotalPulses is the last value of. *)
SumOf(s, n, sum) == sum = [i \in 0..n |-> IF i = 0 THEN 0 ELSE sum[i - 1] + s[i].pulses]

LEMMA SumExists ==
  ASSUME NEW s, NEW n \in Nat
  PROVE  \E sum : SumOf(s, n, sum)
<1>. DEFINE S == {k \in Nat : \E sum : SumOf(s, k, sum)}
<1>1. 0 \in S
  <2>1. SumOf(s, 0, [i \in 0..0 |-> 0])
    BY DEF SumOf
  <2>. QED  BY <2>1
<1>2. ASSUME NEW k \in Nat, k \in S PROVE k + 1 \in S
  <2>1. PICK sum : SumOf(s, k, sum)
    BY <1>2
  <2>. DEFINE longer == [i \in 0..k + 1 |-> IF i = k + 1 THEN sum[k] + s[k + 1].pulses ELSE sum[i]]
  <2>2. \A i \in 0..k + 1 : longer[i] = IF i = 0 THEN 0 ELSE longer[i - 1] + s[i].pulses
    <3>. TAKE i \in 0..k + 1
    <3>1. CASE i = 0
      BY <3>1, <2>1 DEF SumOf
    <3>2. CASE i = k + 1
      BY <3>2
    <3>3. CASE i \in 1..k
      BY <3>3, <2>1 DEF SumOf
    <3>. QED  BY <3>1, <3>2, <3>3
  <2>3. SumOf(s, k + 1, longer)
    BY <2>2 DEF SumOf
  <2>. QED  BY <2>3
<1>3. Nat \subseteq S
  <2>. HIDE DEF S
  <2>. QED  BY <1>1, <1>2, Induct
<1>. QED  BY <1>3

SameUpTo(s, t, n) == \A i \in 1..n : s[i] = t[i]

LEMMA SumsAgree ==
  ASSUME NEW s, NEW t, NEW n \in Nat, NEW k \in Nat, n <= k,
         SameUpTo(s, t, n),
         NEW p, SumOf(s, n, p), NEW q, SumOf(t, k, q)
  PROVE  p[n] = q[n]
<1>. DEFINE S == {i \in Nat : i <= n => p[i] = q[i]}
<1>1. 0 \in S
  BY DEF SumOf
<1>2. ASSUME NEW i \in Nat, i \in S PROVE i + 1 \in S
  <2>. SUFFICES ASSUME i + 1 <= n PROVE p[i + 1] = q[i + 1]
    OBVIOUS
  <2>1. p[i] = q[i]
    BY <1>2
  <2>2. p[i + 1] = p[i] + s[i + 1].pulses /\ q[i + 1] = q[i] + t[i + 1].pulses
    <3>1. i + 1 \in 0..n /\ i + 1 \in 0..k /\ i + 1 # 0 /\ (i + 1) - 1 = i
      OBVIOUS
    <3>. QED  BY <3>1 DEF SumOf
  <2>3. s[i + 1] = t[i + 1]
    BY DEF SameUpTo
  <2>. QED  BY <2>1, <2>2, <2>3
<1>3. Nat \subseteq S
  <2>. HIDE DEF S
  <2>. QED  BY <1>1, <1>2, Induct
<1>. QED  BY <1>3

LEMMA TotalIsSum ==
  ASSUME NEW s, NEW n \in Nat
  PROVE  \E sum : SumOf(s, n, sum) /\ TotalPulses(s, n) = sum[n]
BY SumExists, ZenonT(60) DEF TotalPulses, SumOf

(* The total reads no more than the first n results. *)
LEMMA TotalReads ==
  ASSUME NEW s, NEW t, NEW n \in Nat, \A i \in 1..n : s[i] = t[i]
  PROVE  TotalPulses(s, n) = TotalPulses(t, n)
<1>1. PICK p : SumOf(s, n, p) /\ TotalPulses(s, n) = p[n]
  BY TotalIsSum
<1>2. PICK q : SumOf(t, n, q) /\ TotalPulses(t, n) = q[n]
  BY TotalIsSum
<1>3. n <= n /\ SameUpTo(s, t, n)
  BY DEF SameUpTo
<1>4. p[n] = q[n]
  BY <1>1, <1>2, <1>3, SumsAgree
<1>. QED  BY <1>1, <1>2, <1>4

(* Nothing has no pulses, and one more result adds its own. *)
LEMMA TotalStep ==
  ASSUME NEW s, NEW n \in Nat
  PROVE  TotalPulses(s, 0) = 0 /\ TotalPulses(s, n + 1) = TotalPulses(s, n) + s[n + 1].pulses
<1>1. PICK z : SumOf(s, 0, z) /\ TotalPulses(s, 0) = z[0]
  BY TotalIsSum
<1>2. PICK p : SumOf(s, n, p) /\ TotalPulses(s, n) = p[n]
  BY TotalIsSum
<1>3. PICK q : SumOf(s, n + 1, q) /\ TotalPulses(s, n + 1) = q[n + 1]
  BY TotalIsSum
<1>4. p[n] = q[n]
  <2>1. n <= n + 1 /\ n + 1 \in Nat /\ SameUpTo(s, s, n)
    BY DEF SameUpTo
  <2>. QED  BY <1>2, <1>3, <2>1, SumsAgree
<1>5. q[n + 1] = q[n] + s[n + 1].pulses
  BY <1>3 DEF SumOf
<1>6. z[0] = 0
  BY <1>1 DEF SumOf
<1>. QED  BY <1>1, <1>2, <1>3, <1>4, <1>5, <1>6

LEMMA TotalIsNat ==
  ASSUME NEW s \in Seq(Result), NEW n \in 0..Len(s)
  PROVE  TotalPulses(s, n) \in Nat
<1>. DEFINE S == {k \in Nat : k <= n => TotalPulses(s, k) \in Nat}
<1>1. 0 \in S
  BY TotalStep
<1>2. ASSUME NEW k \in Nat, k \in S PROVE k + 1 \in S
  <2>. SUFFICES ASSUME k + 1 <= n PROVE TotalPulses(s, k + 1) \in Nat
    OBVIOUS
  <2>1. TotalPulses(s, k + 1) = TotalPulses(s, k) + s[k + 1].pulses
    BY TotalStep
  <2>2. TotalPulses(s, k) \in Nat
    BY <1>2
  <2>3. s[k + 1] \in Result
    OBVIOUS
  <2>4. s[k + 1].pulses \in Nat
    BY <2>3 DEF Result
  <2>. QED  BY <2>1, <2>2, <2>4
<1>3. Nat \subseteq S
  <2>. HIDE DEF S
  <2>. QED  BY <1>1, <1>2, Induct
<1>. QED  BY <1>3

LEMMA TotalAppend ==
  ASSUME NEW s \in Seq(Result), NEW r \in Result
  PROVE  TotalPulses(Append(s, r), Len(s) + 1) = TotalPulses(s, Len(s)) + r.pulses
<1>. DEFINE t == Append(s, r)
<1>1. /\ Len(s) \in Nat /\ t[Len(s) + 1] = r
      /\ \A i \in 1..Len(s) : t[i] = s[i]
  OBVIOUS
<1>. HIDE DEF t
<1>2. TotalPulses(t, Len(s)) = TotalPulses(s, Len(s))
  BY <1>1, TotalReads
<1>3. TotalPulses(t, Len(s) + 1) = TotalPulses(t, Len(s)) + t[Len(s) + 1].pulses
  BY <1>1, TotalStep
<1>. QED  BY <1>1, <1>2, <1>3 DEF t

(* A removed result takes its pulses with it. *)
LEMMA TotalWithout ==
  ASSUME NEW s \in Seq(Result), NEW i \in 1..Len(s)
  PROVE  TotalPulses(Without(s, i), Len(s) - 1) + s[i].pulses = TotalPulses(s, Len(s))
<1>. DEFINE t == Without(s, i)
            S == {k \in Nat : i + k <= Len(s) =>
                    TotalPulses(t, i + k - 1) + s[i].pulses = TotalPulses(s, i + k)}
<1>1. /\ Len(s) \in Nat
      /\ \A j \in 1..(Len(s) - 1) : t[j] = IF j < i THEN s[j] ELSE s[j + 1]
  BY DEF Without
<1>2. \A j \in 1..Len(s) : s[j].pulses \in Nat
  <2>1. \A j \in 1..Len(s) : s[j] \in Result
    OBVIOUS
  <2>. QED  BY <2>1 DEF Result
<1>. HIDE DEF t
<1>3. 0 \in S
  <2>1. i - 1 \in Nat /\ (i - 1) + 1 = i /\ i + 0 = i
    OBVIOUS
  <2>2. TotalPulses(t, i - 1) = TotalPulses(s, i - 1)
    BY <1>1, <2>1, TotalReads
  <2>3. TotalPulses(s, (i - 1) + 1) = TotalPulses(s, i - 1) + s[(i - 1) + 1].pulses
    BY <2>1, TotalStep
  <2>. QED  BY <2>1, <2>2, <2>3
<1>4. ASSUME NEW k \in Nat, k \in S PROVE k + 1 \in S
  <2>. DEFINE n == i + k
  <2>. SUFFICES ASSUME n + 1 <= Len(s)
                PROVE  TotalPulses(t, n) + s[i].pulses = TotalPulses(s, n + 1)
    <3>1. i + (k + 1) = n + 1 /\ i + (k + 1) - 1 = n
      OBVIOUS
    <3>. QED  BY <3>1
  <2>1. n \in Nat /\ n - 1 \in Nat /\ (n - 1) + 1 = n /\ n \in 1..(Len(s) - 1) /\ ~(n < i)
    BY <1>1
  <2>2. TotalPulses(t, n - 1) + s[i].pulses = TotalPulses(s, n)
    BY <1>4, <2>1
  <2>3. TotalPulses(t, (n - 1) + 1) = TotalPulses(t, n - 1) + t[(n - 1) + 1].pulses
    BY <2>1, TotalStep
  <2>4. TotalPulses(s, n + 1) = TotalPulses(s, n) + s[n + 1].pulses
    BY <2>1, TotalStep
  <2>5. t[n] = s[n + 1]
    BY <1>1, <2>1
  <2>6. TotalPulses(s, n) \in Nat /\ TotalPulses(t, n - 1) \in Nat
    <3>1. t \in Seq(Result) /\ Len(t) = Len(s) - 1
      BY WithoutResult DEF t
    <3>2. n \in 0..Len(s) /\ n - 1 \in 0..Len(t)
      BY <2>1, <3>1
    <3>. QED  BY <3>1, <3>2, TotalIsNat
  <2>7. s[i].pulses \in Nat /\ s[n + 1].pulses \in Nat
    BY <1>2, <2>1
  <2>. HIDE DEF n
  <2>8. /\ TotalPulses(t, n) = TotalPulses(t, n - 1) + s[n + 1].pulses
        /\ TotalPulses(t, n - 1) + s[i].pulses = TotalPulses(s, n)
        /\ TotalPulses(s, n + 1) = TotalPulses(s, n) + s[n + 1].pulses
    BY <2>1, <2>2, <2>3, <2>4, <2>5
  <2>. QED  BY <2>6, <2>7, <2>8
<1>5. Nat \subseteq S
  <2>. HIDE DEF S
  <2>. QED  BY <1>3, <1>4, Induct
<1>6. Len(s) - i \in Nat /\ i + (Len(s) - i) = Len(s)
  BY <1>1
<1>. QED  BY <1>5, <1>6 DEF t


-------------------------------------------------------------------------------
(***************************************************************************)
(* What a method does to events and pulses.  A step of the loop is several *)
(* methods in a row, so this is a relation that composes (ExtendsTrans).   *)
(***************************************************************************)

(* The events m2 has beyond the results of m1. *)
Added(m1, m2) == (Len(m1.results) + 1)..Len(m2.results)
LeftOf(m1, m2) ==
  {EventOf(m2.results[i]) : i \in Added(m1, m2)}
    \cup (IF m2.active.present THEN {EventOf(m2.active)} ELSE {})

Longer(m1, m2) ==
  /\ Len(m1.results) <= Len(m2.results)
  /\ \A i \in 1..Len(m1.results) : m2.results[i] = m1.results[i]

(* The open event continues, and the others are new and unattributed. *)
Follows(m1, m2) ==
  /\ m1.active.present =>
       \E e \in LeftOf(m1, m2) : /\ e.seq = m1.active.seq /\ e.sid = m1.active.sid
                                 /\ e.pulses >= m1.active.pulses
  /\ m1.next <= m2.next
  /\ \A k \in m1.next..(m2.next - 1) : \E e \in LeftOf(m1, m2) : e.seq = k
  /\ \A e \in LeftOf(m1, m2) :
       \/ m1.active.present /\ e.seq = m1.active.seq /\ e.sid = m1.active.sid
       \/ e.seq >= m1.next /\ e.sid = NoSid /\ e.pulses > 0

EmptyOnlyIf(r, lifetime) ==
  r.pulses = 0 => r.status = "timed_out" \/ lifetime = MaxLifetime

(* Pulses are gained as they are counted, or lost to a counter at its end. *)
Pays(m1, m2) ==
  LET gained == Held(m2) - Held(m1)
      accepted == m2.lifetime - m1.lifetime
  IN  /\ 0 <= gained /\ gained <= accepted
      /\ m1.recovery <= m2.recovery
      /\ \/ gained = accepted
         \/ m2.lifetime = MaxLifetime
         \/ /\ m2.lifetime > MaxResultPulses
            /\ \E i \in Added(m1, m2) : m2.results[i].pulses = MaxResultPulses

Extends(m1, m2) ==
  /\ GoodMachine(m2) /\ m2.active.pulses <= MaxResultPulses
  /\ Longer(m1, m2)
  /\ Follows(m1, m2)
  /\ \A i \in Added(m1, m2) : EmptyOnlyIf(m2.results[i], m2.lifetime)
  /\ Pays(m1, m2)

LEMMA HeldIsNat ==
  ASSUME NEW mm, GoodMachine(mm)
  PROVE  /\ TotalPulses(mm.results, Len(mm.results)) \in Nat
         /\ Held(mm) \in Nat /\ mm.lifetime \in 0..MaxLifetime /\ mm.recovery \in Nat
         /\ mm.active.pulses \in Nat /\ Len(mm.results) \in Nat /\ mm.next \in Nat
<1>1. mm.results \in Seq(Result) /\ mm.active.pulses \in Nat /\ mm.recovery \in Nat
      /\ mm.lifetime \in 0..MaxLifetime /\ mm.next \in 1..MaxSeq
  BY GoodFields
<1>2. Len(mm.results) \in 0..Len(mm.results) /\ Len(mm.results) \in Nat
  BY <1>1
<1>3. TotalPulses(mm.results, Len(mm.results)) \in Nat
  BY <1>1, <1>2, TotalIsNat
<1>. QED  BY <1>1, <1>2, <1>3 DEF Held

LEMMA BothRise ==
  ASSUME NEW a \in Nat, NEW b \in Nat, NEW c \in Nat, NEW d \in Nat, a <= b, c <= d
  PROVE  0 <= (b - a) + (d - c)
OBVIOUS

LEMMA Difference ==
  ASSUME NEW T \in Int, NEW a \in Int, NEW b \in Int, NEW c \in Int, NEW d \in Int
  PROVE  (T + a + b) - (T + c + d) = (a - c) + (b - d)
OBVIOUS

(* The results and the open event stay, and the event may gain pulses. *)
LEMMA ContinueExtends ==
  ASSUME NEW m1, GoodMachine(m1), NEW m2, GoodMachine(m2),
         m2.results = m1.results, m2.next = m1.next,
         m2.active.present = m1.active.present,
         m2.active.seq = m1.active.seq, m2.active.sid = m1.active.sid,
         m1.active.pulses <= m2.active.pulses, m1.recovery <= m2.recovery,
         m2.active.pulses <= MaxResultPulses,
         (m2.active.pulses - m1.active.pulses) + (m2.recovery - m1.recovery)
           <= m2.lifetime - m1.lifetime,
         \/ (m2.active.pulses - m1.active.pulses) + (m2.recovery - m1.recovery)
              = m2.lifetime - m1.lifetime
         \/ m2.lifetime = MaxLifetime
  PROVE  Extends(m1, m2)
<1>1. /\ Held(m1) \in Nat /\ Held(m2) \in Nat /\ Len(m1.results) \in Nat /\ m1.next \in Nat
      /\ m1.lifetime \in Nat /\ m2.lifetime \in Nat
      /\ m1.active.pulses \in Nat /\ m2.active.pulses \in Nat
      /\ m1.recovery \in Nat /\ m2.recovery \in Nat
      /\ TotalPulses(m1.results, Len(m1.results)) \in Nat
  BY HeldIsNat
<1>2. Added(m1, m2) = {} /\ Longer(m1, m2)
  BY <1>1 DEF Added, Longer
<1>3. Held(m2) - Held(m1)
        = (m2.active.pulses - m1.active.pulses) + (m2.recovery - m1.recovery)
  <2>. DEFINE T == TotalPulses(m1.results, Len(m1.results))
  <2>1. /\ Held(m1) = T + m1.active.pulses + m1.recovery
        /\ Held(m2) = T + m2.active.pulses + m2.recovery
    BY Zenon DEF Held
  <2>2. T \in Nat
    BY <1>1
  <2>. HIDE DEF T
  <2>3. (T + m2.active.pulses + m2.recovery) - (T + m1.active.pulses + m1.recovery)
          = (m2.active.pulses - m1.active.pulses) + (m2.recovery - m1.recovery)
    <3>1. T \in Int /\ m2.active.pulses \in Int /\ m2.recovery \in Int
          /\ m1.active.pulses \in Int /\ m1.recovery \in Int
      BY SMTT(40), <1>1, <2>2
    <3>. QED  BY <3>1, Difference
  <2>. QED  BY <2>1, <2>3, Zenon
<1>4. Pays(m1, m2)
  <2>1. 0 <= (m2.active.pulses - m1.active.pulses) + (m2.recovery - m1.recovery)
    <3>1. /\ m1.active.pulses \in Nat /\ m2.active.pulses \in Nat
          /\ m1.recovery \in Nat /\ m2.recovery \in Nat
          /\ m1.active.pulses <= m2.active.pulses /\ m1.recovery <= m2.recovery
      BY <1>1, Zenon
    <3>. QED  BY <3>1, BothRise
  <2>. QED  BY <1>3, <2>1 DEF Pays
<1>5. LeftOf(m1, m2) = IF m1.active.present THEN {EventOf(m2.active)} ELSE {}
  BY <1>2 DEF LeftOf
<1>6. EventOf(m2.active).seq = m1.active.seq /\ EventOf(m2.active).sid = m1.active.sid
      /\ EventOf(m2.active).pulses = m2.active.pulses
  BY DEF EventOf
<1>7. m1.next..(m2.next - 1) = {}
  BY <1>1
<1>8. Follows(m1, m2)
  BY <1>1, <1>5, <1>6, <1>7 DEF Follows
<1>. QED  BY <1>2, <1>4, <1>8 DEF Extends

LEMMA ExtendsRefl ==
  ASSUME NEW mm, GoodMachine(mm), mm.active.pulses <= MaxResultPulses
  PROVE  Extends(mm, mm)
<1>1. mm.active.pulses \in Nat /\ mm.recovery \in Nat /\ mm.lifetime \in Nat
  BY HeldIsNat
<1>. QED  BY <1>1, ContinueExtends

(* The open event becomes a result. *)
LEMMA CloseExtends ==
  ASSUME NEW m1, GoodMachine(m1), NEW m2, GoodMachine(m2), m1.active.present,
         NEW r \in Result, m2.results = Append(m1.results, r), m2.next = m1.next,
         ~m2.active.present, m2.recovery = m1.recovery,
         r.seq = m1.active.seq, r.sid = m1.active.sid, m1.active.pulses <= r.pulses,
         EmptyOnlyIf(r, m2.lifetime),
         r.pulses - m1.active.pulses <= m2.lifetime - m1.lifetime,
         \/ r.pulses - m1.active.pulses = m2.lifetime - m1.lifetime
         \/ m2.lifetime = MaxLifetime
         \/ m2.lifetime > MaxResultPulses /\ r.pulses = MaxResultPulses
  PROVE  Extends(m1, m2)
<1>. DEFINE n == Len(m1.results)
<1>1. /\ Held(m1) \in Nat /\ Held(m2) \in Nat /\ n \in Nat /\ m1.next \in Nat
      /\ m1.lifetime \in Nat /\ m2.lifetime \in Nat
      /\ m1.active.pulses \in Nat /\ m1.recovery \in Nat
      /\ TotalPulses(m1.results, n) \in Nat
  BY HeldIsNat
<1>2. m1.results \in Seq(Result) /\ m2.active.pulses = 0 /\ r.pulses \in Nat
  BY GoodFields DEF Result
<1>3. /\ Len(m2.results) = n + 1 /\ m2.results[n + 1] = r
      /\ \A i \in 1..n : m2.results[i] = m1.results[i]
  BY <1>2
<1>4. TotalPulses(m2.results, n + 1) = TotalPulses(m1.results, n) + r.pulses
  BY <1>2, TotalAppend
<1>. HIDE DEF n
<1>5. Added(m1, m2) = {n + 1} /\ Longer(m1, m2)
  BY <1>1, <1>3 DEF Added, Longer, n
<1>6. Held(m2) - Held(m1) = r.pulses - m1.active.pulses
  <2>. DEFINE T == TotalPulses(m1.results, n)
  <2>1. /\ Held(m1) = T + m1.active.pulses + m1.recovery
        /\ Held(m2) = (T + r.pulses) + 0 + m1.recovery
    BY <1>2, <1>3, <1>4, Zenon DEF Held, n
  <2>2. T \in Nat
    BY <1>1
  <2>. HIDE DEF T
  <2>3. (T + r.pulses) + 0 + m1.recovery = T + r.pulses + m1.recovery
    BY <1>1, <1>2, <2>2
  <2>4. (T + r.pulses + m1.recovery) - (T + m1.active.pulses + m1.recovery)
          = (r.pulses - m1.active.pulses) + (m1.recovery - m1.recovery)
    <3>1. T \in Int /\ r.pulses \in Int /\ m1.recovery \in Int /\ m1.active.pulses \in Int
      BY SMTT(40), <1>1, <1>2, <2>2
    <3>. QED  BY <3>1, Difference
  <2>5. (r.pulses - m1.active.pulses) + (m1.recovery - m1.recovery) = r.pulses - m1.active.pulses
    BY SMTT(40), <1>1, <1>2
  <2>. QED  BY <2>1, <2>3, <2>4, <2>5, Zenon
<1>7. Pays(m1, m2)
  <2>1. m2.lifetime > MaxResultPulses /\ r.pulses = MaxResultPulses =>
          /\ m2.lifetime > MaxResultPulses
          /\ \E i \in Added(m1, m2) : m2.results[i].pulses = MaxResultPulses
    BY <1>3, <1>5
  <2>2. 0 <= r.pulses - m1.active.pulses
    BY SMTT(40), <1>1, <1>2
  <2>3. m1.recovery <= m2.recovery
    BY <1>1
  <2>. QED  BY <1>6, <2>1, <2>2, <2>3 DEF Pays
<1>8. LeftOf(m1, m2) = {EventOf(r)}
  BY <1>3, <1>5 DEF LeftOf
<1>9. EventOf(r).seq = m1.active.seq /\ EventOf(r).sid = m1.active.sid /\ EventOf(r).pulses = r.pulses
  BY DEF EventOf
<1>10. m1.next..(m2.next - 1) = {}
  BY <1>1
<1>11. Follows(m1, m2)
  BY <1>1, <1>8, <1>9, <1>10 DEF Follows
<1>12. m2.active.pulses <= MaxResultPulses
  BY <1>2
<1>. QED  BY <1>3, <1>5, <1>7, <1>11, <1>12 DEF Extends

(* A new unattributed event takes the next sequence. *)
LEMMA OpenExtends ==
  ASSUME NEW m1, GoodMachine(m1), NEW m2, GoodMachine(m2),
         ~m1.active.present, m2.active.present, m2.results = m1.results,
         m2.active.seq = m1.next, m2.active.sid = NoSid,
         m2.active.pulses > 0, m2.active.pulses <= MaxResultPulses,
         m2.next = m1.next + 1, m2.recovery = m1.recovery,
         m2.lifetime - m1.lifetime = m2.active.pulses
  PROVE  Extends(m1, m2)
<1>1. /\ Held(m1) \in Nat /\ Held(m2) \in Nat /\ Len(m1.results) \in Nat /\ m1.next \in Nat
      /\ m1.lifetime \in Nat /\ m2.lifetime \in Nat
      /\ m2.active.pulses \in Nat /\ m1.recovery \in Nat
      /\ TotalPulses(m1.results, Len(m1.results)) \in Nat
  BY HeldIsNat
<1>2. m1.active.pulses = 0
  BY GoodFields
<1>3. Added(m1, m2) = {} /\ Longer(m1, m2)
  BY <1>1 DEF Added, Longer
<1>4. Held(m2) - Held(m1) = m2.active.pulses
  BY <1>1, <1>2 DEF Held
<1>5. Pays(m1, m2)
  BY <1>1, <1>4 DEF Pays
<1>6. LeftOf(m1, m2) = {EventOf(m2.active)}
  BY <1>3 DEF LeftOf
<1>7. EventOf(m2.active).seq = m1.next /\ EventOf(m2.active).sid = NoSid
      /\ EventOf(m2.active).pulses > 0
  BY DEF EventOf
<1>8. \A k \in m1.next..(m2.next - 1) : k = m1.next
  BY <1>1
<1>9. Follows(m1, m2)
  BY SMTT(40), <1>1, <1>6, <1>7, <1>8 DEF Follows
<1>. QED  BY <1>3, <1>5, <1>9 DEF Extends

LEMMA LeftFields ==
  ASSUME NEW m1, NEW m2, GoodMachine(m1), GoodMachine(m2), NEW e \in LeftOf(m1, m2)
  PROVE  e.seq \in Nat /\ e.pulses \in Nat
<1>1. \A i \in 1..Len(m2.results) : m2.results[i] \in Result
  BY GoodFields
<1>2. m2.active.seq \in Nat /\ m2.active.pulses \in Nat
  BY GoodFields
<1>3. \A r : EventOf(r).seq = r.seq /\ EventOf(r).pulses = r.pulses
  BY DEF EventOf
<1>4. Len(m1.results) \in Nat /\ Len(m2.results) \in Nat
  BY HeldIsNat
<1>5. CASE \E i \in Added(m1, m2) : e = EventOf(m2.results[i])
  <2>1. PICK i \in Added(m1, m2) : e = EventOf(m2.results[i])
    BY <1>5
  <2>2. i \in 1..Len(m2.results)
    BY <1>4 DEF Added
  <2>. QED  BY <1>1, <1>3, <2>1, <2>2 DEF Result
<1>6. CASE m2.active.present /\ e = EventOf(m2.active)
  BY <1>2, <1>3, <1>6
<1>. QED  BY <1>5, <1>6 DEF LeftOf

LEMMA NotLess ==
  ASSUME NEW a \in Int, NEW b \in Int, 0 <= b - a
  PROVE  a <= b
OBVIOUS

LEMMA Ranges ==
  ASSUME NEW a \in Nat, NEW b \in Nat, NEW c \in Nat, a <= b, b <= c
  PROVE  /\ \A i \in (a + 1)..b : i \in (a + 1)..c /\ i \in 1..b
         /\ \A i \in (b + 1)..c : i \in (a + 1)..c
OBVIOUS

LEMMA BothGain ==
  ASSUME NEW a \in Int, NEW b \in Int, NEW c \in Int,
         NEW p \in Int, NEW q \in Int, NEW r \in Int,
         a <= b, b <= c, b - a <= q - p, c - b <= r - q
  PROVE  /\ 0 <= c - a /\ c - a <= r - p
         /\ b - a = q - p /\ c - b = r - q => c - a = r - p
OBVIOUS

(* The events a step leaves have sequences of their own. *)
LEMMA OneOfEachSeq ==
  ASSUME NEW m1, NEW m2, GoodMachine(m1), GoodMachine(m2),
         NEW e \in LeftOf(m1, m2), NEW f \in LeftOf(m1, m2), e.seq = f.seq
  PROVE  e = f
<1>1. Len(m1.results) \in Nat /\ Len(m2.results) \in Nat
  BY HeldIsNat
<1>2. \A i, j \in 1..Len(m2.results) : m2.results[i].seq = m2.results[j].seq => i = j
  <2>1. \A i, j \in 1..Len(m2.results) : i < j => m2.results[i].seq < m2.results[j].seq
    BY DEF GoodMachine, SequencesOrdered
  <2>2. \A i \in 1..Len(m2.results) : m2.results[i].seq \in Nat
    <3>1. \A i \in 1..Len(m2.results) : m2.results[i] \in Result
      BY GoodFields
    <3>. QED  BY <3>1 DEF Result
  <2>. QED  BY <1>1, <2>1, <2>2
<1>3. m2.active.present =>
        \A i \in 1..Len(m2.results) : m2.results[i].seq # m2.active.seq
  <2>1. m2.active.present =>
          \A i \in 1..Len(m2.results) : m2.results[i].seq < m2.active.seq
    BY DEF GoodMachine, SequencesOrdered
  <2>2. m2.active.seq \in Nat
    BY GoodFields
  <2>. QED  BY <2>1, <2>2
<1>4. ASSUME NEW g \in LeftOf(m1, m2)
      PROVE  \/ \E i \in 1..Len(m2.results) : g = EventOf(m2.results[i])
             \/ m2.active.present /\ g = EventOf(m2.active)
  BY <1>1 DEF LeftOf, Added
<1>5. \A r : EventOf(r).seq = r.seq
  BY DEF EventOf
<1>. QED  BY <1>2, <1>3, <1>4, <1>5

LEMMA ExtendsTrans ==
  ASSUME NEW m1, GoodMachine(m1), NEW m2, Extends(m1, m2), NEW m3, Extends(m2, m3)
  PROVE  Extends(m1, m3)
<1>. DEFINE L12 == LeftOf(m1, m2)
            L23 == LeftOf(m2, m3)
            L13 == LeftOf(m1, m3)
<1>1. GoodMachine(m2) /\ GoodMachine(m3)
  BY DEF Extends
<1>2. /\ Len(m1.results) \in Nat /\ Len(m2.results) \in Nat /\ Len(m3.results) \in Nat
      /\ m1.next \in Nat /\ m2.next \in Nat /\ m3.next \in Nat
      /\ m2.lifetime \in 0..MaxLifetime /\ m3.lifetime \in 0..MaxLifetime /\ m1.lifetime \in Nat
      /\ Held(m1) \in Nat /\ Held(m2) \in Nat /\ Held(m3) \in Nat
      /\ m1.recovery \in Nat /\ m2.recovery \in Nat /\ m3.recovery \in Nat
  BY <1>1, HeldIsNat
<1>3. Longer(m1, m2) /\ Longer(m2, m3) /\ Longer(m1, m3)
  <2>1. Longer(m1, m2) /\ Longer(m2, m3)
    BY DEF Extends
  <2>. QED  BY SMTT(40), <1>2, <2>1 DEF Longer
<1>4. /\ \A i \in Added(m1, m3) : i \in Added(m1, m2) \/ i \in Added(m2, m3)
      /\ \A i \in Added(m1, m2) : i \in Added(m1, m3) /\ m3.results[i] = m2.results[i]
      /\ \A i \in Added(m2, m3) : i \in Added(m1, m3)
  <2>1. \A i \in Added(m1, m3) : i \in Added(m1, m2) \/ i \in Added(m2, m3)
    BY SMTT(40), <1>2 DEF Added
  <2>2. Len(m1.results) <= Len(m2.results) /\ Len(m2.results) <= Len(m3.results)
    BY <1>3 DEF Longer
  <2>3. /\ \A i \in Added(m1, m2) : i \in Added(m1, m3) /\ i \in 1..Len(m2.results)
        /\ \A i \in Added(m2, m3) : i \in Added(m1, m3)
    BY <1>2, <2>2, Ranges DEF Added
  <2>. QED  BY <1>3, <2>1, <2>3 DEF Longer
<1>5. m2.lifetime <= m3.lifetime
  BY <1>2 DEF Extends, Pays
<1>6. \A i \in Added(m1, m3) : EmptyOnlyIf(m3.results[i], m3.lifetime)
  <2>. SUFFICES ASSUME NEW i \in Added(m1, m3)
                PROVE  EmptyOnlyIf(m3.results[i], m3.lifetime)
    OBVIOUS
  <2>1. CASE i \in Added(m1, m2)
    <3>1. EmptyOnlyIf(m2.results[i], m2.lifetime) /\ m3.results[i] = m2.results[i]
      BY <1>4, <2>1 DEF Extends
    <3>2. m2.lifetime = MaxLifetime => m3.lifetime = MaxLifetime
      BY <1>2, <1>5
    <3>. QED  BY <3>1, <3>2 DEF EmptyOnlyIf
  <2>2. CASE i \in Added(m2, m3)
    BY <2>2 DEF Extends
  <2>. QED  BY <1>4, <2>1, <2>2
<1>7. Pays(m1, m3)
  <2>1. Pays(m1, m2) /\ Pays(m2, m3)
    BY DEF Extends
  <2>2. /\ Held(m1) <= Held(m2) /\ Held(m2) <= Held(m3)
        /\ Held(m2) - Held(m1) <= m2.lifetime - m1.lifetime
        /\ Held(m3) - Held(m2) <= m3.lifetime - m2.lifetime
        /\ m1.recovery <= m2.recovery /\ m2.recovery <= m3.recovery
    <3>1. /\ 0 <= Held(m2) - Held(m1) /\ Held(m2) - Held(m1) <= m2.lifetime - m1.lifetime
          /\ 0 <= Held(m3) - Held(m2) /\ Held(m3) - Held(m2) <= m3.lifetime - m2.lifetime
          /\ m1.recovery <= m2.recovery /\ m2.recovery <= m3.recovery
      BY <2>1, Zenon DEF Pays
    <3>2. Held(m1) <= Held(m2)
      <4>1. Held(m1) \in Int /\ Held(m2) \in Int /\ 0 <= Held(m2) - Held(m1)
        BY <1>2, <3>1
      <4>. QED  BY <4>1, NotLess, Zenon
    <3>3. Held(m2) <= Held(m3)
      <4>1. Held(m2) \in Int /\ Held(m3) \in Int /\ 0 <= Held(m3) - Held(m2)
        BY <1>2, <3>1
      <4>. QED  BY <4>1, NotLess, Zenon
    <3>. QED  BY <3>1, <3>2, <3>3, Zenon
  <2>3. /\ 0 <= Held(m3) - Held(m1) /\ Held(m3) - Held(m1) <= m3.lifetime - m1.lifetime
        /\ m1.recovery <= m3.recovery
        /\ /\ Held(m2) - Held(m1) = m2.lifetime - m1.lifetime
           /\ Held(m3) - Held(m2) = m3.lifetime - m2.lifetime
           => Held(m3) - Held(m1) = m3.lifetime - m1.lifetime
    <3>1. m1.recovery <= m3.recovery
      BY SMTT(40), <1>2, <2>2
    <3>2. /\ Held(m1) \in Int /\ Held(m2) \in Int /\ Held(m3) \in Int
          /\ m1.lifetime \in Int /\ m2.lifetime \in Int /\ m3.lifetime \in Int
      BY <1>2
    <3>3. /\ 0 <= Held(m3) - Held(m1) /\ Held(m3) - Held(m1) <= m3.lifetime - m1.lifetime
          /\ /\ Held(m2) - Held(m1) = m2.lifetime - m1.lifetime
             /\ Held(m3) - Held(m2) = m3.lifetime - m2.lifetime
             => Held(m3) - Held(m1) = m3.lifetime - m1.lifetime
      BY <2>2, <3>2, BothGain
    <3>. QED  BY <3>1, <3>3
  <2>4. CASE m3.lifetime = MaxLifetime
    BY <2>3, <2>4 DEF Pays
  <2>5. CASE m3.lifetime > MaxResultPulses
             /\ \E i \in Added(m1, m3) : m3.results[i].pulses = MaxResultPulses
    BY <2>3, <2>5 DEF Pays
  <2>6. CASE m2.lifetime = MaxLifetime
    BY <1>2, <1>5, <2>4, <2>6
  <2>7. CASE m2.lifetime > MaxResultPulses
             /\ \E i \in Added(m1, m2) : m2.results[i].pulses = MaxResultPulses
    <3>1. m3.lifetime > MaxResultPulses
      BY <1>2, <1>5, <2>7
    <3>. QED  BY <1>4, <2>5, <2>7, <3>1
  <2>8. CASE m3.lifetime > MaxResultPulses
             /\ \E i \in Added(m2, m3) : m3.results[i].pulses = MaxResultPulses
    BY <1>4, <2>5, <2>8
  <2>9. CASE /\ Held(m2) - Held(m1) = m2.lifetime - m1.lifetime
             /\ Held(m3) - Held(m2) = m3.lifetime - m2.lifetime
    <3>1. Held(m3) - Held(m1) = m3.lifetime - m1.lifetime
      BY <2>3, <2>9, Zenon
    <3>. QED  BY <2>3, <3>1 DEF Pays
  <2>10. \/ Held(m2) - Held(m1) = m2.lifetime - m1.lifetime
         \/ m2.lifetime = MaxLifetime
         \/ m2.lifetime > MaxResultPulses
            /\ \E i \in Added(m1, m2) : m2.results[i].pulses = MaxResultPulses
    BY <2>1 DEF Pays
  <2>11. \/ Held(m3) - Held(m2) = m3.lifetime - m2.lifetime
         \/ m3.lifetime = MaxLifetime
         \/ m3.lifetime > MaxResultPulses
            /\ \E i \in Added(m2, m3) : m3.results[i].pulses = MaxResultPulses
    BY <2>1 DEF Pays
  <2>. QED  BY <2>4, <2>6, <2>7, <2>8, <2>9, <2>10, <2>11
<1>8. /\ L23 \subseteq L13
      /\ \A e \in L12 : e \in L13 \/ (m2.active.present /\ e = EventOf(m2.active))
      /\ \A e \in L13 : e \in L23 \/ (e \in L12)
  BY <1>4 DEF LeftOf
<1>9. m2.active.present => EventOf(m2.active) \in L12
  BY DEF LeftOf
<1>10. Follows(m1, m2) /\ Follows(m2, m3)
  BY DEF Extends
<1>11. EventOf(m2.active).seq = m2.active.seq /\ EventOf(m2.active).sid = m2.active.sid
       /\ EventOf(m2.active).pulses = m2.active.pulses
  BY DEF EventOf
<1>13. \A e \in L12 \cup L23 : e.pulses \in Nat
  BY <1>1, LeftFields
<1>14. m1.active.pulses \in Nat /\ m2.active.pulses \in Nat
  BY <1>1, HeldIsNat
<1>15. \* an event of the first step is there after the second, with no fewer pulses
       \A e \in L12 : \E f \in L13 : f.seq = e.seq /\ f.sid = e.sid /\ f.pulses >= e.pulses
  <2>. SUFFICES ASSUME NEW e \in L12
                PROVE  \E f \in L13 : f.seq = e.seq /\ f.sid = e.sid /\ f.pulses >= e.pulses
    OBVIOUS
  <2>1. CASE e \in L13
    BY <1>13, <2>1
  <2>2. CASE m2.active.present /\ e = EventOf(m2.active)
    BY <1>8, <1>10, <1>11, <2>2 DEF Follows
  <2>. QED  BY <1>8, <2>1, <2>2
<1>16. Follows(m1, m3)
  <2>. HIDE DEF L12, L23, L13
  <2>1. m1.active.present =>
          \E e \in L13 : /\ e.seq = m1.active.seq /\ e.sid = m1.active.sid
                         /\ e.pulses >= m1.active.pulses
    <3>. SUFFICES ASSUME m1.active.present
                  PROVE  \E e \in L13 : /\ e.seq = m1.active.seq /\ e.sid = m1.active.sid
                                        /\ e.pulses >= m1.active.pulses
      OBVIOUS
    <3>1. PICK e \in L12 : /\ e.seq = m1.active.seq /\ e.sid = m1.active.sid
                           /\ e.pulses >= m1.active.pulses
      BY <1>10 DEF Follows, L12
    <3>2. PICK f \in L13 : f.seq = e.seq /\ f.sid = e.sid /\ f.pulses >= e.pulses
      BY <1>15
    <3>3. f.pulses \in Nat /\ e.pulses \in Nat
      BY <1>8, <1>13
    <3>. QED  BY <1>14, <3>1, <3>2, <3>3
  <2>2. m1.next <= m3.next
    BY SMTT(40), <1>2, <1>10 DEF Follows
  <2>3. \A k \in m1.next..(m3.next - 1) : \E e \in L13 : e.seq = k
    <3>. SUFFICES ASSUME NEW k \in m1.next..(m3.next - 1) PROVE \E e \in L13 : e.seq = k
      OBVIOUS
    <3>1. CASE k \in m1.next..(m2.next - 1)
      <4>1. PICK e \in L12 : e.seq = k
        BY <1>10, <3>1 DEF Follows, L12
      <4>. QED  BY <1>15, <4>1
    <3>2. CASE k \in m2.next..(m3.next - 1)
      BY <1>8, <1>10, <3>2 DEF Follows, L23
    <3>. QED  BY SMTT(40), <1>2, <3>1, <3>2
  <2>4. ASSUME NEW e \in L13
        PROVE  \/ m1.active.present /\ e.seq = m1.active.seq /\ e.sid = m1.active.sid
               \/ e.seq >= m1.next /\ e.sid = NoSid /\ e.pulses > 0
    <3>1. CASE e \in L12
      BY <1>10, <3>1 DEF Follows, L12
    <3>2. CASE e \in L23 /\ e.seq >= m2.next /\ e.sid = NoSid /\ e.pulses > 0
      <4>1. m1.next <= m2.next
        BY <1>10 DEF Follows
      <4>2. e.seq \in Nat
        BY <1>1, <3>2, LeftFields DEF L23
      <4>. QED  BY SMTT(40), <1>2, <3>2, <4>1, <4>2
    <3>3. CASE e \in L23 /\ m2.active.present /\ e.seq = m2.active.seq /\ e.sid = m2.active.sid
      <4>. DEFINE f == EventOf(m2.active)
      <4>1. f \in L12 /\ f.seq = e.seq /\ f.sid = e.sid /\ f.pulses = m2.active.pulses
        BY <1>9, <1>11, <3>3
      <4>. HIDE DEF f
      <4>2. CASE m1.active.present /\ f.seq = m1.active.seq /\ f.sid = m1.active.sid
        BY <4>1, <4>2
      <4>3. CASE f.seq >= m1.next /\ f.sid = NoSid /\ f.pulses > 0
        <5>1. e.pulses > 0
          <6>1. PICK g \in L23 : g.seq = m2.active.seq /\ g.pulses >= m2.active.pulses
            BY <1>10, <3>3 DEF Follows, L23
          <6>2. g = e
            BY <1>1, <3>3, <6>1, OneOfEachSeq DEF L23
          <6>3. e.pulses \in Nat
            BY <1>13, <3>3
          <6>. QED  BY <1>14, <4>1, <4>3, <6>1, <6>2, <6>3
        <5>. QED  BY <4>1, <4>3, <5>1
      <4>. QED  BY <1>10, <4>1, <4>2, <4>3 DEF Follows, L12
    <3>. QED  BY <1>8, <1>10, <3>1, <3>2, <3>3 DEF Follows, L23
  <2>. QED  BY <2>1, <2>2, <2>3, <2>4 DEF Follows, L13
<1>17. m3.active.pulses <= MaxResultPulses
  BY DEF Extends
<1>. QED  BY <1>1, <1>3, <1>6, <1>7, <1>16, <1>17 DEF Extends

-------------------------------------------------------------------------------
(***************************************************************************)
(* The methods that count and close.                                       *)
(***************************************************************************)

(* A machine whose counters have not run over. *)
Solvent(mm) ==
  /\ GoodMachine(mm)
  /\ Held(mm) <= mm.lifetime
  /\ mm.active.pulses <= MaxResultPulses

LEMMA SolventExtends ==
  ASSUME NEW m1, Solvent(m1), NEW m2, Extends(m1, m2)
  PROVE  Solvent(m2)
<1>1. GoodMachine(m1) /\ GoodMachine(m2) /\ m2.active.pulses <= MaxResultPulses
  BY DEF Solvent, Extends
<1>2. /\ Held(m1) \in Int /\ Held(m2) \in Int /\ m1.lifetime \in Int /\ m2.lifetime \in Int
  BY <1>1, HeldIsNat
<1>3. Held(m1) <= m1.lifetime /\ Held(m2) - Held(m1) <= m2.lifetime - m1.lifetime
  BY DEF Solvent, Extends, Pays
<1>4. Held(m2) <= m2.lifetime
  BY <1>2, <1>3
<1>. QED  BY <1>1, <1>4 DEF Solvent

LEMMA SolventGrows ==
  ASSUME NEW m1, Solvent(m1), NEW m2, Extends(m1, m2), NEW m3, Extends(m2, m3)
  PROVE  Extends(m1, m3)
BY ExtendsTrans DEF Solvent

LEMMA FinalizeExtends ==
  ASSUME NEW mm, Solvent(mm), NEW status \in TerminalStates,
         status = "timed_out" => mm.active.pulses = 0,
         status = "complete" => mm.active.pulses > 0,
         mm.active.present /\ mm.active.pulses = 0 =>
           status = "timed_out" \/ mm.lifetime = MaxLifetime
  PROVE  Extends(mm, Finalize(mm, status))
<1>1. GoodMachine(mm) /\ mm.active.pulses <= MaxResultPulses
  BY DEF Solvent
<1>2. CASE ~mm.active.present \/ Full(mm)
  BY <1>1, <1>2, ExtendsRefl DEF Finalize
<1>3. CASE mm.active.present /\ ~Full(mm)
  <2>. DEFINE r == [seq |-> mm.active.seq, sid |-> mm.active.sid, status |-> status,
                    pulses |-> mm.active.pulses, life |-> mm.lifetime]
              f == Finalize(mm, status)
  <2>1. mm \in Machine /\ mm.active \in Active /\ mm.lifetime \in Nat /\ mm.active.pulses \in Nat
    BY <1>1, GoodFields
  <2>2. r \in Result
    BY <2>1 DEF Result, Active
  <2>3. /\ f.results = Append(mm.results, r) /\ f.active = NoActive
        /\ f.next = mm.next /\ f.lifetime = mm.lifetime /\ f.recovery = mm.recovery
    BY <1>3, <2>1 DEF Finalize, Machine
  <2>4. GoodMachine(f)
    BY <1>1, FinalizeGood
  <2>5. ~f.active.present
    BY <2>3 DEF NoActive
  <2>6. /\ r.seq = mm.active.seq /\ r.sid = mm.active.sid /\ r.pulses = mm.active.pulses
        /\ r.status = status
    OBVIOUS
  <2>. HIDE DEF r, f
  <2>7. EmptyOnlyIf(r, f.lifetime)
    BY <1>3, <2>3, <2>6 DEF EmptyOnlyIf
  <2>8. r.pulses - mm.active.pulses = f.lifetime - mm.lifetime
    BY <2>1, <2>3, <2>6
  <2>9. r.pulses - mm.active.pulses <= f.lifetime - mm.lifetime /\ mm.active.pulses <= r.pulses
    BY <2>1, <2>3, <2>6
  <2>10. Extends(mm, f)
    BY <1>1, <1>3, <2>2, <2>3, <2>4, <2>5, <2>6, <2>7, <2>8, <2>9, CloseExtends
  <2>. QED  BY <2>10 DEF f
<1>. QED  BY <1>2, <1>3

LEMMA SettleExtends ==
  ASSUME NEW mm, Solvent(mm), NEW now \in Int
  PROVE  /\ Extends(mm, Settle(mm, now))
         /\ Settle(mm, now).active.present = mm.active.present
         /\ Settle(mm, now).active.pulses = mm.active.pulses
<1>. DEFINE s == Settle(mm, now)
<1>1. GoodMachine(mm) /\ mm \in Machine /\ mm.active \in Active /\ mm.active.pulses \in Nat
      /\ mm.lifetime \in Nat /\ mm.recovery \in Nat /\ mm.active.pulses <= MaxResultPulses
  BY GoodFields DEF Solvent
<1>2. GoodMachine(s)
  BY <1>1, SettleGood
<1>3. /\ s.results = mm.results /\ s.next = mm.next /\ s.lifetime = mm.lifetime
      /\ s.recovery = mm.recovery
      /\ s.active.present = mm.active.present /\ s.active.seq = mm.active.seq
      /\ s.active.sid = mm.active.sid /\ s.active.pulses = mm.active.pulses
  BY <1>1 DEF Settle, Machine, Active
<1>. HIDE DEF s
<1>4. Extends(mm, s)
  BY <1>1, <1>2, <1>3, ContinueExtends
<1>. QED  BY <1>3, <1>4 DEF s

LEMMA TickExtends ==
  ASSUME NEW mm, Solvent(mm), NEW now \in Int
  PROVE  Extends(mm, Tick(mm, now))
<1>. DEFINE s == Settle(mm, now)
<1>1. GoodMachine(mm)
  BY DEF Solvent
<1>2. CASE mm.active.present /\ mm.active.state = "armed" /\ Due(now, mm.active.timer)
  <2>1. mm.active.pulses = 0
    BY <1>1, <1>2, GoodFields
  <2>2. Extends(mm, Finalize(mm, "timed_out"))
    BY <2>1, FinalizeExtends DEF TerminalStates
  <2>. QED  BY <1>2, <2>2 DEF Tick
<1>3. CASE ~(mm.active.present /\ mm.active.state = "armed" /\ Due(now, mm.active.timer))
  <2>1. Extends(mm, s)
    BY SettleExtends
  <2>2. Solvent(s) /\ GoodMachine(s)
    BY <2>1, SolventExtends DEF Extends
  <2>. HIDE DEF s
  <2>3. CASE s.active.present /\ s.active.state = "settling" /\ Due(now, s.active.timer)
    <3>1. s.active.pulses # 0 /\ s.active.pulses \in Nat
      BY <2>2, <2>3, GoodFields
    <3>2. Extends(s, Finalize(s, "complete"))
      BY <2>2, <3>1, FinalizeExtends DEF TerminalStates
    <3>3. Extends(mm, Finalize(s, "complete"))
      BY <2>1, <3>2, SolventGrows
    <3>. QED  BY <1>3, <2>3, <3>3 DEF Tick, s
  <2>4. CASE ~(s.active.present /\ s.active.state = "settling" /\ Due(now, s.active.timer))
    BY <1>3, <2>1, <2>4 DEF Tick, s
  <2>. QED  BY <2>3, <2>4
<1>. QED  BY <1>2, <1>3

(* The open event takes the pulses, whose lifetime count has been raised.  *)
LEMMA AccumulateExtends ==
  ASSUME NEW mm, Solvent(mm), mm.active.present, NEW count \in Nat \ {0},
         mm.lifetime + count <= MaxLifetime, NEW captured \in Int
  PROVE  Extends(mm, Accumulate([mm EXCEPT !.lifetime = mm.lifetime + count], count, captured))
<1>. DEFINE u == [mm EXCEPT !.lifetime = mm.lifetime + count]
            a == Accumulate(u, count, captured)
<1>1. /\ GoodMachine(mm) /\ mm \in Machine /\ mm.active \in Active /\ mm.active.pulses \in Nat
      /\ mm.lifetime \in Nat /\ mm.recovery \in Nat /\ mm.active.pulses <= MaxResultPulses
      /\ Len(mm.results) < Capacity
  BY GoodFields DEF Solvent
<1>2. GoodMachine(u) /\ Unclaimed(u, count)
  BY <1>1, GrowLifetimeGood
<1>3. /\ u.active = mm.active /\ u.results = mm.results /\ u.next = mm.next
      /\ u.recovery = mm.recovery /\ u.lifetime = mm.lifetime + count
      /\ u \in Machine
  <2>1. mm.lifetime + count \in Nat
    BY <1>1
  <2>. QED  BY <1>1, <2>1 DEF Machine
<1>. HIDE DEF u
<1>4. GoodMachine(a)
  BY <1>2, <1>3, AccumulateGood
<1>5. CASE MaxResultPulses - mm.active.pulses < count
  <2>. DEFINE r == [seq |-> mm.active.seq, sid |-> mm.active.sid, status |-> "interrupted",
                    pulses |-> MaxResultPulses, life |-> u.lifetime]
              c == [u EXCEPT !.active.pulses = MaxResultPulses]
  <2>1. /\ c.active.present /\ c.active.seq = mm.active.seq /\ c.active.sid = mm.active.sid
        /\ c.active.pulses = MaxResultPulses /\ c.results = mm.results
        /\ c.next = mm.next /\ c.recovery = mm.recovery /\ c.lifetime = u.lifetime
        /\ c \in Machine
    BY <1>1, <1>3 DEF Machine, Active
  <2>2. a = Finalize(c, "interrupted")
    BY <1>3, <1>5 DEF Accumulate
  <2>3. r \in Result
    BY <1>1, <1>3 DEF Result, Active, TerminalStates
  <2>. HIDE DEF c
  <2>4. ~Full(c)
    BY <1>1, <2>1 DEF Full
  <2>5. /\ a.results = Append(mm.results, r) /\ a.active = NoActive
        /\ a.next = mm.next /\ a.lifetime = u.lifetime /\ a.recovery = mm.recovery
    BY <2>1, <2>2, <2>4 DEF Finalize, Machine
  <2>6. ~a.active.present
    BY <2>5 DEF NoActive
  <2>7. /\ r.seq = mm.active.seq /\ r.sid = mm.active.sid /\ r.pulses = MaxResultPulses
    OBVIOUS
  <2>. HIDE DEF r, a
  <2>8. EmptyOnlyIf(r, a.lifetime)
    BY <2>7 DEF EmptyOnlyIf
  <2>9. r.pulses - mm.active.pulses <= a.lifetime - mm.lifetime
    BY <1>1, <1>3, <1>5, <2>5, <2>7
  <2>10. a.lifetime > MaxResultPulses
    <3>1. mm.active.pulses <= mm.lifetime
      BY <1>1 DEF GoodMachine, PulsesDisjoint
    <3>. QED  BY <1>1, <1>3, <1>5, <2>5, <3>1
  <2>11. Extends(mm, a)
    BY <1>1, <1>4, <2>3, <2>5, <2>6, <2>7, <2>8, <2>9, <2>10, CloseExtends
  <2>. QED  BY <2>11 DEF a, u
<1>6. CASE ~(MaxResultPulses - mm.active.pulses < count)
  <2>. DEFINE p == mm.active.pulses + count
  <2>1. a = [u EXCEPT !.active.pulses = p, !.active.timer = captured,
                      !.active.state = "pouring", !.state = "pouring"]
    BY <1>1, <1>3, <1>6 DEF Accumulate
  <2>2. /\ a.results = mm.results /\ a.next = mm.next /\ a.recovery = mm.recovery
        /\ a.lifetime = mm.lifetime + count
        /\ a.active.present = mm.active.present /\ a.active.seq = mm.active.seq
        /\ a.active.sid = mm.active.sid /\ a.active.pulses = p
    <3>. HIDE DEF p, a
    <3>1. u \in Machine /\ u.active \in Active
      BY <1>1, <1>3
    <3>. QED  BY <1>3, <2>1, <3>1 DEF Machine, Active
  <2>. HIDE DEF a
  <2>3. /\ mm.active.pulses <= a.active.pulses /\ mm.recovery <= a.recovery
        /\ a.active.pulses <= MaxResultPulses
        /\ (a.active.pulses - mm.active.pulses) + (a.recovery - mm.recovery)
             = a.lifetime - mm.lifetime
        /\ (a.active.pulses - mm.active.pulses) + (a.recovery - mm.recovery)
             <= a.lifetime - mm.lifetime
    <3>1. a.recovery - mm.recovery = 0 /\ a.lifetime - mm.lifetime = count
          /\ a.active.pulses - mm.active.pulses = count
      BY <1>1, <2>2
    <3>2. mm.active.pulses <= a.active.pulses /\ mm.recovery <= a.recovery
      BY <1>1, <2>2
    <3>3. a.active.pulses <= MaxResultPulses
      BY <1>1, <1>6, <2>2
    <3>4. count + 0 = count /\ count <= count
      OBVIOUS
    <3>. QED  BY <3>1, <3>2, <3>3, <3>4
  <2>4. Extends(mm, a)
    BY <1>1, <1>4, <2>2, <2>3, ContinueExtends
  <2>. QED  BY <2>4 DEF a, u
<1>. QED  BY <1>5, <1>6


(* No event is open: the pulses are kept as a new one or beside it.        *)
LEMMA OpenUnattributedExtends ==
  ASSUME NEW mm, Solvent(mm), ~mm.active.present, NEW count \in Nat \ {0},
         count <= MaxResultPulses, mm.lifetime + count <= MaxLifetime, NEW captured \in Int
  PROVE  Extends(mm, OpenUnattributed([mm EXCEPT !.lifetime = mm.lifetime + count],
                                      count, captured))
<1>. DEFINE u == [mm EXCEPT !.lifetime = mm.lifetime + count]
            o == OpenUnattributed(u, count, captured)
<1>1. /\ GoodMachine(mm) /\ mm \in Machine /\ mm.lifetime \in Nat /\ mm.recovery \in Nat
      /\ mm.active.pulses = 0 /\ Held(mm) <= mm.lifetime /\ mm.next \in Nat
      /\ TotalPulses(mm.results, Len(mm.results)) \in Nat
  BY GoodFields, HeldIsNat DEF Solvent
<1>2. GoodMachine(u) /\ Unclaimed(u, count)
  BY <1>1, GrowLifetimeGood
<1>3. /\ u.active = mm.active /\ u.results = mm.results /\ u.next = mm.next
      /\ u.recovery = mm.recovery /\ u.lifetime = mm.lifetime + count
      /\ u \in Machine
  <2>1. mm.lifetime + count \in Nat
    BY <1>1
  <2>. QED  BY <1>1, <2>1 DEF Machine
<1>. HIDE DEF u
<1>4. GoodMachine(o)
  BY <1>2, <1>3, OpenUnattributedGood
<1>5. mm.recovery + count <= MaxLifetime
  <2>1. mm.recovery <= Held(mm)
    BY <1>1 DEF Held
  <2>2. Held(mm) \in Nat
    BY <1>1, HeldIsNat
  <2>. QED  BY <1>1, <2>1, <2>2
<1>6. CASE Full(u) \/ u.next = MaxSeq
  <2>1. o = [u EXCEPT !.recovery = mm.recovery + count]
    BY SMTT(40), <1>1, <1>3, <1>5, <1>6 DEF OpenUnattributed, AddRecovery
  <2>2. /\ o.active = mm.active /\ o.results = mm.results /\ o.next = mm.next
        /\ o.recovery = mm.recovery + count /\ o.lifetime = mm.lifetime + count
    BY <1>3, <2>1 DEF Machine
  <2>. HIDE DEF o
  <2>3. /\ mm.active.pulses <= o.active.pulses /\ mm.recovery <= o.recovery
        /\ o.active.pulses <= MaxResultPulses
        /\ (o.active.pulses - mm.active.pulses) + (o.recovery - mm.recovery)
             = o.lifetime - mm.lifetime
        /\ (o.active.pulses - mm.active.pulses) + (o.recovery - mm.recovery)
             <= o.lifetime - mm.lifetime
    <3>1. /\ o.active.pulses = 0 /\ o.recovery - mm.recovery = count
          /\ o.lifetime - mm.lifetime = count
      BY <1>1, <2>2
    <3>2. mm.recovery <= o.recovery
      BY <1>1, <2>2
    <3>. QED  BY <1>1, <3>1, <3>2
  <2>4. Extends(mm, o)
    BY <1>1, <1>4, <2>2, <2>3, ContinueExtends
  <2>. QED  BY <2>4 DEF o, u
<1>7. CASE ~(Full(u) \/ u.next = MaxSeq)
  <2>1. o = [u EXCEPT !.active = [present |-> TRUE, seq |-> mm.next, sid |-> NoSid,
                                  state |-> "pouring", pulses |-> count, timer |-> captured],
                      !.next = mm.next + 1, !.state = "pouring"]
    BY <1>3, <1>7 DEF OpenUnattributed
  <2>2. /\ o.active.present /\ o.active.seq = mm.next /\ o.active.sid = NoSid
        /\ o.active.pulses = count /\ o.results = mm.results /\ o.next = mm.next + 1
        /\ o.recovery = mm.recovery /\ o.lifetime = mm.lifetime + count
    BY <1>3, <2>1 DEF Machine
  <2>. HIDE DEF o
  <2>3. o.lifetime - mm.lifetime = o.active.pulses /\ o.active.pulses > 0
    BY <1>1, <2>2
  <2>4. Extends(mm, o)
    BY <1>1, <1>4, <2>2, <2>3, OpenExtends
  <2>. QED  BY <2>4 DEF o, u
<1>. QED  BY <1>6, <1>7

LEMMA SaturateLifetimeExtends ==
  ASSUME NEW mm, Solvent(mm)
  PROVE  Extends(mm, SaturateLifetime(mm))
<1>. DEFINE s == [mm EXCEPT !.lifetime = MaxLifetime]
            rest == MaxLifetime - mm.lifetime
<1>1. /\ GoodMachine(mm) /\ mm \in Machine /\ mm.lifetime \in 0..MaxLifetime
      /\ mm.recovery \in Nat /\ mm.active.pulses \in Nat /\ mm.active.pulses <= MaxResultPulses
  BY GoodFields DEF Solvent
<1>2. rest \in Nat /\ mm.lifetime + rest = MaxLifetime
  BY <1>1
<1>. HIDE DEF rest
<1>3. GoodMachine(s)
  <2>1. s = [mm EXCEPT !.lifetime = mm.lifetime + rest]
    BY <1>2
  <2>2. mm.lifetime + rest <= MaxLifetime
    BY <1>2
  <2>. HIDE DEF s
  <2>. QED  BY <1>1, <1>2, <2>1, <2>2, GrowLifetimeGood
<1>4. /\ s.active = mm.active /\ s.results = mm.results /\ s.next = mm.next
      /\ s.recovery = mm.recovery /\ s.lifetime = MaxLifetime
  BY <1>1 DEF Machine
<1>. HIDE DEF s
<1>5. Extends(mm, s)
  <2>1. (s.active.pulses - mm.active.pulses) + (s.recovery - mm.recovery) = 0
    BY <1>1, <1>4
  <2>2. 0 <= s.lifetime - mm.lifetime
    BY <1>1, <1>4
  <2>3. /\ s.active.pulses <= MaxResultPulses /\ mm.active.pulses <= s.active.pulses
        /\ mm.recovery <= s.recovery
    BY <1>1, <1>4
  <2>. QED  BY <1>1, <1>3, <1>4, <2>1, <2>2, <2>3, ContinueExtends
<1>6. CASE s.active.present /\ s.active.pulses > 0
  <2>1. Solvent(s) /\ s.active.pulses # 0
    BY <1>1, <1>4, <1>5, <1>6, SolventExtends
  <2>2. Extends(s, Finalize(s, "interrupted"))
    BY <1>4, <2>1, FinalizeExtends DEF TerminalStates
  <2>3. Extends(mm, Finalize(s, "interrupted"))
    BY <1>5, <2>2, SolventGrows
  <2>. QED  BY <1>6, <2>3 DEF SaturateLifetime, s
<1>7. CASE ~(s.active.present /\ s.active.pulses > 0)
  BY <1>5, <1>7 DEF SaturateLifetime, s
<1>. QED  BY <1>6, <1>7

(* A late edge finds its event closed. *)
LEMMA LateCloses ==
  ASSUME NEW mm, GoodMachine(mm), NEW captured \in Int
  PROVE  TickIfLate(mm, captured) = mm \/ ~TickIfLate(mm, captured).active.present
<1>. SUFFICES ASSUME mm.active.present, mm.active.state \in {"armed", "settling"},
                     After(captured, mm.active.timer)
              PROVE  ~Tick(mm, captured).active.present
  BY DEF TickIfLate
<1>1. Due(captured, mm.active.timer) /\ mm \in Machine /\ ~Full(mm)
  BY GoodFields DEF After, Full
<1>2. \A status : ~Finalize(mm, status).active.present
  BY <1>1 DEF Finalize, Machine, NoActive
<1>3. CASE mm.active.state = "armed"
  BY <1>1, <1>2, <1>3 DEF Tick
<1>4. CASE mm.active.state = "settling"
  BY <1>1, <1>2, <1>4 DEF Tick, Settle
<1>. QED  BY <1>3, <1>4

LEMMA TickIfLateExtends ==
  ASSUME NEW mm, Solvent(mm), NEW captured \in Int
  PROVE  Extends(mm, TickIfLate(mm, captured))
BY TickExtends, ExtendsRefl DEF TickIfLate, Solvent

LEMMA AddPulsesExtends ==
  ASSUME NEW mm, Solvent(mm), NEW count \in Nat \ {0}, count <= MaxResultPulses,
         NEW captured \in Int
  PROVE  Extends(mm, AddPulses(mm, count, captured))
<1>. DEFINE t == TickIfLate(mm, captured)
            u == [t EXCEPT !.lifetime = t.lifetime + count]
<1>1. Extends(mm, t) /\ Solvent(t)
  BY TickIfLateExtends, SolventExtends
<1>2. t \in Machine /\ t.lifetime \in Nat
  BY <1>1, GoodFields DEF Solvent
<1>3. u.active = t.active
  BY <1>2 DEF Machine
<1>. HIDE DEF t
<1>4. CASE MaxLifetime - t.lifetime < count
  <2>1. Extends(t, SaturateLifetime(t))
    BY <1>1, SaturateLifetimeExtends
  <2>2. Extends(mm, SaturateLifetime(t))
    BY <1>1, <2>1, SolventGrows
  <2>. QED  BY <1>4, <2>2 DEF AddPulses, t
<1>5. CASE ~(MaxLifetime - t.lifetime < count)
  <2>1. t.lifetime + count <= MaxLifetime
    BY <1>2, <1>5
  <2>2. CASE t.active.present
    <3>1. Extends(t, Accumulate(u, count, captured))
      BY <1>1, <2>1, <2>2, AccumulateExtends
    <3>2. Extends(mm, Accumulate(u, count, captured))
      BY <1>1, <3>1, SolventGrows
    <3>. QED  BY <1>3, <1>5, <2>2, <3>2 DEF AddPulses, t
  <2>3. CASE ~t.active.present
    <3>1. Extends(t, OpenUnattributed(u, count, captured))
      BY <1>1, <2>1, <2>3, OpenUnattributedExtends
    <3>2. Extends(mm, OpenUnattributed(u, count, captured))
      BY <1>1, <3>1, SolventGrows
    <3>. QED  BY <1>3, <1>5, <2>3, <3>2 DEF AddPulses, t
  <2>. QED  BY <2>2, <2>3
<1>. QED  BY <1>4, <1>5

(* Only at the end of the lifetime counter do pulses leave an armed event  *)
(* empty, and then they change nothing else.                               *)
LEMMA EmptyAfterPulses ==
  ASSUME NEW mm, Solvent(mm), NEW count \in Nat \ {0}, NEW captured \in Int,
         AddPulses(mm, count, captured).active.present,
         AddPulses(mm, count, captured).active.pulses = 0
  PROVE  /\ MaxLifetime - mm.lifetime < count
         /\ AddPulses(mm, count, captured) = [mm EXCEPT !.lifetime = MaxLifetime]
<1>. DEFINE t == TickIfLate(mm, captured)
            u == [t EXCEPT !.lifetime = t.lifetime + count]
            a == AddPulses(mm, count, captured)
<1>1. Solvent(t)
  BY TickIfLateExtends, SolventExtends
<1>2. /\ t \in Machine /\ t.lifetime \in Nat /\ t.active \in Active /\ t.active.pulses \in Nat
      /\ (t.active.present => ~Full(t)) /\ Len(t.results) \in Nat
  BY <1>1, GoodFields DEF Solvent, Full
<1>3. t = mm \/ ~t.active.present
  BY LateCloses DEF Solvent
<1>. HIDE DEF t
<1>4. u \in Machine /\ u.active = t.active /\ u.results = t.results
  <2>1. t.lifetime + count \in Nat
    BY <1>2
  <2>. QED  BY <1>2, <2>1 DEF Machine
<1>5. \A x \in Machine : x.active.present /\ ~Full(x)
        => ~Finalize(x, "interrupted").active.present
  BY DEF Finalize, Machine, NoActive
<1>6. CASE MaxLifetime - t.lifetime < count
  <2>. DEFINE s == [t EXCEPT !.lifetime = MaxLifetime]
  <2>1. s \in Machine /\ s.active = t.active /\ s.results = t.results
    BY <1>2 DEF Machine
  <2>2. a = IF s.active.present /\ s.active.pulses > 0 THEN Finalize(s, "interrupted") ELSE s
    BY <1>6 DEF AddPulses, SaturateLifetime, t
  <2>3. t.active.present => ~Full(s)
    BY <1>2, <2>1 DEF Full
  <2>. HIDE DEF s, a
  <2>4. a = s
    <3>1. CASE s.active.present /\ s.active.pulses > 0
      BY <1>5, <2>1, <2>2, <2>3, <3>1 DEF a
    <3>2. CASE ~(s.active.present /\ s.active.pulses > 0)
      BY <2>2, <3>2
    <3>. QED  BY <3>1, <3>2
  <2>5. t.active.present
    BY <2>1, <2>4 DEF a
  <2>. QED  BY <1>3, <1>6, <2>4, <2>5 DEF a, s
<1>7. CASE ~(MaxLifetime - t.lifetime < count) /\ t.active.present
  <2>1. a = Accumulate(u, count, captured)
    BY <1>4, <1>7 DEF AddPulses, t
  <2>. DEFINE c == [u EXCEPT !.active.pulses = MaxResultPulses]
  <2>2. c \in Machine /\ c.active.present /\ ~Full(c)
    <3>1. c \in Machine /\ c.active.present /\ c.results = t.results
      BY <1>2, <1>4, <1>7 DEF Machine, Active
    <3>. QED  BY <1>2, <1>7, <3>1 DEF Full
  <2>4. a = Finalize(c, "interrupted") \/ a.active.pulses = u.active.pulses + count
    BY <1>4, <2>1 DEF Accumulate, Machine, Active
  <2>. HIDE DEF c
  <2>3. ~Finalize(c, "interrupted").active.present
    BY <1>5, <2>2
  <2>5. u.active.pulses + count # 0
    BY <1>2, <1>4
  <2>. QED  BY <2>3, <2>4, <2>5
<1>8. CASE ~(MaxLifetime - t.lifetime < count) /\ ~t.active.present
  <2>1. a = OpenUnattributed(u, count, captured)
    BY <1>4, <1>8 DEF AddPulses, t
  <2>2. a.active = u.active \/ a.active.pulses = count
    BY <1>4, <2>1 DEF OpenUnattributed, AddRecovery, Machine
  <2>. QED  BY <1>4, <1>8, <2>2
<1>. QED  BY <1>6, <1>7, <1>8

LEMMA AddBatchExtends ==
  ASSUME NEW mm, Solvent(mm), NEW count \in Nat \ {0}, count <= MaxResultPulses,
         NEW first \in Int, NEW last \in Int
  PROVE  /\ Extends(mm, AddBatch(mm, count, first, last))
         /\ LET a == AddBatch(mm, count, first, last)
            IN  a.active.present /\ a.active.pulses = 0 => a = mm /\ mm.lifetime = MaxLifetime
<1>. DEFINE one == AddPulses(mm, 1, first)
            two == AddPulses(one, count - 1, last)
            emptied(x) == x.active.present /\ x.active.pulses = 0
<1>1. Extends(mm, one) /\ Solvent(one)
  BY AddPulsesExtends, SolventExtends
<1>2. emptied(one) => one = mm /\ mm.lifetime = MaxLifetime
  <2>1. emptied(one) => MaxLifetime - mm.lifetime < 1
                        /\ one = [mm EXCEPT !.lifetime = MaxLifetime]
    <3>. SUFFICES ASSUME one.active.present, one.active.pulses = 0
                  PROVE  MaxLifetime - mm.lifetime < 1
                         /\ one = [mm EXCEPT !.lifetime = MaxLifetime]
      OBVIOUS
    <3>1. 1 \in Nat \ {0}
      OBVIOUS
    <3>. QED  BY <3>1, EmptyAfterPulses, Zenon
  <2>2. mm \in Machine /\ mm.lifetime \in 0..MaxLifetime
    BY GoodFields DEF Solvent
  <2>3. MaxLifetime - mm.lifetime < 1 => mm.lifetime = MaxLifetime
    BY <2>2
  <2>4. mm.lifetime = MaxLifetime => [mm EXCEPT !.lifetime = MaxLifetime] = mm
    BY <2>2 DEF Machine
  <2>. QED  BY <2>1, <2>3, <2>4
<1>. HIDE DEF one
<1>3. CASE count = 1
  BY <1>1, <1>2, <1>3 DEF AddBatch, one
<1>4. CASE count # 1
  <2>1. count - 1 \in Nat \ {0} /\ count - 1 <= MaxResultPulses
    BY <1>4
  <2>2. Extends(one, two)
    BY <1>1, <2>1, AddPulsesExtends
  <2>3. Extends(mm, two)
    BY <1>1, <2>2, SolventGrows
  <2>4. emptied(two) => two = [one EXCEPT !.lifetime = MaxLifetime]
    BY <1>1, <2>1, EmptyAfterPulses
  <2>5. one \in Machine
    BY <1>1, GoodFields DEF Solvent
  <2>. HIDE DEF two
  <2>6. two = [one EXCEPT !.lifetime = MaxLifetime] /\ emptied(two) => emptied(one)
    BY <2>5 DEF Machine
  <2>7. one = mm /\ mm.lifetime = MaxLifetime => [one EXCEPT !.lifetime = MaxLifetime] = mm
    BY <2>5 DEF Machine
  <2>8. emptied(two) => two = mm /\ mm.lifetime = MaxLifetime
    BY <1>2, <2>4, <2>6, <2>7
  <2>. QED  BY <1>4, <2>3, <2>8 DEF AddBatch, one, two
<1>. QED  BY <1>3, <1>4

-------------------------------------------------------------------------------
(***************************************************************************)
(* Which call ends an event, and how.                                      *)
(***************************************************************************)
Ends(m1, m2, status) == \E i \in Added(m1, m2) : m2.results[i].status = status

LEMMA EndsTrans ==
  ASSUME NEW m1, NEW m2, NEW m3, GoodMachine(m1), Extends(m1, m2), Extends(m2, m3),
         NEW status, Ends(m1, m3, status)
  PROVE  Ends(m1, m2, status) \/ Ends(m2, m3, status)
<1>1. /\ Len(m1.results) \in Nat /\ Len(m2.results) \in Nat /\ Len(m3.results) \in Nat
      /\ Len(m1.results) <= Len(m2.results)
      /\ \A i \in 1..Len(m2.results) : m3.results[i] = m2.results[i]
  BY HeldIsNat DEF Extends, Longer
<1>2. PICK i \in Added(m1, m3) : m3.results[i].status = status
  BY DEF Ends
<1>3. CASE i <= Len(m2.results)
  <2>1. i \in Added(m1, m2) /\ i \in 1..Len(m2.results)
    BY <1>1, <1>2, <1>3 DEF Added
  <2>. QED  BY <1>1, <1>2, <2>1 DEF Ends
<1>4. CASE ~(i <= Len(m2.results))
  <2>1. i \in Added(m2, m3)
    BY <1>1, <1>2, <1>4 DEF Added
  <2>. QED  BY <1>2, <2>1 DEF Ends
<1>. QED  BY <1>3, <1>4

(* finalize() ends the open event with its status, and never answers BUSY. *)
LEMMA FinalizeEnds ==
  ASSUME NEW mm, GoodMachine(mm), NEW status
  PROVE  /\ \A s : Ends(mm, Finalize(mm, status), s) => s = status /\ mm.active.present
         /\ ~Finalize(mm, status).active.present
<1>1. mm \in Machine /\ mm.results \in Seq(Result) /\ (mm.active.present => ~Full(mm))
  BY GoodFields, HeldIsNat DEF Full
<1>. DEFINE r == [seq |-> mm.active.seq, sid |-> mm.active.sid, status |-> status,
                  pulses |-> mm.active.pulses, life |-> mm.lifetime]
<1>2. CASE ~mm.active.present
  <2>1. Finalize(mm, status) = mm
    BY <1>2 DEF Finalize
  <2>2. Added(mm, mm) = {}
    BY <1>1 DEF Added
  <2>. QED  BY <1>2, <2>1, <2>2 DEF Ends
<1>3. CASE mm.active.present
  <2>. DEFINE f == Finalize(mm, status)
  <2>1. f.results = Append(mm.results, r) /\ ~f.active.present
    BY <1>1, <1>3 DEF Finalize, Machine, NoActive
  <2>. HIDE DEF f
  <2>2. Len(f.results) = Len(mm.results) + 1 /\ f.results[Len(mm.results) + 1] = r
        /\ Len(mm.results) \in Nat
    BY <1>1, <2>1
  <2>3. Added(mm, f) = {Len(mm.results) + 1}
    BY <2>2 DEF Added
  <2>. QED  BY <1>3, <2>1, <2>2, <2>3 DEF Ends, f
<1>. QED  BY <1>2, <1>3

(* The stamp at which a pouring event begins to settle, and ends. *)
GapAt(a) == Wrap(a.timer + FlowGap)
SettledAt(a) == Wrap(GapAt(a) + Settling)

LEMMA SettleMoves ==
  ASSUME NEW mm, GoodMachine(mm), NEW now \in Int
  PROVE  LET s == Settle(mm, now)
         IN  /\ s.results = mm.results /\ s.active.present = mm.active.present
             /\ s.active.seq = mm.active.seq
             /\ \/ /\ mm.active.present /\ mm.active.state = "pouring"
                   /\ Due(now, GapAt(mm.active))
                   /\ s.active.state = "settling" /\ s.active.timer = SettledAt(mm.active)
                \/ /\ ~(/\ mm.active.present /\ mm.active.state = "pouring"
                        /\ Due(now, GapAt(mm.active)))
                   /\ s = mm
<1>1. mm \in Machine /\ mm.active \in Active
  BY GoodFields
<1>2. CASE mm.active.present /\ mm.active.state = "pouring" /\ Due(now, GapAt(mm.active))
  BY <1>1, <1>2 DEF Settle, Machine, Active, GapAt, SettledAt
<1>3. CASE ~(mm.active.present /\ mm.active.state = "pouring" /\ Due(now, GapAt(mm.active)))
  BY <1>1, <1>3 DEF Settle, GapAt
<1>. QED  BY <1>2, <1>3

(* The event tick() ends, and the one it leaves open. *)
LEMMA TickEnds ==
  ASSUME NEW mm, GoodMachine(mm), NEW now \in Int
  PROVE  LET t == Tick(mm, now)
             a == mm.active
             b == t.active
         IN  /\ Ends(mm, t, "timed_out") =>
                  a.present /\ a.state = "armed" /\ Due(now, a.timer)
             /\ Ends(mm, t, "complete") =>
                  /\ a.present
                  /\ \/ /\ a.state = "pouring"
                        /\ Due(now, GapAt(a)) /\ Due(now, SettledAt(a))
                     \/ a.state = "settling" /\ Due(now, a.timer)
             /\ b.present => a.present /\ b.seq = a.seq
             /\ b.present =>
                  \/ b = a /\ a.state = "armed" /\ ~Due(now, a.timer)
                  \/ b = a /\ a.state = "pouring" /\ ~Due(now, GapAt(a))
                  \/ b = a /\ a.state = "settling" /\ ~Due(now, a.timer)
                  \/ /\ a.state = "pouring" /\ Due(now, GapAt(a))
                     /\ b.state = "settling" /\ b.timer = SettledAt(a)
                     /\ ~Due(now, SettledAt(a))
<1>. DEFINE s == Settle(mm, now)
            t == Tick(mm, now)
            a == mm.active
            b == t.active
<1>1. /\ s.results = mm.results /\ s.active.present = a.present /\ s.active.seq = a.seq
      /\ \/ /\ a.present /\ a.state = "pouring" /\ Due(now, GapAt(a))
            /\ s.active.state = "settling" /\ s.active.timer = SettledAt(a)
         \/ /\ ~(a.present /\ a.state = "pouring" /\ Due(now, GapAt(a)))
            /\ s = mm
  BY SettleMoves
<1>2. GoodMachine(s)
  BY SettleGood
<1>3. Added(mm, mm) = {} /\ (a.present => a.state \in {"armed", "pouring", "settling"})
  BY HeldIsNat, GoodFields DEF Added
<1>5. ASSUME NEW st, Ends(mm, Finalize(s, "complete"), st) PROVE st = "complete"
  <2>1. Ends(s, Finalize(s, "complete"), st)
    BY <1>1, <1>5 DEF Ends, Added
  <2>. QED  BY <1>2, <2>1, FinalizeEnds
<1>6. CASE a.present /\ a.state = "armed" /\ Due(now, a.timer)
  <2>1. t = Finalize(mm, "timed_out")
    BY <1>6 DEF Tick
  <2>. HIDE DEF t
  <2>2. ~Ends(mm, t, "complete") /\ ~b.present
    BY <2>1, FinalizeEnds
  <2>. QED  BY <1>6, <2>2 DEF t
<1>7. CASE /\ ~(a.present /\ a.state = "armed" /\ Due(now, a.timer))
           /\ s.active.present /\ s.active.state = "settling" /\ Due(now, s.active.timer)
  <2>1. t = Finalize(s, "complete")
    BY <1>7 DEF Tick
  <2>. HIDE DEF t, s
  <2>2. ~Ends(mm, t, "timed_out") /\ ~b.present
    BY <1>1, <1>2, <1>5, <2>1, FinalizeEnds
  <2>. QED  BY <1>1, <1>7, <2>2 DEF t
<1>8. CASE /\ ~(a.present /\ a.state = "armed" /\ Due(now, a.timer))
           /\ ~(s.active.present /\ s.active.state = "settling" /\ Due(now, s.active.timer))
  <2>1. t = s
    BY <1>8 DEF Tick
  <2>. HIDE DEF t, s
  <2>2. \A st : ~Ends(mm, t, st)
    BY <1>1, <1>3, <2>1 DEF Ends, Added
  <2>. QED  BY <1>1, <1>3, <1>8, <2>1, <2>2 DEF t
<1>. QED  BY <1>6, <1>7, <1>8

(* The event an edge ends because it came too late for it. *)
LEMMA LateEnds ==
  ASSUME NEW mm, GoodMachine(mm), NEW captured \in Int
  PROVE  LET t == TickIfLate(mm, captured)
             a == mm.active
         IN  /\ Ends(mm, t, "timed_out") =>
                  a.present /\ a.state = "armed" /\ After(captured, a.timer)
             /\ Ends(mm, t, "complete") =>
                  a.present /\ a.state = "settling" /\ After(captured, a.timer)
<1>1. Added(mm, mm) = {}
  BY HeldIsNat DEF Added
<1>2. TickIfLate(mm, captured) = mm
      \/ /\ mm.active.present /\ mm.active.state \in {"armed", "settling"}
         /\ After(captured, mm.active.timer)
         /\ TickIfLate(mm, captured) = Tick(mm, captured)
  BY DEF TickIfLate
<1>. QED  BY <1>1, <1>2, TickEnds DEF Ends

Interrupts(before, after) ==
  after = before \/ \E e : e.status = "interrupted" /\ after = Append(before, e)

(* After the late event is gone, pulses end an event only by saturation,   *)
(* and the open event takes the stamp of the edge.                         *)
LEMMA PulsesEnds ==
  ASSUME NEW mm, Solvent(mm), NEW count \in Nat \ {0}, NEW captured \in Int
  PROVE  LET t == TickIfLate(mm, captured)
             r == AddPulses(mm, count, captured)
         IN  /\ Interrupts(t.results, r.results)
             /\ r.active.present /\ r.active.pulses # 0 =>
                  r.active.state = "pouring" /\ r.active.timer = captured
<1>. DEFINE t == TickIfLate(mm, captured)
            u == [t EXCEPT !.lifetime = t.lifetime + count]
            r == AddPulses(mm, count, captured)
            Goal == /\ Interrupts(t.results, r.results)
                    /\ r.active.present /\ r.active.pulses # 0 =>
                         r.active.state = "pouring" /\ r.active.timer = captured
<1>1. Solvent(t)
  BY TickIfLateExtends, SolventExtends
<1>2. /\ t \in Machine /\ t.lifetime \in Nat /\ t.active \in Active /\ t.active.pulses \in Nat
      /\ (t.active.present => ~Full(t)) /\ Len(t.results) \in Nat
  BY <1>1, GoodFields DEF Solvent, Full
<1>. SUFFICES Goal
  OBVIOUS
<1>. HIDE DEF t
<1>3. u \in Machine /\ u.active = t.active /\ u.results = t.results
  <2>1. t.lifetime + count \in Nat
    BY <1>2
  <2>. QED  BY <1>2, <2>1 DEF Machine
<1>4. ASSUME NEW x \in Machine, x.active.present, ~Full(x)
      PROVE  LET f == Finalize(x, "interrupted")
             IN  /\ ~f.active.present
                 /\ Interrupts(x.results, f.results)
  <2>. DEFINE e == [seq |-> x.active.seq, sid |-> x.active.sid, status |-> "interrupted",
                    pulses |-> x.active.pulses, life |-> x.lifetime]
              f == Finalize(x, "interrupted")
  <2>1. e.status = "interrupted"
    OBVIOUS
  <2>2. f = [x EXCEPT !.results = Append(x.results, e), !.active = NoActive,
                      !.state = "interrupted"]
    BY <1>4 DEF Finalize
  <2>. HIDE DEF e, f
  <2>3. f.results = Append(x.results, e) /\ ~f.active.present
    BY <2>2 DEF Machine, NoActive
  <2>. QED  BY <2>1, <2>3 DEF f, Interrupts
<1>5. CASE MaxLifetime - t.lifetime < count
  <2>. DEFINE s == [t EXCEPT !.lifetime = MaxLifetime]
  <2>1. s \in Machine /\ s.active = t.active /\ s.results = t.results
    BY <1>2 DEF Machine
  <2>2. r = IF s.active.present /\ s.active.pulses > 0 THEN Finalize(s, "interrupted") ELSE s
    BY <1>5 DEF AddPulses, SaturateLifetime, t
  <2>3. t.active.present => ~Full(s)
    BY <1>2, <2>1 DEF Full
  <2>. HIDE DEF s, r
  <2>4. CASE s.active.present /\ s.active.pulses > 0
    BY <1>4, <2>1, <2>2, <2>3, <2>4
  <2>5. CASE ~(s.active.present /\ s.active.pulses > 0)
    <3>1. s.active.pulses \in Nat /\ r = s
      BY <1>2, <2>1, <2>2, <2>5
    <3>. QED  BY <2>1, <2>5, <3>1 DEF Interrupts
  <2>. QED  BY <2>4, <2>5
<1>6. CASE ~(MaxLifetime - t.lifetime < count) /\ t.active.present
  <2>1. r = Accumulate(u, count, captured)
    BY <1>3, <1>6 DEF AddPulses, t
  <2>. DEFINE c == [u EXCEPT !.active.pulses = MaxResultPulses]
  <2>2. c \in Machine /\ c.active.present /\ ~Full(c) /\ c.results = t.results
    <3>1. c \in Machine /\ c.active.present /\ c.results = t.results
      BY <1>2, <1>3, <1>6 DEF Machine, Active
    <3>. QED  BY <1>2, <1>6, <3>1 DEF Full
  <2>3. \/ r = Finalize(c, "interrupted")
        \/ /\ r.results = u.results
           /\ r.active.state = "pouring" /\ r.active.timer = captured
    <3>1. CASE u.active.pulses > MaxResultPulses \/ MaxResultPulses - u.active.pulses < count
      BY <2>1, <3>1 DEF Accumulate
    <3>2. CASE ~(u.active.pulses > MaxResultPulses \/ MaxResultPulses - u.active.pulses < count)
      <4>1. r = [u EXCEPT !.active.pulses = u.active.pulses + count,
                          !.active.timer = captured,
                          !.active.state = "pouring",
                          !.state = "pouring"]
        BY <2>1, <3>2 DEF Accumulate
      <4>. HIDE DEF u, r
      <4>. QED  BY <1>2, <1>3, <4>1 DEF Machine, Active
    <3>. QED  BY <3>1, <3>2
  <2>. HIDE DEF c, r
  <2>. QED  BY <1>3, <1>4, <2>2, <2>3 DEF Interrupts
<1>7. CASE ~(MaxLifetime - t.lifetime < count) /\ ~t.active.present
  <2>1. r = OpenUnattributed(u, count, captured)
    BY <1>3, <1>7 DEF AddPulses, t
  <2>. HIDE DEF u, r
  <2>2. r.results = u.results
        /\ \/ r.active = u.active
           \/ /\ r.active.state = "pouring"
              /\ r.active.timer = captured
    <3>1. CASE Full(u) \/ u.next = MaxSeq
      <4>. DEFINE n == IF MaxLifetime - u.recovery < count THEN MaxLifetime
                       ELSE u.recovery + count
      <4>1. r = [u EXCEPT !.recovery = n]
        BY <2>1, <3>1 DEF OpenUnattributed, AddRecovery
      <4>. HIDE DEF n
      <4>. QED  BY <1>3, <4>1 DEF Machine
    <3>2. CASE ~(Full(u) \/ u.next = MaxSeq)
      BY <1>3, <2>1, <3>2 DEF OpenUnattributed, Machine
    <3>. QED  BY <3>1, <3>2
  <2>. QED  BY <1>3, <1>7, <2>2 DEF Interrupts
<1>. QED  BY <1>5, <1>6, <1>7

LEMMA AddPulsesEnds ==
  ASSUME NEW mm, Solvent(mm), NEW count \in Nat \ {0}, NEW captured \in Int,
         NEW status \in {"complete", "timed_out"},
         Ends(mm, AddPulses(mm, count, captured), status)
  PROVE  /\ mm.active.present /\ After(captured, mm.active.timer)
         /\ mm.active.state = IF status = "complete" THEN "settling" ELSE "armed"
<1>. DEFINE t == TickIfLate(mm, captured)
            r == AddPulses(mm, count, captured)
<1>1. GoodMachine(mm) /\ Extends(mm, t) /\ GoodMachine(t)
  BY TickIfLateExtends DEF Solvent, Extends
<1>2. Interrupts(t.results, r.results)
  BY PulsesEnds
<1>3. t.results \in Seq(Result) /\ Len(t.results) \in Nat /\ Len(mm.results) \in Nat
  BY <1>1, GoodFields, HeldIsNat
<1>4. PICK i \in Added(mm, r) : r.results[i].status = status
  BY DEF Ends
<1>. HIDE DEF t, r
<1>5. i \in Added(mm, t) /\ t.results[i].status = status
  <2>1. CASE r.results = t.results
    BY <1>4, <2>1 DEF Added
  <2>2. ASSUME NEW e, e.status = "interrupted", r.results = Append(t.results, e)
        PROVE  i \in Added(mm, t) /\ t.results[i].status = status
    <3>1. Len(r.results) = Len(t.results) + 1 /\ r.results[Len(t.results) + 1] = e
          /\ \A k \in 1..Len(t.results) : r.results[k] = t.results[k]
      <4>. DEFINE S == Result \cup {e}
      <4>1. t.results \in Seq(S) /\ e \in S
        BY <1>3
      <4>. QED  BY <2>2, <4>1
    <3>2. i # Len(t.results) + 1
      BY <1>4, <2>2, <3>1
    <3>3. i \in 1..Len(t.results) /\ i \in Added(mm, t)
      BY <1>3, <1>4, <3>1, <3>2 DEF Added
    <3>. QED  BY <1>4, <3>1, <3>3
  <2>. QED  BY <1>2, <2>1, <2>2 DEF Interrupts
<1>6. Ends(mm, t, status)
  BY <1>5 DEF Ends
<1>. QED  BY <1>1, <1>6, LateEnds DEF t

(* The first edge of a batch may end an event that is over; the others     *)
(* find the one it belongs to.                                             *)
LEMMA BatchEnds ==
  ASSUME NEW mm, Solvent(mm), NEW count \in Nat \ {0}, count <= MaxResultPulses,
         NEW first \in Int, NEW last \in Int
  PROVE  LET b == AddBatch(mm, count, first, last)
         IN  /\ Ends(mm, b, "complete") =>
                  /\ mm.active.present /\ mm.active.state = "settling"
                  /\ After(first, mm.active.timer)
             /\ Ends(mm, b, "timed_out") =>
                  \/ b.lifetime = MaxLifetime
                  \/ /\ mm.active.present /\ mm.active.state = "armed"
                     /\ After(first, mm.active.timer)
             /\ b.active.present /\ b.active.pulses # 0 =>
                  /\ b.active.state = "pouring"
                  /\ b.active.timer = IF count = 1 THEN first ELSE last
<1>. DEFINE one == AddPulses(mm, 1, first)
            two == AddPulses(one, count - 1, last)
            b == AddBatch(mm, count, first, last)
<1>1. Extends(mm, one) /\ Solvent(one) /\ GoodMachine(mm)
  <2>1. Extends(mm, one) /\ Solvent(one)
    BY AddPulsesExtends, SolventExtends
  <2>. QED  BY <2>1 DEF Solvent
<1>2. \A st \in {"complete", "timed_out"} : Ends(mm, one, st) =>
        /\ mm.active.present /\ After(first, mm.active.timer)
        /\ mm.active.state = IF st = "complete" THEN "settling" ELSE "armed"
  <2>1. 1 \in Nat \ {0}
    OBVIOUS
  <2>. QED  BY <2>1, AddPulsesEnds
<1>3. one.active.present /\ one.active.pulses # 0 =>
        one.active.state = "pouring" /\ one.active.timer = first
  <2>1. 1 \in Nat \ {0}
    OBVIOUS
  <2>. QED  BY <2>1, PulsesEnds
<1>4. CASE count = 1
  <2>1. b = one
    BY <1>4 DEF AddBatch
  <2>. HIDE DEF one, b
  <2>. QED  BY <1>2, <1>3, <1>4, <2>1 DEF b
<1>5. CASE count # 1
  <2>1. count - 1 \in Nat \ {0} /\ count - 1 <= MaxResultPulses
    BY <1>5
  <2>2. b = two
    BY <1>5 DEF AddBatch
  <2>3. one.active.present /\ one.active.pulses = 0 => one.lifetime = MaxLifetime
    <3>1. 1 \in Nat \ {0}
      OBVIOUS
    <3>2. one.active.present /\ one.active.pulses = 0 => one = [mm EXCEPT !.lifetime = MaxLifetime]
      BY <3>1, EmptyAfterPulses, Zenon
    <3>3. mm \in Machine
      BY <1>1, GoodFields
    <3>4. [mm EXCEPT !.lifetime = MaxLifetime].lifetime = MaxLifetime
      BY <3>3 DEF Machine
    <3>. QED  BY <3>2, <3>4
  <2>. HIDE DEF one
  <2>4. Extends(one, two) /\ one.lifetime \in 0..MaxLifetime /\ two.lifetime \in 0..MaxLifetime
    <3>1. Extends(one, two)
      BY <1>1, <2>1, AddPulsesExtends
    <3>. QED  BY <1>1, <3>1, HeldIsNat DEF Extends
  <2>5. one.lifetime = MaxLifetime => two.lifetime = MaxLifetime
    <3>. HIDE DEF two
    <3>1. one.lifetime <= two.lifetime
      <4>1. Held(one) \in Nat /\ Held(two) \in Nat
        BY <1>1, <2>4, HeldIsNat DEF Extends
      <4>. QED  BY <2>4, <4>1 DEF Extends, Pays
    <3>. QED  BY <2>4, <3>1
  <2>6. one.active.present => one.active.state \in {"pouring", "armed"}
        /\ (one.active.state = "armed" => one.active.pulses = 0)
    BY <1>1, <1>3, GoodFields DEF Extends
  <2>7. ~Ends(one, two, "complete")
    BY <1>1, <2>1, <2>6, AddPulsesEnds
  <2>8. Ends(one, two, "timed_out") => one.lifetime = MaxLifetime
    BY <1>1, <2>1, <2>3, <2>6, AddPulsesEnds
  <2>9. two.active.present /\ two.active.pulses # 0 =>
          two.active.state = "pouring" /\ two.active.timer = last
    BY <1>1, <2>1, PulsesEnds
  <2>. HIDE DEF two, b
  <2>10. \A st : Ends(mm, two, st) => Ends(mm, one, st) \/ Ends(one, two, st)
    BY <1>1, <2>4, EndsTrans
  <2>. QED  BY <1>2, <1>5, <2>2, <2>5, <2>7, <2>8, <2>9, <2>10 DEF b
<1>. QED  BY <1>4, <1>5
===============================================================================
