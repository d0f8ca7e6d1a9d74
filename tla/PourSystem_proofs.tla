-------------------------- MODULE PourSystem_proofs ---------------------------
(***************************************************************************)
(* Safety of a pour from the pulse to the database, for every number of    *)
(* sessions, faults, resets and pulses, every capacity of the result store *)
(* and every bound on the event queue: PourSystem's Inv is inductive, and  *)
(* its safety properties follow.                                           *)
(*                                                                         *)
(*   1  device steps: what they do to results, sequences and pulses        *)
(*   2  database transactions, one lemma each                              *)
(*   3  Sound, the part of Inv that ties device, events and database,      *)
(*      under each kind of step                                            *)
(*   4  the command queue and the task                                     *)
(*   5  Inv under each action, and the theorems                            *)
(***************************************************************************)
EXTENDS PourSystem, SessionMachine_proofs, FiniteSetTheorems

USE SidsAssumption, WidthAssumption, ClockAssumption, BootAssumption,
    TimelessAssumption, QueueAssumption

-------------------------------------------------------------------------------
(***************************************************************************)
(* 1  Device steps.                                                        *)
(***************************************************************************)

(* The pulses a machine itself has a record of. *)
Counted(mm, x) ==
  \/ \E i \in 1..Len(mm.results) :
       mm.results[i].life - mm.results[i].pulses < x /\ x <= mm.results[i].life
  \/ Base(mm) < x /\ x <= mm.lifetime

(* A step that keeps every result, adds none but that of the open event,   *)
(* and attributes no event.                                                *)
Continues(m1, m2) ==
  /\ GoodMachine(m2)
  /\ Floor(m1) <= Floor(m2) /\ Base(m1) <= Base(m2)
  /\ \A i \in 1..Len(m2.results) :
       \/ \E j \in 1..Len(m1.results) : m2.results[i] = m1.results[j]
       \/ /\ m1.active.present
          /\ m2.results[i].seq = m1.active.seq
          /\ m2.results[i].sid = m1.active.sid
          /\ Base(m1) <= m2.results[i].life - m2.results[i].pulses
  /\ \A j \in 1..Len(m1.results) : \E i \in 1..Len(m2.results) : m2.results[i] = m1.results[j]
  /\ m2.active.sid # NoSid =>
       m1.active.present /\ m2.active.sid = m1.active.sid /\ m2.active.seq = m1.active.seq

(* A step that counts no pulse and forgets none. *)
SamePulses(m1, m2) ==
  /\ m2.lifetime = m1.lifetime
  /\ m2.recovery = m1.recovery
  /\ \A x \in 1..m1.lifetime : Counted(m1, x) <=> Counted(m2, x)

(* The results of a good machine. *)
LEMMA ResultFields ==
  ASSUME NEW mm, GoodMachine(mm), NEW i \in 1..Len(mm.results)
  PROVE  /\ mm.results[i] \in Result
         /\ mm.results[i].seq \in Nat
         /\ mm.results[i].sid \in Sids \cup {NoSid}
         /\ mm.results[i].status \in TerminalStates
         /\ mm.results[i].pulses \in Nat
         /\ mm.results[i].life \in Nat
         /\ mm.results[i].pulses <= mm.results[i].life
         /\ mm.results[i].life <= Base(mm)
         /\ mm.results[i].seq < Floor(mm)
         /\ Base(mm) \in Nat /\ Base(mm) <= mm.lifetime
         /\ Floor(mm) \in Nat
<1>1. mm.results \in Seq(Result) /\ mm.lifetime \in Nat /\ mm.active.pulses \in Nat
  BY GoodFields
<1>2. mm.results[i] \in Result
  BY <1>1
<1>3. mm.results[i].pulses <= mm.results[i].life /\ mm.results[i].life <= Base(mm)
  BY DEF GoodMachine, PulsesDisjoint, Base
<1>4. Base(mm) \in Nat /\ Base(mm) <= mm.lifetime
  BY <1>1, SMTT(40) DEF GoodMachine, PulsesDisjoint, Base
<1>5. Floor(mm) \in Nat
  BY GoodFields DEF Floor
<1>6. mm.results[i].seq < Floor(mm)
  BY <1>2, GoodFields DEF GoodMachine, SequencesOrdered, Floor, Result
<1> QED BY <1>2, <1>3, <1>4, <1>5, <1>6 DEF Result

LEMMA BaseFloorType ==
  ASSUME NEW mm, GoodMachine(mm)
  PROVE  Base(mm) \in Nat /\ Base(mm) <= mm.lifetime /\ Floor(mm) \in Nat
         /\ mm.lifetime \in Nat
BY GoodFields, SMTT(40) DEF GoodMachine, PulsesDisjoint, Base, Floor

LEMMA ContinuesRefl ==
  ASSUME NEW mm, GoodMachine(mm)
  PROVE  Continues(mm, mm) /\ SamePulses(mm, mm)
<1>1. Floor(mm) \in Nat /\ Base(mm) \in Nat
  BY BaseFloorType
<1>2. mm.active.sid # NoSid => mm.active.present
  BY GoodFields DEF NoActive
<1> QED BY <1>1, <1>2 DEF Continues, SamePulses

(* Closing the open event moves its pulses into a result. *)
LEMMA FinalizeContinues ==
  ASSUME NEW mm, GoodMachine(mm), NEW status \in TerminalStates,
         status = "timed_out" => mm.active.pulses = 0,
         status = "complete" => mm.active.pulses > 0
  PROVE  /\ Continues(mm, Finalize(mm, status))
         /\ SamePulses(mm, Finalize(mm, status))
<1> DEFINE r == [seq |-> mm.active.seq, sid |-> mm.active.sid, status |-> status,
                 pulses |-> mm.active.pulses, life |-> mm.lifetime]
           f == Finalize(mm, status)
<1>0. GoodMachine(f)
  BY FinalizeGood
<1>1. CASE ~mm.active.present
  BY <1>1, ContinuesRefl DEF Finalize
<1>2. CASE mm.active.present
  <2>1. /\ mm \in Machine
        /\ mm.active \in Active
        /\ mm.results \in Seq(Result)
        /\ mm.lifetime \in Nat
        /\ mm.active.pulses \in Nat
        /\ mm.next \in Nat
        /\ Len(mm.results) \in Nat
    BY GoodFields
  <2>2. r \in Result
    BY <2>1 DEF Result, Active
  <2>3. f = [mm EXCEPT !.results = Append(mm.results, r),
                       !.active = NoActive, !.state = status]
    BY <1>2, GoodFields DEF Finalize, Full
  <2>4. /\ f.results = Append(mm.results, r)
        /\ f.active = NoActive
        /\ f.next = mm.next
        /\ f.lifetime = mm.lifetime
        /\ f.recovery = mm.recovery
    BY <2>1, <2>3 DEF Machine
  <2>5. /\ Len(f.results) = Len(mm.results) + 1
        /\ \A i \in 1..Len(mm.results) : f.results[i] = mm.results[i]
        /\ f.results[Len(mm.results) + 1] = r
    BY <2>1, <2>2, <2>4
  <2>6. r.seq = mm.active.seq /\ r.sid = mm.active.sid /\ r.life - r.pulses = Base(mm)
        /\ r.life = mm.lifetime
    BY DEF Base
  <2> HIDE DEF r, f
  <2>7. Floor(mm) <= Floor(f) /\ Base(mm) <= Base(f) /\ Base(f) = mm.lifetime
    <3>1. mm.active.seq \in 1..(mm.next - 1)
      BY <1>2 DEF GoodMachine, SequencesOrdered
    <3> QED BY <1>2, <2>1, <2>4, <3>1, BaseFloorType DEF Floor, Base, NoActive
  <2>8. \A i \in 1..Len(f.results) : i \in 1..Len(mm.results) \/ i = Len(mm.results) + 1
    BY <2>1, <2>5
  <2>9. Base(mm) \in Nat
    BY BaseFloorType
  <2>10. f.active.sid = NoSid
    BY <2>4 DEF NoActive
  <2>11. Len(mm.results) + 1 \in 1..Len(f.results) /\ 1..Len(mm.results) \subseteq 1..Len(f.results)
    BY <2>1, <2>5
  <2>12. Continues(mm, f)
    <3>1. \A i \in 1..Len(f.results) :
             \/ \E j \in 1..Len(mm.results) : f.results[i] = mm.results[j]
             \/ f.results[i] = r
      BY <2>5, <2>8
    <3>2. \A j \in 1..Len(mm.results) : \E i \in 1..Len(f.results) : f.results[i] = mm.results[j]
      BY <2>5, <2>11
    <3> QED BY <1>0, <1>2, <2>6, <2>7, <2>9, <2>10, <3>1, <3>2, SMTT(40) DEF Continues
  <2>13. SamePulses(mm, f)
    <3> SUFFICES ASSUME NEW x \in 1..mm.lifetime
                 PROVE  Counted(mm, x) <=> Counted(f, x)
      BY <2>4 DEF SamePulses
    <3>1. Counted(mm, x) <=>
            \/ \E i \in 1..Len(mm.results) :
                 mm.results[i].life - mm.results[i].pulses < x /\ x <= mm.results[i].life
            \/ r.life - r.pulses < x /\ x <= r.life
      BY <2>6 DEF Counted
    <3>2. Counted(f, x) <=>
            \E i \in 1..Len(f.results) :
                 f.results[i].life - f.results[i].pulses < x /\ x <= f.results[i].life
      BY <2>1, <2>4, <2>7 DEF Counted
    <3> QED BY <3>1, <3>2, <2>5, <2>8, <2>11
  <2> QED BY <2>12, <2>13 DEF f
<1> QED BY <1>1, <1>2

LEMMA SettleFields ==
  ASSUME NEW mm, GoodMachine(mm), NEW now \in Int
  PROVE  LET s == Settle(mm, now)
         IN  /\ s.results = mm.results
             /\ s.next = mm.next
             /\ s.lifetime = mm.lifetime
             /\ s.recovery = mm.recovery
             /\ s.active.present = mm.active.present
             /\ s.active.seq = mm.active.seq
             /\ s.active.sid = mm.active.sid
             /\ s.active.pulses = mm.active.pulses
BY GoodFields DEF Settle, Machine, Active

(* A machine that agrees with m1 on all that records are made of.          *)
LEMMA SameRecords ==
  ASSUME NEW m1, NEW m2, NEW m3, Continues(m2, m3), SamePulses(m2, m3),
         m2.results = m1.results, m2.next = m1.next,
         m2.lifetime = m1.lifetime, m2.recovery = m1.recovery,
         m2.active.present = m1.active.present, m2.active.seq = m1.active.seq,
         m2.active.sid = m1.active.sid, m2.active.pulses = m1.active.pulses
  PROVE  Continues(m1, m3) /\ SamePulses(m1, m3)
<1>1. Floor(m2) = Floor(m1) /\ Base(m2) = Base(m1)
  BY DEF Floor, Base
<1>2. \A x : Counted(m2, x) <=> Counted(m1, x)
  BY <1>1 DEF Counted
<1> QED BY <1>1, <1>2, SMTT(40) DEF Continues, SamePulses

LEMMA SettleContinues ==
  ASSUME NEW mm, GoodMachine(mm), NEW now \in Int
  PROVE  Continues(mm, Settle(mm, now)) /\ SamePulses(mm, Settle(mm, now))
<1> DEFINE s == Settle(mm, now)
<1>1. Continues(s, s) /\ SamePulses(s, s)
  BY SettleGood, ContinuesRefl
<1>2. /\ s.results = mm.results /\ s.next = mm.next
      /\ s.lifetime = mm.lifetime /\ s.recovery = mm.recovery
      /\ s.active.present = mm.active.present /\ s.active.seq = mm.active.seq
      /\ s.active.sid = mm.active.sid /\ s.active.pulses = mm.active.pulses
  BY SettleFields
<1> HIDE DEF s
<1>3. Continues(mm, s) /\ SamePulses(mm, s)
  BY <1>1, <1>2, SameRecords
<1> QED BY <1>3 DEF s

LEMMA TickContinues ==
  ASSUME NEW mm, GoodMachine(mm), NEW now \in Int
  PROVE  Continues(mm, Tick(mm, now)) /\ SamePulses(mm, Tick(mm, now))
<1> DEFINE s == Settle(mm, now)
<1>1. CASE mm.active.present /\ mm.active.state = "armed" /\ Due(now, mm.active.timer)
  <2>1. mm.active.pulses = 0
    BY <1>1, GoodFields
  <2>2. "timed_out" \in TerminalStates
    BY DEF TerminalStates
  <2> QED BY <1>1, <2>1, <2>2, FinalizeContinues DEF Tick
<1>2. CASE ~(mm.active.present /\ mm.active.state = "armed" /\ Due(now, mm.active.timer))
  <2>1. GoodMachine(s) /\ Continues(mm, s) /\ SamePulses(mm, s)
    BY SettleGood, SettleContinues
  <2>2. /\ s.results = mm.results /\ s.next = mm.next
        /\ s.lifetime = mm.lifetime /\ s.recovery = mm.recovery
        /\ s.active.present = mm.active.present /\ s.active.seq = mm.active.seq
        /\ s.active.sid = mm.active.sid /\ s.active.pulses = mm.active.pulses
    BY SettleFields
  <2>3. Tick(mm, now) =
          IF s.active.present /\ s.active.state = "settling" /\ Due(now, s.active.timer)
          THEN Finalize(s, "complete") ELSE s
    BY <1>2 DEF Tick
  <2> HIDE DEF s
  <2>4. CASE s.active.present /\ s.active.state = "settling"
    <3>1. s.active.pulses > 0
      BY <2>1, <2>4, GoodFields
    <3>2. "complete" \in TerminalStates
      BY DEF TerminalStates
    <3>3. Continues(s, Finalize(s, "complete")) /\ SamePulses(s, Finalize(s, "complete"))
      BY <2>1, <3>1, <3>2, FinalizeContinues
    <3>4. Continues(mm, Finalize(s, "complete")) /\ SamePulses(mm, Finalize(s, "complete"))
      BY <2>2, <3>3, SameRecords
    <3> QED BY <2>1, <2>3, <3>4
  <2>5. CASE ~(s.active.present /\ s.active.state = "settling")
    BY <2>1, <2>3, <2>5
  <2> QED BY <2>4, <2>5
<1> QED BY <1>1, <1>2

LEMMA CancelContinues ==
  ASSUME NEW mm, GoodMachine(mm), NEW seq \in Nat, NEW sid \in Sids
  PROVE  Continues(mm, Cancel(mm, seq, sid)) /\ SamePulses(mm, Cancel(mm, seq, sid))
<1>1. CASE CancelReply(mm, seq, sid) # "ok"
  BY <1>1, ContinuesRefl DEF Cancel
<1>2. CASE CancelReply(mm, seq, sid) = "ok" /\ mm.active.pulses = 0
  \* an armed event without pulses is dropped: nothing was counted in it
  <2> DEFINE g == [mm EXCEPT !.active = NoActive, !.state = "idle"]
  <2>1. Cancel(mm, seq, sid) = g
    BY <1>2 DEF Cancel
  <2>2. GoodMachine(g)
    BY <2>1, CancelGood
  <2>3. mm \in Machine /\ mm.lifetime \in Nat /\ mm.active.present
    BY <1>2, GoodFields DEF CancelReply, IsActive
  <2>4. /\ g.active = NoActive
        /\ g.results = mm.results
        /\ g.next = mm.next
        /\ g.lifetime = mm.lifetime
        /\ g.recovery = mm.recovery
    BY <2>3 DEF Machine
  <2> HIDE DEF g
  <2>5. Base(g) = mm.lifetime /\ Base(mm) = mm.lifetime /\ Floor(mm) <= Floor(g)
    <3>1. mm.active.seq \in 1..(mm.next - 1)
      BY <2>3 DEF GoodMachine, SequencesOrdered
    <3> QED BY <1>2, <2>3, <2>4, <3>1, GoodFields DEF Floor, Base, NoActive
  <2>6. Continues(mm, g)
    BY <2>2, <2>3, <2>4, <2>5 DEF Continues, NoActive
  <2>7. SamePulses(mm, g)
    BY <2>4, <2>5 DEF SamePulses, Counted
  <2> QED BY <2>1, <2>6, <2>7
<1>3. CASE CancelReply(mm, seq, sid) = "ok" /\ mm.active.pulses # 0
  <2>1. "interrupted" \in TerminalStates
    BY DEF TerminalStates
  <2> QED BY <1>3, <2>1, FinalizeContinues DEF Cancel
<1> QED BY <1>1, <1>2, <1>3

(* One counted pulse goes to an event, or, when no event can be opened, to *)
(* the recovery counter.                                                   *)
LEMMA PulseSteps ==
  ASSUME NEW mm, GoodMachine(mm), mm.lifetime < MaxPulses, mm.recovery <= mm.lifetime
  PROVE  LET a == AddPulses(mm, 1, 0)
         IN  /\ Continues(mm, a)
             /\ a.lifetime = mm.lifetime + 1
             /\ \A x \in 1..mm.lifetime : Counted(mm, x) <=> Counted(a, x)
             /\ \/ a.recovery = mm.recovery /\ Counted(a, mm.lifetime + 1)
                \/ a.recovery = mm.recovery + 1 /\ ~Counted(a, mm.lifetime + 1)
<1> DEFINE a == AddPulses(mm, 1, 0)
           total == mm.lifetime + 1
           u == [mm EXCEPT !.lifetime = total]
<1>1. /\ mm \in Machine
      /\ mm.active \in Active
      /\ mm.active.timer \in Int
      /\ mm.results \in Seq(Result)
      /\ mm.lifetime \in Nat
      /\ mm.recovery \in Nat
      /\ mm.active.pulses \in Nat
      /\ mm.next \in Nat
      /\ mm.active.seq \in Nat
  BY GoodFields
<1>2. mm.active.pulses <= mm.lifetime /\ mm.lifetime + 1 <= MaxLifetime
      /\ mm.active.pulses + 1 <= MaxResultPulses
  BY <1>1, SMTT(40) DEF GoodMachine, PulsesDisjoint
<1>3. GoodMachine(a)
  BY AddPulsesGood
<1>4. TickIfLate(mm, 0) = mm
  \* the clock of this composition stands still: no edge is ever late
  <2>1. Wrap(0 - mm.active.timer) = 0
    <3>1. 0 - mm.active.timer \in Int
      BY <1>1
    <3>2. Wrap(0 - mm.active.timer) \in 0..(ClockModulus - 1)
      BY <3>1, WrapType
    <3> QED BY <3>2
  <2> QED BY <2>1 DEF TickIfLate, After
<1>5. /\ u \in Machine
      /\ u.lifetime = mm.lifetime + 1
      /\ u.results = mm.results /\ u.active = mm.active
      /\ u.next = mm.next /\ u.recovery = mm.recovery
  <2>1. total \in Nat
    BY <1>1
  <2> HIDE DEF total
  <2>2. u.lifetime = total
    BY <1>1 DEF Machine
  <2> QED BY <1>1, <2>1, <2>2 DEF Machine, total
<1>6. a = IF u.active.present THEN Accumulate(u, 1, 0) ELSE OpenUnattributed(u, 1, 0)
  <2>1. ~(MaxLifetime - mm.lifetime < 1)
    BY <1>1, <1>2
  <2> QED BY <1>4, <2>1 DEF AddPulses, total
<1> HIDE DEF a, u, total
<1>7. /\ Base(mm) \in Nat /\ Base(mm) <= mm.lifetime
      /\ \A i \in 1..Len(mm.results) :
           /\ mm.results[i].life \in Nat
           /\ mm.results[i].life <= mm.lifetime
  BY ResultFields, BaseFloorType
<1>8. CASE mm.active.present
  <2>1. a = [u EXCEPT !.active.pulses = u.active.pulses + 1, !.active.timer = 0,
                      !.active.state = "pouring", !.state = "pouring"]
    <3>1. ~(u.active.pulses > MaxResultPulses \/ MaxResultPulses - u.active.pulses < 1)
      BY <1>1, <1>2, <1>5, SMTT(40)
    <3> QED BY <1>5, <1>6, <1>8, <3>1 DEF Accumulate
  <2>2. /\ a.lifetime = mm.lifetime + 1 /\ a.results = mm.results
        /\ a.next = mm.next /\ a.recovery = mm.recovery
        /\ a.active.pulses = mm.active.pulses + 1
        /\ a.active.present /\ a.active.seq = mm.active.seq
        /\ a.active.sid = mm.active.sid
    BY <1>1, <1>5, <1>8, <2>1 DEF Machine, Active
  <2>3. Base(a) = Base(mm) /\ Floor(a) = Floor(mm)
    BY <1>1, <1>8, <2>2, SMTT(40) DEF Base, Floor
  <2>4. Continues(mm, a)
    BY <1>1, <1>3, <1>8, <2>2, <2>3, BaseFloorType, SMTT(40) DEF Continues
  <2>5. /\ \A x \in 1..mm.lifetime : Counted(mm, x) <=> Counted(a, x)
        /\ Counted(a, mm.lifetime + 1)
    BY <1>1, <1>7, <2>2, <2>3, SMTT(40) DEF Counted
  <2> QED BY <2>2, <2>4, <2>5 DEF a
<1>9. CASE ~mm.active.present /\ ~(Full(u) \/ u.next = MaxSeq)
  <2>1. a = [u EXCEPT !.active = [present |-> TRUE, seq |-> u.next, sid |-> NoSid,
                                  state |-> "pouring", pulses |-> 1, timer |-> 0],
                      !.next = u.next + 1, !.state = "pouring"]
    BY <1>5, <1>6, <1>9 DEF OpenUnattributed
  <2>2. /\ a.lifetime = mm.lifetime + 1 /\ a.results = mm.results
        /\ a.next = mm.next + 1 /\ a.recovery = mm.recovery
        /\ a.active.pulses = 1 /\ mm.active.pulses = 0
        /\ a.active.present /\ a.active.seq = mm.next
        /\ a.active.sid = NoSid
    BY <1>1, <1>5, <1>9, <2>1, GoodFields DEF Machine
  <2>3. Base(a) = mm.lifetime /\ Base(mm) = mm.lifetime /\ Floor(a) = Floor(mm)
    BY <1>1, <1>9, <2>2, SMTT(40) DEF Base, Floor
  <2>4. Continues(mm, a)
    BY <1>1, <1>3, <1>9, <2>2, <2>3, BaseFloorType, SMTT(40) DEF Continues
  <2>5. /\ \A x \in 1..mm.lifetime : Counted(mm, x) <=> Counted(a, x)
        /\ Counted(a, mm.lifetime + 1)
    BY <1>1, <1>7, <2>2, <2>3 DEF Counted
  <2> QED BY <2>2, <2>4, <2>5 DEF a
<1>10. CASE ~mm.active.present /\ (Full(u) \/ u.next = MaxSeq)
  <2>1. a = [u EXCEPT !.recovery = u.recovery + 1]
    <3>1. ~(MaxLifetime - u.recovery < 1)
      BY <1>1, <1>2, <1>5
    <3> QED BY <1>5, <1>6, <1>10, <3>1 DEF OpenUnattributed, AddRecovery
  <2>2. /\ a.lifetime = mm.lifetime + 1 /\ a.results = mm.results
        /\ a.next = mm.next /\ a.recovery = mm.recovery + 1
        /\ a.active = mm.active /\ mm.active.pulses = 0 /\ mm.active.sid = NoSid
    BY <1>1, <1>5, <1>10, <2>1, GoodFields, SMTT(40) DEF Machine, NoActive
  <2>3. Base(a) = mm.lifetime + 1 /\ Base(mm) = mm.lifetime /\ Floor(a) = Floor(mm)
    BY <1>1, <1>10, <2>2 DEF Base, Floor
  <2>4. Continues(mm, a)
    BY <1>1, <1>3, <1>10, <2>2, <2>3, BaseFloorType DEF Continues
  <2>5. /\ \A x \in 1..mm.lifetime : Counted(mm, x) <=> Counted(a, x)
        /\ ~Counted(a, mm.lifetime + 1)
    BY <1>1, <1>7, <2>2, <2>3, SMTT(40) DEF Counted
  <2> QED BY <2>2, <2>4, <2>5 DEF a
<1> QED BY <1>8, <1>9, <1>10

(* ARM opens an empty event for its session, or changes nothing. *)
LEMMA ArmSteps ==
  ASSUME NEW mm, GoodMachine(mm), NEW seq \in Nat, NEW sid \in Sids
  PROVE  LET a == Arm(mm, seq, sid, 0, 0)
         IN  \/ a = mm
             \/ /\ GoodMachine(a)
                /\ ~mm.active.present
                /\ Floor(mm) <= Floor(a) /\ Base(a) = Base(mm)
                /\ a.results = mm.results
                /\ a.active.sid = sid /\ a.active.seq = seq
                /\ SamePulses(mm, a)
<1> DEFINE a == Arm(mm, seq, sid, 0, 0)
           event == [present |-> TRUE, seq |-> mm.next, sid |-> sid,
                     state |-> "armed", pulses |-> 0, timer |-> Wrap(0 + 0)]
<1>1. CASE ArmReply(mm, seq, sid) # "ok"
  BY <1>1 DEF Arm
<1>2. CASE ArmReply(mm, seq, sid) = "ok"
  <2>1. ~mm.active.present /\ seq = mm.next
    BY <1>2 DEF ArmReply
  <2>2. a = [mm EXCEPT !.active = event, !.next = mm.next + 1, !.state = "armed"]
    BY <1>2 DEF Arm
  <2>9. /\ event.present /\ event.seq = mm.next /\ event.sid = sid
        /\ event.pulses = 0
    OBVIOUS
  <2> HIDE DEF event, a
  <2>3. mm \in Machine /\ mm.next \in Nat /\ mm.active.pulses = 0 /\ mm.lifetime \in Nat
    BY <2>1, GoodFields
  <2>4. /\ a.results = mm.results /\ a.lifetime = mm.lifetime /\ a.recovery = mm.recovery
        /\ a.active.present /\ a.active.seq = mm.next /\ a.active.sid = sid
        /\ a.active.pulses = 0
    BY <2>2, <2>3, <2>9 DEF Machine
  <2>5. GoodMachine(a)
    BY ArmGood DEF a
  <2>6. Base(a) = Base(mm) /\ Floor(a) = Floor(mm) /\ Floor(mm) \in Nat
    BY <2>1, <2>3, <2>4 DEF Base, Floor
  <2>7. SamePulses(mm, a)
    BY <2>4, <2>6 DEF SamePulses, Counted
  <2> QED BY <2>1, <2>4, <2>5, <2>6, <2>7 DEF a
<1> QED BY <1>1, <1>2

(* ACK drops at most the result of its sequence. *)
LEMMA AcknowledgeSteps ==
  ASSUME NEW mm, GoodMachine(mm), NEW seq \in Nat
  PROVE  LET a == Acknowledge(mm, seq)
         IN  /\ GoodMachine(a)
             /\ a.active = mm.active /\ a.next = mm.next
             /\ a.lifetime = mm.lifetime /\ a.recovery = mm.recovery
             /\ \A j \in 1..Len(a.results) :
                  \E i \in 1..Len(mm.results) : a.results[j] = mm.results[i]
             /\ \A i \in 1..Len(mm.results) :
                  \/ mm.results[i].seq = seq
                  \/ \E j \in 1..Len(a.results) : a.results[j] = mm.results[i]
<1> DEFINE a == Acknowledge(mm, seq)
<1>1. GoodMachine(a)
  BY AcknowledgeGood
<1>2. CASE \A i \in 1..Len(mm.results) : mm.results[i].seq # seq
  BY <1>1, <1>2 DEF Acknowledge
<1>3. CASE ~(\A i \in 1..Len(mm.results) : mm.results[i].seq # seq)
  <2> DEFINE First(k) == /\ mm.results[k].seq = seq
                         /\ \A j \in 1..(k - 1) : mm.results[j].seq # seq
             n == CHOOSE k \in 1..Len(mm.results) : First(k)
             rest == Without(mm.results, n)
  <2>1. mm \in Machine /\ mm.results \in Seq(Result) /\ Len(mm.results) \in Nat
    BY GoodFields
  <2>2. n \in 1..Len(mm.results) /\ mm.results[n].seq = seq
    <3>1. PICK k \in 1..Len(mm.results) : mm.results[k].seq = seq
      BY <1>3
    <3>2. \A j \in 1..(k - 1) : mm.results[j].seq # seq
      <4> SUFFICES ASSUME NEW j \in 1..(k - 1) PROVE mm.results[j].seq # seq
        OBVIOUS
      <4>1. j \in 1..Len(mm.results) /\ j < k
        BY <2>1, <3>1
      <4>2. mm.results[j].seq < mm.results[k].seq
        BY <3>1, <4>1 DEF GoodMachine, SequencesOrdered
      <4> QED BY <3>1, <4>1, <4>2, ResultFields
    <3>3. First(k)
      BY <3>1, <3>2
    <3> HIDE DEF First
    <3>4. First(n)
      BY <3>1, <3>3
    <3>5. First(n) => mm.results[n].seq = seq
      BY DEF First
    <3> QED BY <3>1, <3>3, <3>4, <3>5
  <2>3. a = [mm EXCEPT !.results = rest,
                       !.state = IF ~mm.active.present /\ mm.state \in TerminalStates
                                 THEN "idle" ELSE mm.state]
    BY <1>3 DEF Acknowledge
  <2> HIDE DEF n
  <2>4. /\ Len(rest) = Len(mm.results) - 1
        /\ \A j \in 1..Len(rest) : rest[j] = mm.results[IF j < n THEN j ELSE j + 1]
    BY <2>1, <2>2, WithoutResult
  <2> HIDE DEF rest
  <2>5. /\ a.results = rest /\ a.active = mm.active /\ a.next = mm.next
        /\ a.lifetime = mm.lifetime /\ a.recovery = mm.recovery
    BY <2>1, <2>3 DEF Machine
  <2>6. \A j \in 1..Len(rest) : (IF j < n THEN j ELSE j + 1) \in 1..Len(mm.results)
    BY <2>1, <2>2, <2>4
  <2>7. \A i \in 1..Len(mm.results) :
          i # n => \E j \in 1..Len(rest) : rest[j] = mm.results[i]
    <3> SUFFICES ASSUME NEW i \in 1..Len(mm.results), i # n
                 PROVE  \E j \in 1..Len(rest) : rest[j] = mm.results[i]
      OBVIOUS
    <3>1. CASE i < n
      <4>1. i \in 1..Len(rest) /\ rest[i] = mm.results[i]
        BY <2>1, <2>2, <2>4, <3>1
      <4> QED BY <4>1
    <3>2. CASE i > n
      <4>1. i - 1 \in 1..Len(rest) /\ ~(i - 1 < n) /\ (i - 1) + 1 = i
        BY <2>1, <2>2, <2>4, <3>2
      <4> QED BY <2>4, <4>1
    <3> QED BY <2>2, <3>1, <3>2
  <2> QED BY <1>1, <2>2, <2>4, <2>5, <2>6, <2>7, ZenonT(60) DEF a
<1> QED BY <1>2, <1>3

-------------------------------------------------------------------------------
(***************************************************************************)
(* 2  Database transactions.                                               *)
(***************************************************************************)

(* What every transaction keeps: the binding of a bound session, the end   *)
(* of a closed one, and the committed results.                             *)
DbStep(d, d2) ==
  /\ GoodDatabase(d2)
  /\ \A s \in Sids :
       /\ d.sessions[s].boot # NoBoot =>
            d2.sessions[s].boot = d.sessions[s].boot /\ d2.sessions[s].seq = d.sessions[s].seq
       /\ d.sessions[s].status \in ClosedStatuses => d2.sessions[s].status \in ClosedStatuses
       /\ d.sessions[s].status # "none" => d2.sessions[s].status # "none"
  /\ d.results \subseteq d2.results

LEMMA StatusesApart ==
  /\ ActiveStatuses \cap ClosedStatuses = {}
  /\ "none" \notin ActiveStatuses \cup ClosedStatuses
BY DEF ActiveStatuses, ClosedStatuses

LEMMA DatabaseFields ==
  ASSUME NEW d, d \in Database
  PROVE  /\ d.sessions \in [Sids -> Session]
         /\ d.results \subseteq ResultRow
         /\ d.pours \in Seq(Pour)
         /\ \A s \in Sids :
              /\ d.sessions[s] \in Session
              /\ d.sessions[s].status \in {"none"} \cup ActiveStatuses \cup ClosedStatuses
              /\ d.sessions[s].purpose \in Purposes
              /\ d.sessions[s].boot \in Nat
              /\ d.sessions[s].seq \in Nat
              /\ d.sessions[s].life \in Nat
<1>1. d.sessions \in [Sids -> Session] /\ d.results \subseteq ResultRow /\ d.pours \in Seq(Pour)
  BY DEF Database
<1>2. \A s \in Sids : d.sessions[s] \in Session
  BY <1>1
<1> QED BY <1>1, <1>2 DEF Session

LEMMA DbStepRefl ==
  ASSUME NEW d, GoodDatabase(d)
  PROVE  DbStep(d, d)
BY DEF DbStep

(* A transaction that writes the row of session s, and may commit a result *)
(* and a pour.                                                             *)
WritesRow(d, d2, s, row) ==
  /\ d2 \in Database /\ row \in Session
  /\ d2.sessions = [d.sessions EXCEPT ![s] = row]
  /\ PoursHaveRows(d2)
  /\ d.results \subseteq d2.results
  /\ row.status # "none"
  /\ d.sessions[s].status \in ClosedStatuses => row.status \in ClosedStatuses
  /\ row.status \in ActiveStatuses => s \in ActiveSessions(d) \/ ActiveSessions(d) = {}
  /\ d.sessions[s].boot # NoBoot =>
       row.boot = d.sessions[s].boot /\ row.seq = d.sessions[s].seq

LEMMA SessionChange ==
  ASSUME NEW d, GoodDatabase(d), NEW d2, NEW s \in Sids, NEW row, WritesRow(d, d2, s, row)
  PROVE  /\ DbStep(d, d2)
         /\ d2.sessions[s] = row
         /\ \A t \in Sids : t # s => d2.sessions[t] = d.sessions[t]
<1>1. d.sessions \in [Sids -> Session]
  BY DatabaseFields DEF GoodDatabase
<1>2. /\ d2.sessions[s] = row
      /\ \A t \in Sids : t # s => d2.sessions[t] = d.sessions[t]
  BY <1>1 DEF WritesRow
<1>3. \A t \in Sids :
        /\ t \in ActiveSessions(d) <=> d.sessions[t].status \in ActiveStatuses
        /\ t \in ActiveSessions(d2) <=> d2.sessions[t].status \in ActiveStatuses
  BY DEF ActiveSessions
<1>4. \A t, u \in ActiveSessions(d2) : t = u
  <2> SUFFICES ASSUME NEW t \in ActiveSessions(d2), NEW u \in ActiveSessions(d2)
               PROVE  t = u
    OBVIOUS
  <2>1. t \in Sids /\ u \in Sids
    BY DEF ActiveSessions
  <2>2. CASE t # s /\ u # s
    <3>1. t \in ActiveSessions(d) /\ u \in ActiveSessions(d)
      BY <1>2, <1>3, <2>1, <2>2
    <3> QED BY <3>1 DEF GoodDatabase
  <2>3. CASE t = s /\ u # s
    <3>1. row.status \in ActiveStatuses /\ u \in ActiveSessions(d)
      BY <1>2, <1>3, <2>1, <2>3
    <3>2. s \in ActiveSessions(d)
      BY <3>1 DEF WritesRow
    <3> QED BY <2>3, <3>1, <3>2 DEF GoodDatabase
  <2>4. CASE t # s /\ u = s
    <3>1. row.status \in ActiveStatuses /\ t \in ActiveSessions(d)
      BY <1>2, <1>3, <2>1, <2>4
    <3>2. s \in ActiveSessions(d)
      BY <3>1 DEF WritesRow
    <3> QED BY <2>4, <3>1, <3>2 DEF GoodDatabase
  <2> QED BY <2>2, <2>3, <2>4
<1>5. \A t \in Sids : d2.sessions[t].status = "none" => d2.sessions[t].boot = NoBoot
  BY <1>2 DEF GoodDatabase, WritesRow
<1>6. GoodDatabase(d2)
  BY <1>4, <1>5 DEF GoodDatabase, WritesRow
<1> QED BY <1>2, <1>6 DEF DbStep, WritesRow

(* update_provisional_status() of a session, active before if afterwards. *)
LEMMA UpdateStatusSteps ==
  ASSUME NEW d, GoodDatabase(d), NEW s \in Sids,
         NEW status \in ActiveStatuses \cup ClosedStatuses,
         d.sessions[s].status \in ClosedStatuses => status \in ClosedStatuses,
         status \in ActiveStatuses => s \in ActiveSessions(d)
  PROVE  LET u == UpdateStatus(d, s, status)
         IN  /\ DbStep(d, u)
             /\ u.results = d.results /\ u.pours = d.pours
             /\ u.sessions[s].status = status
             /\ u.sessions[s].boot = d.sessions[s].boot /\ u.sessions[s].seq = d.sessions[s].seq
             /\ \A t \in Sids : t # s => u.sessions[t] = d.sessions[t]
<1> DEFINE u == UpdateStatus(d, s, status)
           row == [d.sessions[s] EXCEPT !.status = status]
<1>1. d \in Database /\ d.sessions \in [Sids -> Session] /\ d.sessions[s] \in Session
  BY DatabaseFields DEF GoodDatabase
<1>2. /\ row \in Session /\ row.status = status
      /\ row.boot = d.sessions[s].boot /\ row.seq = d.sessions[s].seq
  BY <1>1 DEF Session
<1>3. /\ u.sessions = [d.sessions EXCEPT ![s] = row]
      /\ u.results = d.results /\ u.pours = d.pours
  BY <1>1 DEF UpdateStatus, Database
<1> HIDE DEF row
<1>4. u \in Database
  BY <1>1, <1>2 DEF UpdateStatus, Database, row
<1> HIDE DEF u
<1>5. PoursHaveRows(u)
  BY <1>3 DEF PoursHaveRows, GoodDatabase
<1>6. WritesRow(d, u, s, row)
  BY <1>2, <1>3, <1>4, <1>5, StatusesApart DEF WritesRow
<1>7. /\ DbStep(d, u)
      /\ u.sessions[s] = row
      /\ \A t \in Sids : t # s => u.sessions[t] = d.sessions[t]
  BY <1>6, SessionChange
<1> QED BY <1>2, <1>3, <1>7 DEF u

LEMMA CreateSteps ==
  ASSUME NEW d, GoodDatabase(d), NEW s \in Sids, NEW purpose \in Purposes,
         CreateProvisional(d, s, purpose) # d
  PROVE  LET c == CreateProvisional(d, s, purpose)
         IN  /\ DbStep(d, c)
             /\ c.results = d.results /\ c.pours = d.pours
             /\ d.sessions[s].status = "none" /\ d.sessions[s].boot = NoBoot
             /\ c.sessions[s].status = "arming" /\ c.sessions[s].boot = NoBoot
             /\ \A t \in Sids : t # s => c.sessions[t] = d.sessions[t]
<1> DEFINE c == CreateProvisional(d, s, purpose)
           row == [d.sessions[s] EXCEPT !.status = "arming", !.purpose = purpose]
<1>1. d \in Database /\ d.sessions \in [Sids -> Session] /\ d.sessions[s] \in Session
  BY DatabaseFields DEF GoodDatabase
<1>2. /\ d.sessions[s].status = "none" /\ ActiveSessions(d) = {}
      /\ c = [d EXCEPT !.sessions[s].status = "arming", !.sessions[s].purpose = purpose]
  BY DEF CreateProvisional
<1>3. /\ row \in Session /\ row.status = "arming"
      /\ row.boot = d.sessions[s].boot /\ row.seq = d.sessions[s].seq
  BY <1>1 DEF Session, ActiveStatuses
<1>4. /\ c.sessions = [d.sessions EXCEPT ![s] = row]
      /\ c.results = d.results /\ c.pours = d.pours
      /\ c \in Database
  <2>1. c = [d EXCEPT !.sessions = [d.sessions EXCEPT ![s] = row]]
    BY <1>1, <1>2 DEF Database, Session
  <2> HIDE DEF row, c
  <2> QED BY <1>1, <1>3, <2>1 DEF Database
<1> HIDE DEF row, c
<1>5. PoursHaveRows(c)
  BY <1>4 DEF PoursHaveRows, GoodDatabase
<1>6. d.sessions[s].boot = NoBoot
  BY <1>2 DEF GoodDatabase
<1>7. WritesRow(d, c, s, row)
  BY <1>2, <1>3, <1>4, <1>5, <1>6, StatusesApart DEF WritesRow
<1>8. /\ DbStep(d, c)
      /\ c.sessions[s] = row
      /\ \A t \in Sids : t # s => c.sessions[t] = d.sessions[t]
  BY <1>7, SessionChange
<1> QED BY <1>2, <1>3, <1>4, <1>6, <1>8 DEF c

(* bind_provisional() of session s. *)
Binds(d, u, s, b, seq) ==
  /\ DbStep(d, u)
  /\ u.results = d.results /\ u.pours = d.pours
  /\ u.sessions[s].status = "armed"
  /\ u.sessions[s].boot = b /\ u.sessions[s].seq = seq
  /\ \A t \in Sids : t # s => u.sessions[t] = d.sessions[t]

LEMMA BindSteps ==
  ASSUME NEW d, GoodDatabase(d), NEW s \in Sids, NEW b \in Nat, NEW seq \in Nat, NEW life \in Nat,
         d.sessions[s].status = "arming", d.sessions[s].boot = NoBoot
  PROVE  Binds(d, BindProvisional(d, s, b, seq, life), s, b, seq)
<1> DEFINE u == BindProvisional(d, s, b, seq, life)
           row == [d.sessions[s] EXCEPT !.status = "armed", !.boot = b, !.seq = seq, !.life = life]
<1>1. d \in Database /\ d.sessions \in [Sids -> Session] /\ d.sessions[s] \in Session
  BY DatabaseFields DEF GoodDatabase
<1>2. row \in Session /\ row.status = "armed" /\ row.boot = b /\ row.seq = seq
  BY <1>1 DEF Session, ActiveStatuses
<1> HIDE DEF row
<1>3. /\ u.sessions = [d.sessions EXCEPT ![s] = row]
      /\ u.results = d.results /\ u.pours = d.pours
      /\ u \in Database
  <2>1. u = [d EXCEPT !.sessions = [d.sessions EXCEPT ![s] = row]]
    BY <1>1 DEF BindProvisional, Database, row
  <2> HIDE DEF u
  <2> QED BY <1>1, <1>2, <2>1 DEF Database
<1> HIDE DEF u
<1>4. PoursHaveRows(u)
  BY <1>3 DEF PoursHaveRows, GoodDatabase
<1>5. s \in ActiveSessions(d) /\ "arming" \notin ClosedStatuses
  BY DEF ActiveSessions, ActiveStatuses, ClosedStatuses
<1>6. WritesRow(d, u, s, row)
  BY <1>2, <1>3, <1>4, <1>5 DEF WritesRow
<1>7. /\ DbStep(d, u)
      /\ u.sessions[s] = row
      /\ \A t \in Sids : t # s => u.sessions[t] = d.sessions[t]
  BY <1>6, SessionChange
<1> QED BY <1>2, <1>3, <1>7 DEF u, Binds

(* A pour appended to the table is the last one. *)
LEMMA AppendedPour ==
  ASSUME NEW s \in Seq(Pour), NEW p \in Pour
  PROVE  /\ Append(s, p) \in Seq(Pour)
         /\ Len(s) \in Nat
         /\ Len(Append(s, p)) = Len(s) + 1
         /\ \A i \in 1..Len(Append(s, p)) :
              \/ i \in 1..Len(s) /\ Append(s, p)[i] = s[i]
              \/ i = Len(s) + 1 /\ Append(s, p)[i] = p
<1>1. /\ Append(s, p) \in Seq(Pour) /\ Len(s) \in Nat
      /\ Len(Append(s, p)) = Len(s) + 1
  OBVIOUS
<1> SUFFICES ASSUME NEW i \in 1..Len(Append(s, p))
             PROVE  \/ i \in 1..Len(s) /\ Append(s, p)[i] = s[i]
                    \/ i = Len(s) + 1 /\ Append(s, p)[i] = p
  BY <1>1
<1>2. i \in 1..Len(s) \/ i = Len(s) + 1
  BY <1>1
<1> QED BY <1>2

(* No result is committed, and no pour is added but for a recovered delta. *)
CommitsNothing(d, d2) ==
  /\ d2.results = d.results
  /\ \A i \in 1..Len(d2.pours) :
       d2.pours[i].origin = "result" => i \in 1..Len(d.pours) /\ d2.pours[i] = d.pours[i]

(* No session but those of S fails. *)
FailsOnly(d, d2, S) ==
  \A t \in Sids \ S : d2.sessions[t].status = "failed" => d.sessions[t].status = "failed"

LEMMA TerminalIsClosed == TerminalStates \subseteq ClosedStatuses \ {"failed"}
BY DEF TerminalStates, ClosedStatuses

(* finalize_device_result() does nothing, or commits the row of a result   *)
(* that is bound and was not committed, with at most one pour, of that row. *)
LEMMA FinalizeResultSteps ==
  ASSUME NEW d, GoodDatabase(d), NEW b \in Nat, NEW r \in Result, r.pulses <= r.life
  PROVE  LET f == FinalizeResult(d, b, r)
             row == RowOf(b, r)
         IN  /\ DbStep(d, f)
             /\ FailsOnly(d, f, {})
             /\ MatchesBinding(d, b, r) => Committed(f, b, r.seq)
             /\ \/ f = d
                \/ /\ ~Committed(d, b, r.seq)
                   /\ f.results = d.results \cup {row}
                   /\ \/ f.pours = d.pours
                      \/ \E p \in Pour : /\ f.pours = Append(d.pours, p)
                                         /\ p.boot = b /\ p.from = row.from /\ p.to = row.to
<1> DEFINE f == FinalizeResult(d, b, r)
           row == RowOf(b, r)
           p == [origin |-> "result", boot |-> b, sid |-> r.sid,
                 from |-> row.from, to |-> row.to]
           attributed == r.sid # NoSid
           noPour == \/ attributed /\ d.sessions[r.sid].purpose # "pour"
                     \/ r.status = "timed_out" /\ r.pulses = 0
           pours == IF noPour THEN d.pours ELSE Append(d.pours, p)
           ended == [d.sessions[r.sid] EXCEPT !.status = StatusAfter(d.sessions[r.sid], r)]
           sessions == IF attributed THEN [d.sessions EXCEPT ![r.sid] = ended] ELSE d.sessions
<1>1. /\ d \in Database /\ d.sessions \in [Sids -> Session]
      /\ d.results \subseteq ResultRow /\ d.pours \in Seq(Pour)
  BY DatabaseFields DEF GoodDatabase
<1>2. /\ r.seq \in Nat /\ r.sid \in Sids \cup {NoSid} /\ r.status \in TerminalStates
      /\ r.pulses \in Nat /\ r.life \in Nat
  BY DEF Result
<1>3. /\ row \in ResultRow
      /\ row.boot = b /\ row.seq = r.seq /\ row.from \in Nat /\ row.to \in Nat
  BY <1>2 DEF RowOf, ResultRow
<1> HIDE DEF row
<1>4. /\ p \in Pour /\ p.boot = b /\ p.from = row.from /\ p.to = row.to
  BY <1>2, <1>3 DEF Pour
<1> HIDE DEF p
<1>5. CASE ~MatchesBinding(d, b, r) \/ Committed(d, b, r.seq)
  BY <1>5, DbStepRefl DEF FinalizeResult, FailsOnly
<1>6. CASE MatchesBinding(d, b, r) /\ ~Committed(d, b, r.seq)
  <2>1. f = [d EXCEPT !.results = d.results \cup {row}, !.pours = pours, !.sessions = sessions]
    <3>1. f = [d EXCEPT !.results = d.results \cup {row},
                        !.pours = IF noPour THEN d.pours ELSE Append(d.pours, p),
                        !.sessions = IF attributed
                           THEN [d.sessions EXCEPT ![r.sid].status =
                                   StatusAfter(d.sessions[r.sid], r)]
                           ELSE d.sessions]
      BY <1>1, <1>6 DEF FinalizeResult, p, row, Database
    <3> QED BY <3>1
  <2> HIDE DEF f
  <2>2. pours \in Seq(Pour) /\ (pours = d.pours \/ pours = Append(d.pours, p))
    BY <1>1, <1>4, AppendedPour
  <2>3. attributed => /\ ended \in Session
                      /\ ended.status \in ClosedStatuses /\ ended.status # "failed"
                      /\ ended.boot = d.sessions[r.sid].boot
                      /\ ended.seq = d.sessions[r.sid].seq
    <3>1. StatusAfter(d.sessions[r.sid], r) \in ClosedStatuses \ {"failed"}
      BY <1>2, TerminalIsClosed DEF StatusAfter, ClosedStatuses
    <3>2. attributed => d.sessions[r.sid] \in Session
      BY <1>1, <1>2
    <3> QED BY <3>1, <3>2 DEF Session
  <2>4. sessions \in [Sids -> Session]
    BY <1>1, <1>2, <2>3
  <2> HIDE DEF pours, sessions, ended
  <2>5. /\ f \in Database
        /\ f.results = d.results \cup {row}
        /\ f.pours = pours /\ f.sessions = sessions
    BY <1>1, <1>3, <2>1, <2>2, <2>4 DEF Database
  <2>6. PoursHaveRows(f)
    <3> SUFFICES ASSUME NEW i \in 1..Len(pours), pours[i].origin = "result"
                 PROVE  \E x \in f.results : /\ x.boot = pours[i].boot
                                             /\ x.from = pours[i].from
                                             /\ x.to = pours[i].to
      BY <2>5 DEF PoursHaveRows
    <3>1. CASE pours[i] = p
      BY <1>3, <1>4, <2>5, <3>1
    <3>2. CASE i \in 1..Len(d.pours) /\ pours[i] = d.pours[i]
      BY <2>5, <3>2 DEF GoodDatabase, PoursHaveRows
    <3> QED BY <1>1, <1>4, <2>2, <3>1, <3>2, AppendedPour
  <2>7. Committed(f, b, r.seq)
    BY <1>3, <2>5 DEF Committed
  <2>8. DbStep(d, f) /\ FailsOnly(d, f, {})
    <3>1. CASE attributed
      <4>1. r.sid \in Sids
        BY <1>2, <3>1
      <4>2. sessions = [d.sessions EXCEPT ![r.sid] = ended]
        BY <3>1 DEF sessions
      <4>3. WritesRow(d, f, r.sid, ended)
        BY <2>3, <2>5, <2>6, <3>1, <4>2, StatusesApart DEF WritesRow
      <4>4. /\ DbStep(d, f)
            /\ f.sessions[r.sid] = ended
            /\ \A t \in Sids : t # r.sid => f.sessions[t] = d.sessions[t]
        BY <4>1, <4>3, SessionChange, SMTT(40)
      <4> QED BY <2>3, <3>1, <4>4 DEF FailsOnly
    <3>2. CASE ~attributed
      <4>1. f.sessions = d.sessions
        BY <2>5, <3>2 DEF sessions
      <4>2. ActiveSessions(f) = ActiveSessions(d)
        BY <4>1 DEF ActiveSessions
      <4>3. GoodDatabase(f)
        BY <2>5, <2>6, <4>1, <4>2 DEF GoodDatabase
      <4> QED BY <2>5, <4>1, <4>3 DEF DbStep, FailsOnly
    <3> QED BY <3>1, <3>2
  <2> QED BY <1>4, <1>6, <2>2, <2>5, <2>7, <2>8 DEF f, row
<1> QED BY <1>5, <1>6

(* recover_same_boot_delta() of an active session. *)
LEMMA RecoverSteps ==
  ASSUME NEW d, GoodDatabase(d), NEW s \in ActiveSessions(d), NEW b \in Nat, NEW current \in Nat
  PROVE  LET u == RecoverDelta(d, s, b, current)
         IN  DbStep(d, u) /\ CommitsNothing(d, u) /\ FailsOnly(d, u, {})
<1> DEFINE u == RecoverDelta(d, s, b, current)
           p == [origin |-> "delta", boot |-> b, sid |-> NoSid,
                 from |-> d.sessions[s].life, to |-> current]
           pouring == d.sessions[s].purpose = "pour"
           end == IF pouring THEN "interrupted_uncertain" ELSE "complete"
           row == [d.sessions[s] EXCEPT !.status = end]
           pours == IF pouring THEN Append(d.pours, p) ELSE d.pours
<1>0. s \in Sids
  BY DEF ActiveSessions
<1>1. /\ d \in Database /\ d.sessions \in [Sids -> Session] /\ d.sessions[s] \in Session
      /\ d.pours \in Seq(Pour) /\ d.sessions[s].life \in Nat
  BY <1>0, DatabaseFields DEF GoodDatabase
<1>2. end \in ClosedStatuses /\ end # "failed"
  BY DEF ClosedStatuses
<1> HIDE DEF end
<1>3. /\ row \in Session /\ row.status = end
      /\ row.boot = d.sessions[s].boot /\ row.seq = d.sessions[s].seq
  BY <1>1, <1>2 DEF Session
<1> HIDE DEF row
<1>4. p \in Pour /\ p.origin = "delta"
  BY <1>1 DEF Pour
<1> HIDE DEF p
<1>5. pours \in Seq(Pour) /\ (pours = d.pours \/ pours = Append(d.pours, p))
  BY <1>1, <1>4, AppendedPour
<1>6. u = [d EXCEPT !.pours = pours, !.sessions = [d.sessions EXCEPT ![s] = row]]
  <2>1. CASE pouring
    BY <1>1, <2>1 DEF RecoverDelta, Database, p, row, end
  <2>2. CASE ~pouring
    BY <1>1, <2>2 DEF RecoverDelta, Database, row, end
  <2> QED BY <2>1, <2>2
<1> HIDE DEF u, pours, pouring
<1>7. /\ u \in Database
      /\ u.results = d.results /\ u.pours = pours
      /\ u.sessions = [d.sessions EXCEPT ![s] = row]
  BY <1>1, <1>3, <1>5, <1>6 DEF Database
<1>8. CommitsNothing(d, u)
  BY <1>1, <1>4, <1>5, <1>7, AppendedPour DEF CommitsNothing
<1>9. PoursHaveRows(u)
  BY <1>7, <1>8 DEF CommitsNothing, PoursHaveRows, GoodDatabase
<1>10. WritesRow(d, u, s, row)
  BY <1>2, <1>3, <1>7, <1>9, StatusesApart DEF WritesRow
<1>11. /\ DbStep(d, u)
       /\ u.sessions[s] = row
       /\ \A t \in Sids : t # s => u.sessions[t] = d.sessions[t]
  BY <1>0, <1>10, SessionChange
<1> QED BY <1>2, <1>3, <1>8, <1>11 DEF FailsOnly, u

-------------------------------------------------------------------------------
(***************************************************************************)
(* 3  The device, the events on their way and the database.                *)
(***************************************************************************)

(* AttributedEventIsBound, ArmedSessionIsNotFailed, MeasuredPulsesKept and *)
(* ResultsCountedOnce, of arguments.                                       *)
BoundIn(b, mm, ev, d) ==
  /\ \A i \in 1..Len(mm.results) : MatchesBinding(d, b, mm.results[i])
  /\ mm.active.present => MatchesBinding(d, b, mm.active)
  /\ \A i \in 1..Len(ev) :
       ev[i].kind = "result" => MatchesBinding(d, ev[i].boot, ev[i].result)

OnDevice(mm, s) ==
  mm.active.sid = s \/ \E i \in 1..Len(mm.results) : mm.results[i].sid = s

NoneFailed(mm, d) ==
  \A s \in Sids : OnDevice(mm, s) => d.sessions[s].status # "failed"

Unrecorded(b, mm, d) == (1..mm.lifetime) \ Recorded(b, mm, d)

PulsesKept(b, mm, d) == Cardinality(Unrecorded(b, mm, d)) = mm.recovery

PoursApart(d) ==
  \A i, j \in 1..Len(d.pours) :
    LET p == d.pours[i]
        q == d.pours[j]
    IN  (i < j /\ p.origin = "result" /\ q.origin = "result" /\ p.boot = q.boot)
          => (p.to <= q.from \/ q.to <= p.from)

Sound(b, mm, ev, d) ==
  /\ b \in Nat \ {0}
  /\ GoodMachine(mm) /\ mm.lifetime <= MaxPulses
  /\ ev \in Seq(Event)
  /\ GoodDatabase(d)
  /\ RecordsAgree(b, mm, ev, d)
  /\ ReplaysAreHeld(b, mm, ev, d)
  /\ BoundIn(b, mm, ev, d)
  /\ NoneFailed(mm, d)
  /\ PulsesKept(b, mm, d)
  /\ PoursApart(d)

LEMMA KnownCases ==
  ASSUME NEW b, NEW mm, NEW ev, NEW d, NEW x
  PROVE  x \in Known(b, mm, ev, d) <=>
           \/ x \in d.results
           \/ \E i \in 1..Len(mm.results) : x = RowOf(b, mm.results[i])
           \/ \E i \in 1..Len(ev) :
                ev[i].kind = "result" /\ x = RowOf(ev[i].boot, ev[i].result)
BY DEF Known

LEMMA RowFields ==
  ASSUME NEW b, NEW r
  PROVE  /\ RowOf(b, r).boot = b /\ RowOf(b, r).seq = r.seq
         /\ RowOf(b, r).from = r.life - r.pulses /\ RowOf(b, r).to = r.life
BY DEF RowOf

LEMMA EventFields ==
  ASSUME NEW ev \in Seq(Event), NEW i \in 1..Len(ev)
  PROVE  /\ ev[i] \in Event
         /\ ev[i].kind \in {"result", "status", "hello"}
         /\ ev[i].kind = "result" =>
              /\ ev[i].boot \in Nat
              /\ ev[i].result \in Result
              /\ ev[i].result.seq \in Nat
              /\ ev[i].result.sid \in Sids \cup {NoSid}
              /\ ev[i].result.pulses \in Nat /\ ev[i].result.life \in Nat
<1>1. ev[i] \in Event
  OBVIOUS
<1>2. /\ ev[i].kind \in {"result", "status", "hello"}
      /\ ev[i].kind = "result" => ev[i].boot \in Nat /\ ev[i].result \in Result
  BY <1>1 DEF Event
<1> QED BY <1>1, <1>2 DEF Result

(* A pulse is recorded by a row of the database or by the machine. *)
InRow(b, d, x) == \E row \in d.results : row.boot = b /\ row.from < x /\ x <= row.to

LEMMA UnrecordedCases ==
  ASSUME NEW b, NEW mm, GoodMachine(mm), NEW d \in Database, NEW x
  PROVE  x \in Unrecorded(b, mm, d) <=>
           x \in 1..mm.lifetime /\ ~InRow(b, d, x) /\ ~Counted(mm, x)
<1>1. CASE x \in 1..mm.lifetime
  <2>0. x \in Nat
    BY <1>1
  <2>1. x \in UNION {(row.from + 1)..row.to : row \in {y \in d.results : y.boot = b}}
          <=> InRow(b, d, x)
    <3>1. \A row \in d.results : row.from \in Nat /\ row.to \in Nat
      BY DatabaseFields DEF ResultRow
    <3>2. \A row \in d.results : x \in (row.from + 1)..row.to <=> row.from < x /\ x <= row.to
      BY <2>0, <3>1
    <3> QED BY <3>2 DEF InRow
  <2>2. /\ x \in UNION {(RowOf(b, mm.results[i]).from + 1)..mm.results[i].life
                          : i \in 1..Len(mm.results)}
           <=> \E i \in 1..Len(mm.results) :
                 mm.results[i].life - mm.results[i].pulses < x /\ x <= mm.results[i].life
    <3>1. \A i \in 1..Len(mm.results) :
            /\ RowOf(b, mm.results[i]).from = mm.results[i].life - mm.results[i].pulses
            /\ mm.results[i].life \in Nat /\ mm.results[i].pulses \in Nat
      BY ResultFields, RowFields
    <3>2. \A i \in 1..Len(mm.results) :
            x \in (RowOf(b, mm.results[i]).from + 1)..mm.results[i].life
              <=> mm.results[i].life - mm.results[i].pulses < x /\ x <= mm.results[i].life
      BY <2>0, <3>1
    <3> QED BY <3>2
  <2>3. x \in (mm.lifetime - mm.active.pulses + 1)..mm.lifetime
          <=> Base(mm) < x /\ x <= mm.lifetime
    BY <2>0, BaseFloorType, GoodFields DEF Base
  <2> QED BY <1>1, <2>1, <2>2, <2>3 DEF Unrecorded, Recorded, Counted
<1>2. CASE x \notin 1..mm.lifetime
  BY <1>2 DEF Unrecorded
<1> QED BY <1>1, <1>2

LEMMA SamePulsesKept ==
  ASSUME NEW b, NEW m1, GoodMachine(m1), NEW m2, GoodMachine(m2), SamePulses(m1, m2),
         NEW d \in Database, PulsesKept(b, m1, d)
  PROVE  PulsesKept(b, m2, d)
<1>1. \A x : x \in Unrecorded(b, m1, d) <=> x \in Unrecorded(b, m2, d)
  BY UnrecordedCases DEF SamePulses
<1>2. Unrecorded(b, m1, d) = Unrecorded(b, m2, d)
  BY <1>1
<1> QED BY <1>2 DEF PulsesKept, SamePulses

(* The recovery counter holds pulses of the lifetime. *)
LEMMA RecoveryBound ==
  ASSUME NEW b, NEW mm, GoodMachine(mm), NEW d, PulsesKept(b, mm, d)
  PROVE  /\ mm.recovery <= mm.lifetime
         /\ IsFiniteSet(Unrecorded(b, mm, d))
<1>1. mm.lifetime \in Nat
  BY BaseFloorType
<1>2. IsFiniteSet(1..mm.lifetime) /\ Cardinality(1..mm.lifetime) = mm.lifetime
  BY <1>1, FS_Interval, SMTT(40)
<1>3. Unrecorded(b, mm, d) \subseteq 1..mm.lifetime
  BY DEF Unrecorded
<1> QED BY <1>2, <1>3, FS_Subset, ZenonT(60) DEF PulsesKept

(* The machine goes on from its floor and its base. *)
KeepsOrder(m1, m2) ==
  /\ GoodMachine(m2)
  /\ Floor(m1) <= Floor(m2) /\ Base(m1) <= Base(m2)
  /\ \A i \in 1..Len(m2.results) :
       \/ \E j \in 1..Len(m1.results) : m2.results[i] = m1.results[j]
       \/ /\ Floor(m1) <= m2.results[i].seq
          /\ Base(m1) <= m2.results[i].life - m2.results[i].pulses

LEMMA ContinuesKeepsOrder ==
  ASSUME NEW m1, GoodMachine(m1), NEW m2, Continues(m1, m2)
  PROVE  KeepsOrder(m1, m2)
<1>1. m1.active.present => Floor(m1) = m1.active.seq
  BY DEF Floor
<1>2. Floor(m1) \in Nat
  BY BaseFloorType
<1> QED BY <1>1, <1>2 DEF Continues, KeepsOrder

(* The results a machine retains agree with each other. *)
LEMMA OwnRowsAgree ==
  ASSUME NEW b, NEW mm, GoodMachine(mm),
         NEW i \in 1..Len(mm.results), NEW j \in 1..Len(mm.results)
  PROVE  RowsAgree(RowOf(b, mm.results[i]), RowOf(b, mm.results[j]))
<1>1. mm.results[i].seq \in Nat /\ mm.results[j].seq \in Nat
      /\ mm.results \in Seq(Result) /\ Len(mm.results) \in Nat
  BY ResultFields, GoodFields
<1>2. mm.results[i].seq = mm.results[j].seq => i = j
  <2>1. i \in Nat /\ j \in Nat
    BY <1>1
  <2>2. SequencesOrdered(mm)
    BY DEF GoodMachine
  <2>3. /\ i < j => mm.results[i].seq < mm.results[j].seq
        /\ j < i => mm.results[j].seq < mm.results[i].seq
    BY <2>2 DEF SequencesOrdered
  <2> QED BY <1>1, <2>1, <2>3
<1>3. mm.results[i].seq < mm.results[j].seq => i < j
  BY <1>1 DEF GoodMachine, SequencesOrdered
<1>4. i < j => mm.results[i].life <= mm.results[j].life - mm.results[j].pulses
  BY DEF GoodMachine, PulsesDisjoint
<1> QED BY <1>2, <1>3, <1>4, RowFields DEF RowsAgree

LEMMA OwnRowsPast ==
  ASSUME NEW b \in Nat \ {0}, NEW mm, GoodMachine(mm), NEW i \in 1..Len(mm.results)
  PROVE  RowIsPast(b, mm, RowOf(b, mm.results[i]))
<1>1. /\ mm.results[i].seq \in Nat
      /\ mm.results[i].pulses \in Nat
      /\ mm.results[i].life \in Nat
      /\ mm.results[i].pulses <= mm.results[i].life
      /\ mm.results[i].life <= Base(mm)
      /\ mm.results[i].seq < Floor(mm)
  BY ResultFields
<1>2. RowOf(b, mm.results[i]) \in ResultRow
  BY <1>1 DEF RowOf, ResultRow
<1> QED BY <1>1, <1>2, RowFields DEF RowIsPast

LEMMA RecordsUnderMachine ==
  ASSUME NEW b \in Nat \ {0}, NEW m1, GoodMachine(m1), NEW m2, KeepsOrder(m1, m2),
         NEW ev, NEW d, RecordsAgree(b, m1, ev, d)
  PROVE  RecordsAgree(b, m2, ev, d)
<1> DEFINE New(x) == \E i \in 1..Len(m2.results) :
                       /\ x = RowOf(b, m2.results[i])
                       /\ Floor(m1) <= m2.results[i].seq
                       /\ Base(m1) <= m2.results[i].life - m2.results[i].pulses
<1>1. GoodMachine(m2)
  BY DEF KeepsOrder
<1>2. \A x \in Known(b, m2, ev, d) : x \in Known(b, m1, ev, d) \/ New(x)
  BY KnownCases DEF KeepsOrder
<1>3. Floor(m1) \in Nat /\ Floor(m2) \in Nat /\ Base(m1) \in Nat /\ Base(m2) \in Nat
  BY <1>1, BaseFloorType
<1>4. \A x : New(x) => RowIsPast(b, m2, x)
  BY <1>1, OwnRowsPast
<1>5. \A x \in Known(b, m1, ev, d) : RowIsPast(b, m2, x) /\ RowIsPast(b, m1, x)
  <2> SUFFICES ASSUME NEW x \in Known(b, m1, ev, d)
               PROVE  RowIsPast(b, m2, x) /\ RowIsPast(b, m1, x)
    OBVIOUS
  <2>1. RowIsPast(b, m1, x)
    BY DEF RecordsAgree
  <2>2. x.seq \in Nat /\ x.to \in Nat
    BY <2>1 DEF RowIsPast, ResultRow
  <2> QED BY <1>3, <2>1, <2>2 DEF RowIsPast, KeepsOrder
<1>6. \A x \in Known(b, m1, ev, d) : \A y : New(y) => RowsAgree(x, y) /\ RowsAgree(y, x)
  <2> SUFFICES ASSUME NEW x \in Known(b, m1, ev, d), NEW y, New(y), x.boot = y.boot
               PROVE  RowsAgree(x, y) /\ RowsAgree(y, x)
    BY DEF RowsAgree
  <2>1. PICK i \in 1..Len(m2.results) :
          /\ y = RowOf(b, m2.results[i])
          /\ Floor(m1) <= m2.results[i].seq
          /\ Base(m1) <= m2.results[i].life - m2.results[i].pulses
    OBVIOUS
  <2>2. y.boot = b /\ Floor(m1) <= y.seq /\ Base(m1) <= y.from
    BY <2>1, RowFields
  <2>3. y \in ResultRow /\ x \in ResultRow /\ x.seq < Floor(m1) /\ x.to <= Base(m1)
    BY <1>4, <1>5, <2>2 DEF RowIsPast
  <2>4. y.seq \in Nat /\ y.from \in Nat /\ x.seq \in Nat /\ x.to \in Nat
    BY <2>3 DEF ResultRow
  <2>5. x.seq < y.seq /\ x.to <= y.from
    BY <1>3, <2>2, <2>3, <2>4, SMTT(40)
  <2> QED BY <2>4, <2>5 DEF RowsAgree
<1>7. \A x, y : New(x) /\ New(y) => RowsAgree(x, y)
  <2>1. \A i, j \in 1..Len(m2.results) :
          RowsAgree(RowOf(b, m2.results[i]), RowOf(b, m2.results[j]))
    BY <1>1, OwnRowsAgree
  <2> QED BY <2>1
<1>8. \A x, y \in Known(b, m1, ev, d) : RowsAgree(x, y)
  BY DEF RecordsAgree
<1> HIDE DEF New
<1> QED BY <1>2, <1>4, <1>5, <1>6, <1>7, <1>8 DEF RecordsAgree

LEMMA SubsetAgrees ==
  ASSUME NEW b, NEW m1, NEW m2, NEW ev, NEW ev2, NEW d, NEW d2,
         RecordsAgree(b, m1, ev, d), Known(b, m2, ev2, d2) \subseteq Known(b, m1, ev, d),
         Floor(m2) = Floor(m1), Base(m2) = Base(m1)
  PROVE  RecordsAgree(b, m2, ev2, d2)
BY DEF RecordsAgree, RowIsPast

-------------------------------------------------------------------------------
(* One lemma per kind of step.                                             *)

LEMMA SoundContinues ==
  ASSUME NEW b, NEW m1, NEW m2, NEW ev, NEW d, Sound(b, m1, ev, d),
         Continues(m1, m2), m2.lifetime <= MaxPulses, PulsesKept(b, m2, d)
  PROVE  Sound(b, m2, ev, d)
<1> USE DEF Sound
<1>1. GoodMachine(m1) /\ GoodMachine(m2)
  BY DEF Continues
<1>2. RecordsAgree(b, m2, ev, d)
  BY <1>1, ContinuesKeepsOrder, RecordsUnderMachine
<1>3. ReplaysAreHeld(b, m2, ev, d)
  BY DEF ReplaysAreHeld, Continues
<1>4. BoundIn(b, m2, ev, d)
  <2>1. \A i \in 1..Len(m2.results) : MatchesBinding(d, b, m2.results[i])
    <3> SUFFICES ASSUME NEW i \in 1..Len(m2.results)
                 PROVE  MatchesBinding(d, b, m2.results[i])
      BY SMTT(40)
    <3>1. CASE \E j \in 1..Len(m1.results) : m2.results[i] = m1.results[j]
      BY SMTT(40), <3>1 DEF BoundIn
    <3>2. CASE /\ m1.active.present
               /\ m2.results[i].seq = m1.active.seq
               /\ m2.results[i].sid = m1.active.sid
      BY <3>2 DEF BoundIn, MatchesBinding
    <3> QED BY <3>1, <3>2 DEF Continues
  <2>2. m2.active.present => MatchesBinding(d, b, m2.active)
    BY DEF BoundIn, Continues, MatchesBinding
  <2> QED BY <2>1, <2>2 DEF BoundIn
<1>5. NoneFailed(m2, d)
  <2> SUFFICES ASSUME NEW s \in Sids, OnDevice(m2, s) PROVE OnDevice(m1, s)
    BY DEF NoneFailed
  <2>1. s # NoSid
    OBVIOUS
  <2> QED BY <2>1, ZenonT(60) DEF OnDevice, Continues
<1> QED BY <1>1, <1>2, <1>3, <1>4, <1>5

LEMMA SoundSamePulses ==
  ASSUME NEW b, NEW m1, NEW m2, NEW ev, NEW d, Sound(b, m1, ev, d),
         Continues(m1, m2), SamePulses(m1, m2)
  PROVE  Sound(b, m2, ev, d)
<1>1. PulsesKept(b, m2, d)
  BY SamePulsesKept DEF Sound, Continues, GoodDatabase
<1>2. m2.lifetime <= MaxPulses
  BY DEF Sound, SamePulses
<1> QED BY <1>1, <1>2, SoundContinues

LEMMA SoundPulse ==
  ASSUME NEW b, NEW mm, NEW ev, NEW d, Sound(b, mm, ev, d), mm.lifetime < MaxPulses
  PROVE  Sound(b, AddPulses(mm, 1, 0), ev, d)
<1> DEFINE a == AddPulses(mm, 1, 0)
           n == mm.lifetime + 1
<1>1. GoodMachine(mm) /\ PulsesKept(b, mm, d) /\ d \in Database
  BY DEF Sound, GoodDatabase
<1>2. mm.lifetime \in Nat /\ mm.recovery \in Nat
  BY <1>1, GoodFields
<1>3. /\ Continues(mm, a)
      /\ a.lifetime = n
      /\ \A x \in 1..mm.lifetime : Counted(mm, x) <=> Counted(a, x)
      /\ \/ a.recovery = mm.recovery /\ Counted(a, n)
         \/ a.recovery = mm.recovery + 1 /\ ~Counted(a, n)
  BY <1>1, RecoveryBound, PulseSteps
<1> HIDE DEF a
<1>4. GoodMachine(a)
  BY <1>3 DEF Continues
<1>5. ~InRow(b, d, n)
  \* a committed row of this boot ends before the open event
  <2> SUFFICES ASSUME NEW row \in d.results, row.boot = b, n <= row.to PROVE FALSE
    BY DEF InRow
  <2>1. row \in Known(b, mm, ev, d)
    BY KnownCases
  <2>2. row \in ResultRow /\ row.to <= Base(mm)
    BY <2>1 DEF Sound, RecordsAgree, RowIsPast
  <2>3. row.to \in Nat
    BY <2>2 DEF ResultRow
  <2> QED BY <1>1, <1>2, <2>2, <2>3, BaseFloorType
<1>6. \A x : x \in 1..a.lifetime <=> x \in 1..mm.lifetime \/ x = n
  BY <1>2, <1>3
<1>7. CASE Counted(a, n)
  <2>1. \A x : x \in Unrecorded(b, a, d) <=> x \in Unrecorded(b, mm, d)
    BY <1>1, <1>3, <1>4, <1>6, <1>7, UnrecordedCases
  <2>2. Unrecorded(b, a, d) = Unrecorded(b, mm, d)
    BY <2>1
  <2>3. PulsesKept(b, a, d)
    BY <1>1, <1>3, <1>7, <2>2 DEF PulsesKept
  <2> QED BY <1>2, <1>3, <2>3, SoundContinues DEF a
<1>8. CASE ~Counted(a, n)
  <2>1. \A x : x \in Unrecorded(b, a, d) <=> x \in Unrecorded(b, mm, d) \/ x = n
    <3>1. n \in 1..a.lifetime
      BY <1>2, <1>3
    <3> QED BY <1>1, <1>3, <1>4, <1>5, <1>6, <1>8, <3>1, UnrecordedCases
  <2>2. Unrecorded(b, a, d) = Unrecorded(b, mm, d) \cup {n}
    BY <2>1
  <2>3. n \notin Unrecorded(b, mm, d)
    BY <1>2 DEF Unrecorded
  <2>4. Cardinality(Unrecorded(b, a, d)) = Cardinality(Unrecorded(b, mm, d)) + 1
    BY <1>1, <2>2, <2>3, RecoveryBound, FS_AddElement
  <2>5. PulsesKept(b, a, d)
    BY <1>1, <1>3, <1>8, <2>4 DEF PulsesKept
  <2> QED BY <1>2, <1>3, <2>5, SoundContinues DEF a
<1> QED BY <1>7, <1>8

(* The ARM of a session bound to this boot and sequence, and not failed. *)
LEMMA SoundArm ==
  ASSUME NEW b, NEW mm, NEW ev, NEW d, Sound(b, mm, ev, d),
         NEW seq \in Nat, NEW s \in Sids,
         d.sessions[s].boot = b, d.sessions[s].seq = seq, d.sessions[s].status # "failed"
  PROVE  Sound(b, Arm(mm, seq, s, 0, 0), ev, d)
<1> DEFINE a == Arm(mm, seq, s, 0, 0)
<1>1. GoodMachine(mm) /\ b \in Nat \ {0} /\ GoodDatabase(d)
  BY DEF Sound
<1>2. CASE a = mm
  BY <1>2
<1>3. CASE /\ GoodMachine(a)
           /\ ~mm.active.present
           /\ Floor(mm) <= Floor(a) /\ Base(a) = Base(mm)
           /\ a.results = mm.results
           /\ a.active.sid = s /\ a.active.seq = seq
           /\ SamePulses(mm, a)
  <2> HIDE DEF a
  <2>1. KeepsOrder(mm, a)
    BY <1>1, <1>3, BaseFloorType DEF KeepsOrder
  <2>2. RecordsAgree(b, a, ev, d)
    BY <1>1, <2>1, RecordsUnderMachine DEF Sound
  <2>3. ReplaysAreHeld(b, a, ev, d)
    BY <1>3 DEF ReplaysAreHeld, Sound
  <2>4. BoundIn(b, a, ev, d)
    <3>1. d.sessions[s].status # "none"
      BY <1>1 DEF GoodDatabase
    <3>2. MatchesBinding(d, b, a.active)
      BY <1>3, <3>1 DEF MatchesBinding
    <3> QED BY <1>3, <3>2 DEF BoundIn, Sound
  <2>5. NoneFailed(a, d)
    BY <1>3 DEF NoneFailed, OnDevice, Sound
  <2>6. PulsesKept(b, a, d) /\ a.lifetime <= MaxPulses
    BY <1>1, <1>3, SamePulsesKept DEF Sound, SamePulses, GoodDatabase
  <2> QED BY <1>3, <2>2, <2>3, <2>4, <2>5, <2>6 DEF Sound, a
<1> QED BY <1>1, <1>2, <1>3, ArmSteps

(* A committed result is recorded by its own row. *)
LEMMA SoundAcknowledge ==
  ASSUME NEW b, NEW mm, NEW ev, NEW d, Sound(b, mm, ev, d),
         NEW seq \in Nat, Committed(d, b, seq)
  PROVE  Sound(b, Acknowledge(mm, seq), ev, d)
<1> DEFINE a == Acknowledge(mm, seq)
<1>1. GoodMachine(mm) /\ b \in Nat \ {0} /\ GoodDatabase(d) /\ d \in Database
  BY DEF Sound, GoodDatabase
<1>2. /\ GoodMachine(a)
      /\ a.active = mm.active /\ a.next = mm.next
      /\ a.lifetime = mm.lifetime /\ a.recovery = mm.recovery
      /\ \A j \in 1..Len(a.results) :
           \E i \in 1..Len(mm.results) : a.results[j] = mm.results[i]
      /\ \A i \in 1..Len(mm.results) :
           \/ mm.results[i].seq = seq
           \/ \E j \in 1..Len(a.results) : a.results[j] = mm.results[i]
  BY <1>1, AcknowledgeSteps
<1> HIDE DEF a
<1>3. Floor(a) = Floor(mm) /\ Base(a) = Base(mm)
  BY <1>2 DEF Floor, Base
<1>4. RecordsAgree(b, a, ev, d)
  <2>1. Known(b, a, ev, d) \subseteq Known(b, mm, ev, d)
    BY <1>2, KnownCases
  <2> QED BY <1>3, <2>1, SubsetAgrees DEF Sound
<1>5. ReplaysAreHeld(b, a, ev, d)
  <2> SUFFICES ASSUME NEW i \in 1..Len(ev), ev[i].kind = "result", ev[i].boot = b
               PROVE  \/ \E j \in 1..Len(a.results) : a.results[j] = ev[i].result
                      \/ Committed(d, b, ev[i].result.seq)
    BY DEF ReplaysAreHeld
  <2>1. \/ \E j \in 1..Len(mm.results) : mm.results[j] = ev[i].result
        \/ Committed(d, b, ev[i].result.seq)
    BY DEF Sound, ReplaysAreHeld
  <2>2. ASSUME NEW j \in 1..Len(mm.results), mm.results[j] = ev[i].result
        PROVE  \/ \E k \in 1..Len(a.results) : a.results[k] = ev[i].result
               \/ Committed(d, b, ev[i].result.seq)
    <3>1. CASE mm.results[j].seq = seq
      BY <2>2, <3>1
    <3>2. CASE mm.results[j].seq # seq
      <4>1. PICK k \in 1..Len(a.results) : a.results[k] = mm.results[j]
        BY <1>2, <3>2
      <4> QED BY <2>2, <4>1
    <3> QED BY <3>1, <3>2
  <2> QED BY <2>1, <2>2
<1>6. BoundIn(b, a, ev, d)
  <2>1. \A j \in 1..Len(a.results) : MatchesBinding(d, b, a.results[j])
    BY <1>2 DEF BoundIn, Sound
  <2> QED BY <1>2, <2>1 DEF BoundIn, Sound
<1>7. NoneFailed(a, d)
  BY <1>2, ZenonT(60) DEF NoneFailed, OnDevice, Sound
<1>8. PulsesKept(b, a, d)
  <2>1. PICK row \in d.results : row.boot = b /\ row.seq = seq
    BY DEF Committed
  <2>2. \A i \in 1..Len(mm.results) :
          mm.results[i].seq = seq => RowOf(b, mm.results[i]) = row
    <3> SUFFICES ASSUME NEW i \in 1..Len(mm.results), mm.results[i].seq = seq
                 PROVE  RowOf(b, mm.results[i]) = row
      OBVIOUS
    <3>1. row \in Known(b, mm, ev, d) /\ RowOf(b, mm.results[i]) \in Known(b, mm, ev, d)
      BY KnownCases
    <3>2. RowsAgree(RowOf(b, mm.results[i]), row)
      BY <3>1 DEF Sound, RecordsAgree
    <3> QED BY <2>1, <3>2, RowFields DEF RowsAgree
  <2>3. \A x \in 1..mm.lifetime :
          InRow(b, d, x) \/ Counted(mm, x) <=> InRow(b, d, x) \/ Counted(a, x)
    <3> SUFFICES ASSUME NEW x \in 1..mm.lifetime, ~InRow(b, d, x)
                 PROVE  Counted(mm, x) <=> Counted(a, x)
      OBVIOUS
    <3>1. Counted(a, x) => Counted(mm, x)
      BY <1>2, <1>3 DEF Counted
    <3>2. \A i \in 1..Len(mm.results) :
            mm.results[i].life - mm.results[i].pulses < x /\ x <= mm.results[i].life
              => mm.results[i].seq # seq
      BY <2>1, <2>2, RowFields DEF InRow
    <3>3. Counted(mm, x) => Counted(a, x)
      BY <1>2, <1>3, <3>2 DEF Counted
    <3> QED BY <3>1, <3>3
  <2>4. \A x : x \in Unrecorded(b, a, d) <=> x \in Unrecorded(b, mm, d)
    BY <1>1, <1>2, <2>3, UnrecordedCases
  <2>5. Unrecorded(b, a, d) = Unrecorded(b, mm, d)
    BY <2>4
  <2> QED BY <1>2, <2>5 DEF PulsesKept, Sound
<1> QED BY <1>2, <1>4, <1>5, <1>6, <1>7, <1>8 DEF Sound, a

(* After a reset the boot is new to everyone. *)
LEMMA SoundReset ==
  ASSUME NEW b, NEW mm, NEW ev, NEW d, Sound(b, mm, ev, d)
  PROVE  Sound(b + 1, NewMachine, ev, d)
<1> DEFINE new == NewMachine
           c == b + 1
<1>1. /\ GoodMachine(new) /\ new.lifetime = 0 /\ new.recovery = 0
      /\ new.results = << >> /\ Len(new.results) = 0
      /\ new.active = NoActive /\ ~new.active.present /\ new.active.sid = NoSid
  BY NewMachineGood DEF NewMachine, NoActive
<1>2. b \in Nat \ {0} /\ c \in Nat \ {0} /\ b < c /\ d \in Database
  BY DEF Sound, GoodDatabase
<1> HIDE DEF new, c
<1>3. RecordsAgree(c, new, ev, d)
  <2>1. Known(c, new, ev, d) \subseteq Known(b, mm, ev, d)
    BY <1>1, KnownCases
  <2>2. \A x \in Known(b, mm, ev, d) : RowIsPast(c, new, x)
    <3> SUFFICES ASSUME NEW x \in Known(b, mm, ev, d) PROVE RowIsPast(c, new, x)
      OBVIOUS
    <3>1. x \in ResultRow /\ x.boot \in 1..b
      BY DEF Sound, RecordsAgree, RowIsPast
    <3> QED BY <1>2, <3>1 DEF RowIsPast
  <2> QED BY <2>1, <2>2 DEF RecordsAgree, Sound
<1>4. \A i \in 1..Len(ev) : ev[i].kind = "result" => ev[i].boot # c
  <2> SUFFICES ASSUME NEW i \in 1..Len(ev), ev[i].kind = "result" PROVE ev[i].boot # c
    OBVIOUS
  <2>1. RowOf(ev[i].boot, ev[i].result) \in Known(b, mm, ev, d)
    BY KnownCases
  <2>2. ev[i].boot \in 1..b
    BY <2>1, RowFields DEF Sound, RecordsAgree, RowIsPast
  <2> QED BY <1>2, <2>2
<1>5. ReplaysAreHeld(c, new, ev, d)
  BY <1>4 DEF ReplaysAreHeld
<1>6. BoundIn(c, new, ev, d)
  BY <1>1 DEF BoundIn, Sound
<1>7. NoneFailed(new, d)
  BY <1>1 DEF NoneFailed, OnDevice
<1>8. PulsesKept(c, new, d)
  <2>1. Unrecorded(c, new, d) = {}
    BY <1>1 DEF Unrecorded
  <2> QED BY <1>1, <2>1, FS_EmptySet DEF PulsesKept
<1> QED BY <1>1, <1>2, <1>3, <1>5, <1>6, <1>7, <1>8 DEF Sound, new, c

(* Every queued event was queued, is no result, or is one the device still *)
(* retains.                                                                *)
FromDevice(b, mm, ev, ev2) ==
  /\ ev2 \in Seq(Event)
  /\ \A i \in 1..Len(ev2) :
       \/ \E j \in 1..Len(ev) : ev2[i] = ev[j]
       \/ ev2[i].kind # "result"
       \/ /\ ev2[i].boot = b
          /\ \E k \in 1..Len(mm.results) : ev2[i].result = mm.results[k]

LEMMA SoundEvents ==
  ASSUME NEW b, NEW mm, NEW ev, NEW ev2, NEW d, Sound(b, mm, ev, d),
         FromDevice(b, mm, ev, ev2)
  PROVE  Sound(b, mm, ev2, d)
<1>1. Known(b, mm, ev2, d) \subseteq Known(b, mm, ev, d)
  <2>1. ASSUME NEW i \in 1..Len(ev2), ev2[i].kind = "result"
        PROVE  RowOf(ev2[i].boot, ev2[i].result) \in Known(b, mm, ev, d)
    BY SMTT(40), <2>1, KnownCases DEF FromDevice
  <2> QED BY <2>1, KnownCases
<1>2. RecordsAgree(b, mm, ev2, d)
  BY <1>1, SubsetAgrees DEF Sound
<1>3. ReplaysAreHeld(b, mm, ev2, d)
  <2> SUFFICES ASSUME NEW i \in 1..Len(ev2), ev2[i].kind = "result", ev2[i].boot = b
               PROVE  \/ \E j \in 1..Len(mm.results) : mm.results[j] = ev2[i].result
                      \/ Committed(d, b, ev2[i].result.seq)
    BY DEF ReplaysAreHeld
  <2> QED BY DEF FromDevice, ReplaysAreHeld, Sound
<1>4. BoundIn(b, mm, ev2, d)
  BY DEF FromDevice, BoundIn, Sound
<1> QED BY <1>2, <1>3, <1>4 DEF Sound, FromDevice

(* A transaction that commits no result and fails only sessions that the   *)
(* device does not have.                                                   *)
LEMMA SoundTransaction ==
  ASSUME NEW b, NEW mm, NEW ev, NEW d, NEW d2, NEW S, Sound(b, mm, ev, d),
         DbStep(d, d2), CommitsNothing(d, d2), FailsOnly(d, d2, S),
         \A s \in S \cap Sids : ~OnDevice(mm, s)
  PROVE  Sound(b, mm, ev, d2)
<1>1. GoodDatabase(d2) /\ GoodDatabase(d)
  BY DEF DbStep, Sound
<1>2. Known(b, mm, ev, d2) = Known(b, mm, ev, d)
  BY DEF CommitsNothing, Known
<1>3. RecordsAgree(b, mm, ev, d2)
  BY <1>2 DEF Sound, RecordsAgree
<1>4. ReplaysAreHeld(b, mm, ev, d2)
  BY DEF Sound, ReplaysAreHeld, Committed, CommitsNothing
<1>5. BoundIn(b, mm, ev, d2)
  <2>1. \A bb \in Nat \ {0} : \A r : r.sid \in Sids \cup {NoSid} /\ MatchesBinding(d, bb, r)
                           => MatchesBinding(d2, bb, r)
    BY DEF MatchesBinding, DbStep
  <2>2. \A i \in 1..Len(mm.results) : mm.results[i].sid \in Sids \cup {NoSid}
    BY ResultFields DEF Sound
  <2>3. mm.active.sid \in Sids \cup {NoSid}
    BY GoodFields DEF Sound, Active
  <2>4. \A i \in 1..Len(ev) :
          ev[i].kind = "result" => /\ ev[i].boot \in Nat \ {0}
                                   /\ ev[i].result.sid \in Sids \cup {NoSid}
    <3> SUFFICES ASSUME NEW i \in 1..Len(ev), ev[i].kind = "result"
                 PROVE  /\ ev[i].boot \in Nat \ {0}
                        /\ ev[i].result.sid \in Sids \cup {NoSid}
      OBVIOUS
    <3>1. RowOf(ev[i].boot, ev[i].result) \in Known(b, mm, ev, d)
      BY KnownCases
    <3>2. ev[i].boot \in 1..b
      BY <3>1, RowFields DEF Sound, RecordsAgree, RowIsPast
    <3> QED BY <3>2, EventFields DEF Sound
  <2> QED BY <2>1, <2>2, <2>3, <2>4 DEF BoundIn, Sound
<1>6. NoneFailed(mm, d2)
  BY DEF NoneFailed, FailsOnly, Sound
<1>7. PulsesKept(b, mm, d2)
  <2>1. Unrecorded(b, mm, d2) = Unrecorded(b, mm, d)
    BY DEF Unrecorded, Recorded, CommitsNothing
  <2> QED BY <2>1 DEF PulsesKept, Sound
<1>8. PoursApart(d2)
  <2> SUFFICES ASSUME NEW i \in 1..Len(d2.pours), NEW j \in 1..Len(d2.pours), i < j,
                      d2.pours[i].origin = "result", d2.pours[j].origin = "result",
                      d2.pours[i].boot = d2.pours[j].boot
               PROVE  d2.pours[i].to <= d2.pours[j].from \/ d2.pours[j].to <= d2.pours[i].from
    BY DEF PoursApart
  <2>1. /\ i \in 1..Len(d.pours) /\ d2.pours[i] = d.pours[i]
        /\ j \in 1..Len(d.pours) /\ d2.pours[j] = d.pours[j]
    BY DEF CommitsNothing
  <2> QED BY <2>1 DEF PoursApart, Sound
<1> QED BY <1>1, <1>3, <1>4, <1>5, <1>6, <1>7, <1>8 DEF Sound

(* The commit of a queued result: its row was known, its pulses were       *)
(* recorded, and no committed pour had them.                               *)
LEMMA SoundCommit ==
  ASSUME NEW b, NEW mm, NEW ev, NEW d, Sound(b, mm, ev, d),
         NEW n \in 1..Len(ev), ev[n].kind = "result"
  PROVE  LET f == FinalizeResult(d, ev[n].boot, ev[n].result)
         IN  /\ Sound(b, mm, ev, f)
             /\ DbStep(d, f) /\ FailsOnly(d, f, {})
             /\ MatchesBinding(d, ev[n].boot, ev[n].result) =>
                  Committed(f, ev[n].boot, ev[n].result.seq)
<1> DEFINE bb == ev[n].boot
           r == ev[n].result
           f == FinalizeResult(d, bb, r)
           row == RowOf(bb, r)
<1>1. row \in Known(b, mm, ev, d)
  BY KnownCases
<1>2. RowIsPast(b, mm, row)
  BY <1>1 DEF Sound, RecordsAgree
<1>3. /\ bb \in Nat /\ bb \in 1..b /\ r \in Result /\ r.seq \in Nat
      /\ r.pulses \in Nat /\ r.life \in Nat /\ r.pulses <= r.life
  <2>1. /\ bb \in Nat /\ r \in Result /\ r.seq \in Nat
        /\ r.pulses \in Nat /\ r.life \in Nat
    BY EventFields DEF Sound
  <2>2. r.life - r.pulses \in Nat /\ bb \in 1..b
    BY <1>2, RowFields DEF RowIsPast, ResultRow
  <2> QED BY <2>1, <2>2
<1>4. /\ row.boot = bb /\ row.seq = r.seq
      /\ row.from = r.life - r.pulses /\ row.to = r.life
  BY RowFields
<1>5. GoodDatabase(d) /\ d \in Database /\ GoodMachine(mm) /\ b \in Nat \ {0}
  BY DEF Sound, GoodDatabase
<1>6. /\ DbStep(d, f)
      /\ FailsOnly(d, f, {})
      /\ MatchesBinding(d, bb, r) => Committed(f, bb, r.seq)
      /\ \/ f = d
         \/ /\ ~Committed(d, bb, r.seq)
            /\ f.results = d.results \cup {row}
            /\ \/ f.pours = d.pours
               \/ \E p \in Pour : /\ f.pours = Append(d.pours, p)
                                  /\ p.boot = bb /\ p.from = row.from /\ p.to = row.to
  <2> HIDE DEF bb, r
  <2> QED BY <1>3, <1>5, FinalizeResultSteps, SMTT(40)
<1> HIDE DEF f, row
<1>7. CASE f = d
  BY <1>6, <1>7 DEF f
<1>8. CASE /\ ~Committed(d, bb, r.seq)
           /\ f.results = d.results \cup {row}
           /\ \/ f.pours = d.pours
              \/ \E p \in Pour : /\ f.pours = Append(d.pours, p)
                                 /\ p.boot = bb /\ p.from = row.from /\ p.to = row.to
  <2>1. GoodDatabase(f) /\ f \in Database
    BY <1>6 DEF DbStep, GoodDatabase
  <2>2. Known(b, mm, ev, f) = Known(b, mm, ev, d)
    BY <1>1, <1>8 DEF Known
  <2>3. RecordsAgree(b, mm, ev, f)
    BY <2>2 DEF Sound, RecordsAgree
  <2>4. ReplaysAreHeld(b, mm, ev, f)
    BY <1>8 DEF Sound, ReplaysAreHeld, Committed
  <2>5. BoundIn(b, mm, ev, f)
    <3>1. \A c \in Nat \ {0} : \A x : x.sid \in Sids \cup {NoSid} /\ MatchesBinding(d, c, x)
                             => MatchesBinding(f, c, x)
      BY <1>6 DEF MatchesBinding, DbStep
    <3>2. \A i \in 1..Len(mm.results) : mm.results[i].sid \in Sids \cup {NoSid}
      BY ResultFields DEF Sound
    <3>3. mm.active.sid \in Sids \cup {NoSid}
      BY <1>5, GoodFields DEF Active
    <3>4. \A i \in 1..Len(ev) :
            ev[i].kind = "result" => /\ ev[i].boot \in Nat \ {0}
                                     /\ ev[i].result.sid \in Sids \cup {NoSid}
      <4> SUFFICES ASSUME NEW i \in 1..Len(ev), ev[i].kind = "result"
                   PROVE  /\ ev[i].boot \in Nat \ {0}
                          /\ ev[i].result.sid \in Sids \cup {NoSid}
        OBVIOUS
      <4>1. RowOf(ev[i].boot, ev[i].result) \in Known(b, mm, ev, d)
        BY KnownCases
      <4>2. ev[i].boot \in 1..b
        BY <4>1, RowFields DEF Sound, RecordsAgree, RowIsPast
      <4> QED BY <4>2, EventFields DEF Sound
    <3> QED BY <1>5, <3>1, <3>2, <3>3, <3>4 DEF BoundIn, Sound
  <2>6. NoneFailed(mm, f)
    BY <1>6 DEF NoneFailed, FailsOnly, Sound
  <2>7. PulsesKept(b, mm, f)
    <3>1. CASE bb # b
      <4>1. \A x : InRow(b, f, x) <=> InRow(b, d, x)
        BY <1>4, <1>8, <3>1 DEF InRow
      <4>2. \A x : x \in Unrecorded(b, mm, f) <=> x \in Unrecorded(b, mm, d)
        BY <1>5, <2>1, <4>1, UnrecordedCases
      <4>3. Unrecorded(b, mm, f) = Unrecorded(b, mm, d)
        BY <4>2
      <4> QED BY <4>3 DEF PulsesKept, Sound
    <3>2. CASE bb = b
      \* not committed, so the device still retains it
      <4>1. PICK k \in 1..Len(mm.results) : mm.results[k] = r
        BY <1>8, <3>2 DEF ReplaysAreHeld, Sound
      <4>2. \A x : row.from < x /\ x <= row.to => Counted(mm, x)
        BY <1>4, <4>1 DEF Counted
      <4>3. \A x : InRow(b, f, x) => InRow(b, d, x) \/ Counted(mm, x)
        BY <1>8, <4>2 DEF InRow
      <4>4. \A x : InRow(b, d, x) => InRow(b, f, x)
        BY <1>8 DEF InRow
      <4>5. \A x : x \in Unrecorded(b, mm, f) <=> x \in Unrecorded(b, mm, d)
        BY <1>5, <2>1, <4>3, <4>4, UnrecordedCases
      <4>6. Unrecorded(b, mm, f) = Unrecorded(b, mm, d)
        BY <4>5
      <4> QED BY <4>6 DEF PulsesKept, Sound
    <3> QED BY <3>1, <3>2
  <2>8. PoursApart(f)
    <3>1. CASE f.pours = d.pours
      BY <3>1 DEF PoursApart, Sound
    <3>2. ASSUME NEW p \in Pour, f.pours = Append(d.pours, p),
                 p.boot = bb, p.from = row.from, p.to = row.to
          PROVE  PoursApart(f)
      <4>1. d.pours \in Seq(Pour)
        BY <1>5, DatabaseFields
      <4>2. /\ Len(d.pours) \in Nat
            /\ Len(f.pours) = Len(d.pours) + 1
            /\ \A i \in 1..Len(f.pours) :
                 \/ i \in 1..Len(d.pours) /\ f.pours[i] = d.pours[i]
                 \/ i = Len(d.pours) + 1 /\ f.pours[i] = p
        BY <3>2, <4>1, AppendedPour
      <4>3. \A i \in 1..Len(d.pours) :
              d.pours[i].origin = "result" /\ d.pours[i].boot = bb =>
                p.to <= d.pours[i].from \/ d.pours[i].to <= p.from
        <5> SUFFICES ASSUME NEW i \in 1..Len(d.pours),
                            d.pours[i].origin = "result", d.pours[i].boot = bb
                     PROVE  p.to <= d.pours[i].from \/ d.pours[i].to <= p.from
          OBVIOUS
        <5>1. PICK y \in d.results : /\ y.boot = bb
                                     /\ y.from = d.pours[i].from /\ y.to = d.pours[i].to
          BY <1>5 DEF GoodDatabase, PoursHaveRows
        <5>2. y.seq # row.seq
          BY <1>4, <1>8, <5>1 DEF Committed
        <5>3. y \in Known(b, mm, ev, d) /\ y \in ResultRow /\ row \in ResultRow
          BY <1>2, <1>5, KnownCases, DatabaseFields DEF RowIsPast
        <5>4. RowsAgree(y, row) /\ RowsAgree(row, y)
          BY <1>1, <5>3 DEF Sound, RecordsAgree
        <5>5. y.seq \in Nat /\ row.seq \in Nat
          BY <5>3 DEF ResultRow
        <5>6. y.seq < row.seq \/ row.seq < y.seq
          BY <5>2, <5>5
        <5> QED BY <1>4, <3>2, <5>1, <5>4, <5>6 DEF RowsAgree
      <4> SUFFICES ASSUME NEW i \in 1..Len(f.pours), NEW j \in 1..Len(f.pours), i < j,
                          f.pours[i].origin = "result", f.pours[j].origin = "result",
                          f.pours[i].boot = f.pours[j].boot
                   PROVE  \/ f.pours[i].to <= f.pours[j].from
                          \/ f.pours[j].to <= f.pours[i].from
        BY DEF PoursApart
      <4>4. i \in 1..Len(d.pours) /\ f.pours[i] = d.pours[i]
        BY <4>2
      <4>5. CASE j \in 1..Len(d.pours) /\ f.pours[j] = d.pours[j]
        BY <4>4, <4>5 DEF PoursApart, Sound
      <4>6. CASE f.pours[j] = p
        BY <3>2, <4>3, <4>4, <4>6
      <4> QED BY <4>2, <4>5, <4>6
    <3> QED BY <1>8, <3>1, <3>2
  <2>9. Sound(b, mm, ev, f)
    BY <2>1, <2>3, <2>4, <2>5, <2>6, <2>7, <2>8 DEF Sound
  <2> QED BY <1>6, <2>9 DEF f
<1> QED BY <1>6, <1>7, <1>8

-------------------------------------------------------------------------------
(***************************************************************************)
(* 4  The command queue, the task and the event queue.                     *)
(***************************************************************************)
Waiting == {"arm_status", "arm_wait", "cancel_wait", "ack_wait"}

(* CommandsAreSafe, CommandsMatchTask and TaskHoldsSession, of arguments.  *)
SafeCommand(c, d) ==
  /\ c.op \in {"ARM", "CANCEL"} => c.sid \in Sids
  /\ c.op = "ARM" => /\ c.boot # NoBoot
                     /\ d.sessions[c.sid].boot = c.boot
                     /\ d.sessions[c.sid].seq = c.seq
                     /\ d.sessions[c.sid].status # "failed"
  /\ c.op = "ACK" => Committed(d, c.boot, c.seq)

SafeCommands(cs, d) ==
  /\ cs \in Seq(Command) /\ Len(cs) <= 2
  /\ \A i \in 1..Len(cs) : SafeCommand(cs[i], d)
  /\ \A i, j \in 1..Len(cs) :
       (i # j /\ cs[i].op = "ARM" /\ cs[j].op = "ARM") => cs[i].sid # cs[j].sid

MatchTask(cs, t) ==
  /\ Len(cs) = 2 => ~cs[1].waiting /\ cs[2].waiting
  /\ t.pc \in Waiting <=> \E i \in 1..Len(cs) : cs[i].waiting
  /\ \A i \in 1..Len(cs) : cs[i].waiting => AskedBy(t, cs[i])

HoldsSession(t, d) ==
  /\ t.pc \in {"arm_status", "arm_bind", "arm_wait"} => t.sid \in Sids
  /\ t.pc \in {"arm_status", "arm_bind"} =>
       d.sessions[t.sid].status = "arming" /\ d.sessions[t.sid].boot = NoBoot
  /\ t.pc = "arm_bind" => t.status.boot # NoBoot
  /\ t.pc \in {"cancel_wait", "cancel_reply"} => t.sid \in ActiveSessions(d)

LEMMA CommandFields ==
  ASSUME NEW cs \in Seq(Command), NEW i \in 1..Len(cs)
  PROVE  /\ cs[i] \in Command
         /\ cs[i].op \in {"STATUS", "ARM", "CANCEL", "ACK"}
         /\ cs[i].boot \in Nat /\ cs[i].seq \in Nat
         /\ cs[i].sid \in Sids \cup {NoSid}
         /\ cs[i].waiting \in BOOLEAN
<1>1. cs[i] \in Command
  OBVIOUS
<1>. QED  BY <1>1 DEF Command

(* A transaction that fails only unbound sessions leaves commands safe.    *)
LEMMA SafeUnderTransaction ==
  ASSUME NEW cs, NEW d, NEW d2, NEW S, SafeCommands(cs, d), DbStep(d, d2), FailsOnly(d, d2, S),
         \A s \in S \cap Sids : d.sessions[s].boot = NoBoot
  PROVE  SafeCommands(cs, d2)
<1>. SUFFICES ASSUME NEW i \in 1..Len(cs) PROVE SafeCommand(cs[i], d2)
  BY DEF SafeCommands
<1>1. SafeCommand(cs[i], d)
  BY DEF SafeCommands
<1>2. ASSUME cs[i].op = "ARM" PROVE /\ d2.sessions[cs[i].sid].boot = cs[i].boot
                                    /\ d2.sessions[cs[i].sid].seq = cs[i].seq
                                    /\ d2.sessions[cs[i].sid].status # "failed"
  BY <1>1, <1>2 DEF SafeCommand, DbStep, FailsOnly
<1>3. ASSUME cs[i].op = "ACK" PROVE Committed(d2, cs[i].boot, cs[i].seq)
  BY <1>1, <1>3 DEF SafeCommand, DbStep, Committed
<1>. QED  BY <1>1, <1>2, <1>3 DEF SafeCommand

(* What is left of the queue when a command leaves it or loses its caller. *)
LEMMA SafeRest ==
  ASSUME NEW cs, NEW cs2 \in Seq(Command), NEW d, SafeCommands(cs, d), Len(cs2) <= 1,
         \A i \in 1..Len(cs2) : \E j \in 1..Len(cs) :
           /\ cs2[i].op = cs[j].op /\ cs2[i].boot = cs[j].boot
           /\ cs2[i].seq = cs[j].seq /\ cs2[i].sid = cs[j].sid
  PROVE  SafeCommands(cs2, d)
<1>1. ASSUME NEW i \in 1..Len(cs2) PROVE SafeCommand(cs2[i], d)
  <2>1. PICK j \in 1..Len(cs) : /\ cs2[i].op = cs[j].op /\ cs2[i].boot = cs[j].boot
                                /\ cs2[i].seq = cs[j].seq /\ cs2[i].sid = cs[j].sid
    BY <1>1
  <2>. QED  BY <2>1 DEF SafeCommands, SafeCommand
<1>2. \A i, j \in 1..Len(cs2) : i = j
  OBVIOUS
<1>. QED  BY <1>1, <1>2 DEF SafeCommands

(* A task that waits for nothing asks for c: one command at most is ahead. *)
LEMMA AskSteps ==
  ASSUME NEW cs, NEW t, NEW d, SafeCommands(cs, d), MatchTask(cs, t), t.pc \notin Waiting,
         NEW c \in Command, c.waiting, SafeCommand(c, d),
         \A i \in 1..Len(cs) : cs[i].op = "ARM" /\ c.op = "ARM" => cs[i].sid # c.sid,
         NEW t2, AskedBy(t2, c)
  PROVE  SafeCommands(Append(cs, c), d) /\ MatchTask(Append(cs, c), t2)
<1>. DEFINE a == Append(cs, c)
<1>1. cs \in Seq(Command) /\ Len(cs) \in Nat /\ \A i \in 1..Len(cs) : ~cs[i].waiting
  BY DEF SafeCommands, MatchTask
<1>2. Len(cs) <= 1
  <2>1. Len(cs) = 2 => 2 \in 1..Len(cs) /\ cs[2].waiting
    BY DEF MatchTask
  <2>2. Len(cs) # 2
    BY <1>1, <2>1
  <2>3. Len(cs) <= 2
    BY DEF SafeCommands
  <2>4. \A n \in Nat : n # 2 /\ n <= 2 => n <= 1
    OBVIOUS
  <2>. QED  BY <1>1, <2>2, <2>3, <2>4
<1>3. a \in Seq(Command) /\ Len(a) = Len(cs) + 1 /\ a[Len(cs) + 1] = c
      /\ \A i \in 1..Len(cs) : a[i] = cs[i]
  BY <1>1
<1>. HIDE DEF a
<1>4. \A i \in 1..Len(a) : i \in 1..Len(cs) \/ i = Len(cs) + 1
  BY <1>1, <1>3
<1>5. SafeCommands(a, d)
  <2>1. \A i \in 1..Len(a) : SafeCommand(a[i], d)
    BY <1>3, <1>4 DEF SafeCommands
  <2>2. \A i, j \in 1..Len(a) :
          (i # j /\ a[i].op = "ARM" /\ a[j].op = "ARM") => a[i].sid # a[j].sid
    BY <1>3, <1>4 DEF SafeCommands
  <2>. QED  BY <1>1, <1>2, <1>3, <2>1, <2>2 DEF SafeCommands
<1>6. MatchTask(a, t2)
  <2>1. t2.pc \in Waiting
    BY DEF AskedBy, Waiting
  <2>2. Len(cs) + 1 \in 1..Len(a)
    BY <1>1, <1>3
  <2>3. \A i \in 1..Len(a) : a[i].waiting => a[i] = c
    BY <1>1, <1>3, <1>4
  <2>4. Len(a) = 2 => ~a[1].waiting /\ a[2].waiting
    BY <1>1, <1>3, SMTT(40)
  <2>. QED  BY <1>3, <2>1, <2>2, <2>3, <2>4 DEF MatchTask
<1>. QED  BY <1>5, <1>6 DEF a

(* The manager takes the first command.  Its caller, if it has one, waits  *)
(* for nothing else, and no other command is queued.                       *)
LEMMA TakeSteps ==
  ASSUME NEW cs, NEW t, NEW d, SafeCommands(cs, d), MatchTask(cs, t), cs # << >>
  PROVE  /\ SafeCommands(Tail(cs), d)
         /\ SafeCommand(Head(cs), d)
         /\ Head(cs) \in Command
         /\ Head(cs).waiting => /\ Tail(cs) = << >>
                                /\ AskedBy(t, Head(cs))
                                /\ \A t2 : t2.pc \notin Waiting => MatchTask(Tail(cs), t2)
         /\ ~Head(cs).waiting => MatchTask(Tail(cs), t)
<1>1. cs \in Seq(Command) /\ Len(cs) \in {1, 2} /\ Head(cs) = cs[1] /\ 1 \in 1..Len(cs)
  <2>1. cs \in Seq(Command) /\ Len(cs) <= 2
    BY DEF SafeCommands
  <2>2. Len(cs) \in Nat /\ Len(cs) # 0
    BY <2>1
  <2>3. Len(cs) \in {1, 2}
    BY <2>1, <2>2, SMTT(40)
  <2>. QED  BY <2>1, <2>3
<1>. DEFINE r == Tail(cs)
<1>2. r \in Seq(Command) /\ Len(r) = Len(cs) - 1 /\ \A i \in 1..Len(r) : r[i] = cs[i + 1]
  BY <1>1
<1>. HIDE DEF r
<1>3. Len(r) = 0 => r = << >>
  BY <1>2
<1>4. SafeCommands(r, d)
  <2>1. ASSUME NEW i \in 1..Len(r) PROVE i + 1 \in 1..Len(cs) /\ r[i] = cs[i + 1]
    BY <1>1, <1>2
  <2>. QED  BY <1>1, <1>2, <2>1, SafeRest
<1>5. SafeCommand(cs[1], d) /\ cs[1] \in Command
  BY <1>1 DEF SafeCommands
<1>6. ASSUME cs[1].waiting
      PROVE  r = << >> /\ AskedBy(t, cs[1]) /\ \A t2 : t2.pc \notin Waiting => MatchTask(r, t2)
  <2>1. Len(cs) = 1
    BY <1>1, <1>6 DEF MatchTask
  <2>2. r = << >> /\ Len(r) = 0
    BY <2>1, <1>2, <1>3
  <2>3. \A t2 : t2.pc \notin Waiting => MatchTask(r, t2)
    BY <2>2 DEF MatchTask
  <2>. QED  BY <2>2, <2>3, <1>1, <1>6 DEF MatchTask
<1>7. ASSUME ~cs[1].waiting PROVE MatchTask(r, t)
  <2>1. \A i \in 1..Len(r) : i = 1 /\ r[i] = cs[2] /\ 2 \in 1..Len(cs)
    BY <1>1, <1>2
  <2>2. \A i \in 1..Len(cs) : cs[i].waiting => i = 2 /\ 1 \in 1..Len(r) /\ r[1] = cs[2]
    BY <1>1, <1>2, <1>7
  <2>3. Len(r) # 2
    BY <1>1, <1>2
  <2>. QED  BY <2>1, <2>2, <2>3 DEF MatchTask
<1>. QED  BY <1>1, <1>4, <1>5, <1>6, <1>7 DEF r

(* The last command is withdrawn, or goes on without its caller. *)
LEMMA WithdrawSteps ==
  ASSUME NEW cs, NEW t, NEW d, SafeCommands(cs, d), MatchTask(cs, t),
         Len(cs) > 0, cs[Len(cs)].waiting,
         NEW t2, t2.pc \notin Waiting
  PROVE  /\ LET r == SubSeq(cs, 1, Len(cs) - 1)
            IN  SafeCommands(r, d) /\ MatchTask(r, t2)
         /\ Len(cs) # 2 =>
              LET r == <<[Head(cs) EXCEPT !.waiting = FALSE]>>
              IN  SafeCommands(r, d) /\ MatchTask(r, t2)
<1>1. cs \in Seq(Command) /\ Len(cs) \in {1, 2} /\ 1 \in 1..Len(cs) /\ Head(cs) = cs[1]
      /\ Len(cs) \in 1..Len(cs)
  <2>1. cs \in Seq(Command) /\ Len(cs) <= 2
    BY DEF SafeCommands
  <2>2. Len(cs) \in Nat
    BY <2>1
  <2>3. \A n \in Nat : n > 0 /\ n <= 2 => n \in {1, 2}
    OBVIOUS
  <2>4. Len(cs) \in {1, 2}
    BY <2>1, <2>2, <2>3
  <2>5. cs # << >>
    BY <2>4
  <2>. QED  BY <2>1, <2>4, <2>5
<1>2. ASSUME NEW r \in Seq(Command), Len(r) <= 1, \A i \in 1..Len(r) : ~r[i].waiting
      PROVE  MatchTask(r, t2)
  BY <1>2 DEF MatchTask
<1>3. LET r == SubSeq(cs, 1, Len(cs) - 1) IN SafeCommands(r, d) /\ MatchTask(r, t2)
  <2>. DEFINE r == SubSeq(cs, 1, Len(cs) - 1)
  <2>1. r \in Seq(Command) /\ Len(r) = Len(cs) - 1 /\ \A i \in 1..Len(r) : r[i] = cs[i]
    BY <1>1
  <2>. HIDE DEF r
  <2>2. \A i \in 1..Len(r) : i \in 1..Len(cs) /\ r[i] = cs[i] /\ i = 1 /\ Len(cs) = 2
    BY <1>1, <2>1
  <2>3. Len(r) <= 1
    BY <1>1, <2>1
  <2>4. SafeCommands(r, d)
    BY <2>1, <2>2, <2>3, SafeRest
  <2>5. \A i \in 1..Len(r) : ~r[i].waiting
    BY <2>2 DEF MatchTask
  <2>. QED  BY <1>2, <2>1, <2>3, <2>4, <2>5 DEF r
<1>4. ASSUME Len(cs) # 2
      PROVE  LET r == <<[Head(cs) EXCEPT !.waiting = FALSE]>>
             IN  SafeCommands(r, d) /\ MatchTask(r, t2)
  <2>. DEFINE c == [Head(cs) EXCEPT !.waiting = FALSE]
              r == <<c>>
  <2>1. /\ c \in Command /\ ~c.waiting
        /\ c.op = cs[1].op /\ c.boot = cs[1].boot /\ c.seq = cs[1].seq /\ c.sid = cs[1].sid
    <3>1. cs[1] \in Command
      BY <1>1
    <3>. QED  BY <1>1, <3>1 DEF Command
  <2>. HIDE DEF c
  <2>2. r \in Seq(Command) /\ Len(r) = 1 /\ \A i \in 1..Len(r) : r[i] = c
    BY <2>1
  <2>. HIDE DEF r
  <2>3. SafeCommands(r, d)
    BY <1>1, <2>1, <2>2, SafeRest
  <2>4. Len(r) <= 1 /\ \A i \in 1..Len(r) : ~r[i].waiting
    BY <2>1, <2>2
  <2>5. MatchTask(r, t2)
    BY <1>2, <2>2, <2>4
  <2>. QED  BY <2>3, <2>5 DEF c, r
<1>. QED  BY <1>3, <1>4

(* A session the device has is bound to its event. *)
LEMMA OnDeviceBound ==
  ASSUME NEW b, NEW mm, NEW ev, NEW d, Sound(b, mm, ev, d), NEW s \in Sids, OnDevice(mm, s)
  PROVE  /\ d.sessions[s].boot = b /\ b # NoBoot
         /\ \/ IsActive(mm, d.sessions[s].seq, s)
            \/ Retained(mm, d.sessions[s].seq, s)
<1>1. s # NoSid
  OBVIOUS
<1>2. CASE mm.active.sid = s
  <2>1. mm.active.present
    BY <1>1, <1>2 DEF Sound, GoodMachine, StateAgrees, NoActive
  <2>. QED  BY <1>1, <1>2, <2>1 DEF Sound, BoundIn, MatchesBinding, IsActive
<1>3. ASSUME NEW i \in 1..Len(mm.results), mm.results[i].sid = s
      PROVE  /\ d.sessions[s].boot = b /\ b # NoBoot
             /\ Retained(mm, d.sessions[s].seq, s)
  <2>1. MatchesBinding(d, b, mm.results[i])
    BY DEF Sound, BoundIn
  <2>2. d.sessions[s].boot = b /\ d.sessions[s].seq = mm.results[i].seq
    BY <1>1, <1>3, <2>1 DEF MatchesBinding
  <2>3. b # NoBoot
    BY DEF Sound
  <2>. QED  BY <1>3, <2>2, <2>3 DEF Retained
<1>. QED  BY <1>2, <1>3 DEF OnDevice

LEMMA StatusType ==
  ASSUME GoodMachine(m), boot \in Nat \ {0}
  PROVE  StatusNow \in Status /\ StatusNow.boot # NoBoot
<1>1. SnapshotSid \in Sids \cup {NoSid}
  <2>1. m.active.sid \in Sids \cup {NoSid} /\ m.results \in Seq(Result)
    BY DEF GoodMachine, Machine, Active
  <2>2. ASSUME m.results # << >> PROVE m.results[Len(m.results)].sid \in Sids \cup {NoSid}
    <3>. DEFINE n == Len(m.results)
    <3>1. n \in 1..n
      BY <2>1, <2>2
    <3>2. m.results[n] \in Result
      BY <2>1, <3>1
    <3>. QED  BY <3>2 DEF Result
  <2>. QED  BY <2>1, <2>2 DEF SnapshotSid
<1>2. m.state \in DeviceStates /\ m.next \in Nat /\ m.lifetime \in Nat /\ Len(m.results) \in Nat
  BY DEF GoodMachine, Machine
<1>. QED  BY <1>1, <1>2 DEF StatusNow, Status

LEMMA FromDeviceRefl ==
  ASSUME NEW b, NEW mm, NEW ev \in Seq(Event)
  PROVE  FromDevice(b, mm, ev, ev)
BY DEF FromDevice

(* Status and hello events, and results still retained, may be queued. *)
MayQueue(b, mm, e2) ==
  /\ e2 \in Seq(Event)
  /\ \A i \in 1..Len(e2) :
       e2[i].kind = "result" => /\ e2[i].boot = b
                                /\ \E k \in 1..Len(mm.results) : e2[i].result = mm.results[k]

LEMMA FromDeviceQueues ==
  ASSUME NEW b, NEW mm, NEW ev, NEW e1, FromDevice(b, mm, ev, e1), NEW e2, MayQueue(b, mm, e2)
  PROVE  FromDevice(b, mm, ev, e1 \o e2) /\ Len(e1 \o e2) = Len(e1) + Len(e2)
<1>. DEFINE q == e1 \o e2
<1>1. e1 \in Seq(Event) /\ Len(e1) \in Nat /\ Len(e2) \in Nat
  BY DEF FromDevice, MayQueue
<1>2. /\ q \in Seq(Event) /\ Len(q) = Len(e1) + Len(e2)
      /\ \A i \in 1..Len(q) : q[i] = IF i <= Len(e1) THEN e1[i] ELSE e2[i - Len(e1)]
  BY <1>1 DEF MayQueue
<1>. HIDE DEF q
<1>3. ASSUME NEW i \in 1..Len(q)
      PROVE  \/ \E j \in 1..Len(ev) : q[i] = ev[j]
             \/ q[i].kind # "result"
             \/ /\ q[i].boot = b
                /\ \E k \in 1..Len(mm.results) : q[i].result = mm.results[k]
  <2>1. CASE i <= Len(e1)
    <3>1. i \in 1..Len(e1) /\ q[i] = e1[i]
      BY <1>1, <1>2, <2>1
    <3>. QED  BY <3>1 DEF FromDevice
  <2>2. CASE ~(i <= Len(e1))
    <3>1. i - Len(e1) \in 1..Len(e2) /\ q[i] = e2[i - Len(e1)]
      BY <1>1, <1>2, <2>2
    <3>. QED  BY <3>1 DEF MayQueue
  <2>. QED  BY <2>1, <2>2
<1>. QED  BY <1>2, <1>3 DEF FromDevice, q

(* update_provisional_status(), to "failed" only for a session the device  *)
(* does not have.                                                          *)
LEMMA SoundStatus ==
  ASSUME NEW b, NEW mm, NEW ev, NEW d, Sound(b, mm, ev, d), NEW s \in Sids,
         NEW status \in ActiveStatuses \cup ClosedStatuses,
         d.sessions[s].status \in ClosedStatuses => status \in ClosedStatuses,
         status \in ActiveStatuses => s \in ActiveSessions(d),
         status = "failed" => ~OnDevice(mm, s)
  PROVE  LET u == UpdateStatus(d, s, status)
         IN  /\ Sound(b, mm, ev, u) /\ DbStep(d, u) /\ CommitsNothing(d, u)
             /\ FailsOnly(d, u, {s})
             /\ status # "failed" => FailsOnly(d, u, {})
<1>. DEFINE u == UpdateStatus(d, s, status)
<1>1. GoodDatabase(d)
  BY DEF Sound
<1>2. /\ DbStep(d, u)
      /\ u.results = d.results /\ u.pours = d.pours
      /\ u.sessions[s].status = status
      /\ \A t \in Sids : t # s => u.sessions[t] = d.sessions[t]
  BY <1>1, UpdateStatusSteps
<1>. HIDE DEF u
<1>3. CommitsNothing(d, u)
  BY <1>2 DEF CommitsNothing
<1>4. FailsOnly(d, u, {s}) /\ (status # "failed" => FailsOnly(d, u, {}))
  BY <1>2 DEF FailsOnly
<1>5. Sound(b, mm, ev, u)
  <2>1. CASE status = "failed"
    <3>1. \A t \in {s} \cap Sids : ~OnDevice(mm, t)
      BY <2>1
    <3>. QED  BY <1>2, <1>3, <1>4, <3>1, SoundTransaction
  <2>2. CASE status # "failed"
    <3>1. \A t \in {} \cap Sids : ~OnDevice(mm, t)
      OBVIOUS
    <3>. QED  BY <1>2, <1>3, <1>4, <2>2, <3>1, SoundTransaction
  <2>. QED  BY <2>1, <2>2
<1>. QED  BY <1>2, <1>3, <1>4, <1>5 DEF u

LEMMA IdleTask == Idle \in Task /\ Idle.pc = "idle" /\ NoStatus \in Status
BY DEF Idle, Task, NoStatus, Status, DeviceStates

LEMMA IdleHolds ==
  ASSUME NEW t, NEW d, t.pc \in {"idle", "ack_wait"}
  PROVE  HoldsSession(t, d)
BY DEF HoldsSession

(* The manager hands its first command back to the caller: the caller's    *)
(* session fails only if it is not bound yet, or rejected by the device.   *)
LEMMA ReturnSteps ==
  ASSUME SafeCommands(cmds, db), MatchTask(cmds, task), HoldsSession(task, db), task \in Task,
         cmds # << >>, cmds' = Tail(cmds),
         NEW mm, Sound(boot, mm, events, db),
         StatusNow \in Status, StatusNow.boot # NoBoot,
         NEW reply \in {"ok", "rejected", "lost"}, Return(reply),
         reply = "rejected" /\ cmd.waiting /\ cmd.op = "ARM" => ~OnDevice(mm, cmd.sid)
  PROVE  /\ Sound(boot, mm, events, db') /\ DbStep(db, db')
         /\ SafeCommands(cmds', db') /\ MatchTask(cmds', task')
         /\ HoldsSession(task', db') /\ task' \in Task
<1>1. /\ SafeCommands(Tail(cmds), db)
      /\ cmd.waiting => /\ Tail(cmds) = << >> /\ AskedBy(task, cmd)
                        /\ \A t2 : t2.pc \notin Waiting => MatchTask(Tail(cmds), t2)
      /\ ~cmd.waiting => MatchTask(Tail(cmds), task)
  BY TakeSteps DEF cmd
<1>2. DbStep(db, db)
  BY DbStepRefl DEF Sound
<1>3. CASE ~cmd.waiting
  BY <1>1, <1>2, <1>3 DEF Return
<1>4. CASE cmd.waiting
  <2>1. task' \in Task /\ task'.pc \notin Waiting
    <3>1. CASE reply = "ok" /\ task.pc = "arm_status"
      <4>1. task' = [task EXCEPT !.pc = "arm_bind", !.status = StatusNow]
        BY <1>4, <3>1 DEF Return
      <4>. QED  BY <4>1 DEF Task, Waiting
    <3>2. CASE reply = "ok" /\ task.pc = "cancel_wait"
      <4>1. task' = [task EXCEPT !.pc = "cancel_reply"]
        BY <1>4, <3>2 DEF Return
      <4>. QED  BY <4>1 DEF Task, Waiting
    <3>3. CASE ~(reply = "ok" /\ task.pc = "arm_status") /\ ~(reply = "ok" /\ task.pc = "cancel_wait")
      <4>1. task' = Idle
        BY <1>4, <3>3 DEF Return
      <4>. QED  BY <4>1, IdleTask DEF Waiting
    <3>. QED  BY <3>1, <3>2, <3>3
  <2>2. MatchTask(cmds', task')
    BY <1>1, <1>4, <2>1
  <2>3. CASE reply # "ok" /\ task.pc = "arm_status"
    <3>1. db' = UpdateStatus(db, task.sid, "failed") /\ task' = Idle
      BY <1>4, <2>3 DEF Return
    <3>2. task.sid \in Sids /\ db.sessions[task.sid].status = "arming"
          /\ db.sessions[task.sid].boot = NoBoot
      BY <2>3 DEF HoldsSession
    <3>3. ~OnDevice(mm, task.sid)
      BY <3>2, OnDeviceBound
    <3>4. Sound(boot, mm, events, db') /\ DbStep(db, db')
      BY <3>1, <3>2, <3>3, SoundStatus DEF ClosedStatuses, ActiveStatuses
    <3>5. SafeCommands(cmds', db')
      BY <1>1, <1>4 DEF SafeCommands
    <3>. QED  BY <2>1, <2>2, <3>1, <3>4, <3>5, IdleHolds, IdleTask
  <2>4. CASE reply = "rejected" /\ task.pc = "arm_wait"
    <3>1. db' = UpdateStatus(db, task.sid, "failed") /\ task' = Idle
      BY <1>4, <2>4 DEF Return
    <3>2. cmd.op = "ARM" /\ task.sid = cmd.sid /\ task.sid \in Sids
      BY <1>1, <1>4, <2>4 DEF AskedBy, HoldsSession
    <3>3. ~OnDevice(mm, task.sid)
      BY <1>4, <2>4, <3>2
    <3>4. Sound(boot, mm, events, db') /\ DbStep(db, db')
      BY <3>1, <3>2, <3>3, SoundStatus DEF ClosedStatuses, ActiveStatuses
    <3>5. SafeCommands(cmds', db')
      BY <1>1, <1>4 DEF SafeCommands
    <3>. QED  BY <2>1, <2>2, <3>1, <3>4, <3>5, IdleHolds, IdleTask
  <2>5. CASE ~(reply # "ok" /\ task.pc = "arm_status") /\ ~(reply = "rejected" /\ task.pc = "arm_wait")
    <3>1. db' = db
      BY <1>4, <2>5 DEF Return
    <3>2. HoldsSession(task', db')
      <4>1. CASE reply = "ok" /\ task.pc = "arm_status"
        <5>1. task' = [task EXCEPT !.pc = "arm_bind", !.status = StatusNow]
          BY <1>4, <4>1 DEF Return
        <5>2. task'.pc = "arm_bind" /\ task'.sid = task.sid /\ task'.status = StatusNow
          BY <5>1 DEF Task
        <5>. QED  BY <3>1, <4>1, <5>2 DEF HoldsSession
      <4>2. CASE reply = "ok" /\ task.pc = "cancel_wait"
        <5>1. task' = [task EXCEPT !.pc = "cancel_reply"]
          BY <1>4, <4>2 DEF Return
        <5>2. task'.pc = "cancel_reply" /\ task'.sid = task.sid
          BY <5>1 DEF Task
        <5>. QED  BY <3>1, <4>2, <5>2 DEF HoldsSession
      <4>3. CASE ~(reply = "ok" /\ task.pc = "arm_status") /\ ~(reply = "ok" /\ task.pc = "cancel_wait")
        <5>1. task' = Idle
          BY <1>4, <4>3 DEF Return
        <5>. QED  BY <5>1, IdleHolds, IdleTask
      <4>. QED  BY <4>1, <4>2, <4>3
    <3>. QED  BY <1>1, <1>2, <2>1, <2>2, <3>1, <3>2
  <2>. QED  BY <2>3, <2>4, <2>5
<1>. QED  BY <1>3, <1>4

-------------------------------------------------------------------------------
(***************************************************************************)
(* 5  Every action keeps the invariant.                                    *)
(***************************************************************************)
Shell ==
  /\ boot \in 1..MaxBoot
  /\ conn \in {"connected", "down"}
  /\ cache \in [boot : Nat, status : Status]
  /\ Len(events) <= MaxEvents
  /\ task \in Task
  /\ faults \in 0..MaxFaults

Queue == SafeCommands(cmds, db) /\ MatchTask(cmds, task) /\ HoldsSession(task, db)

(* Inv, of the definitions of this module. *)
Good == Shell /\ Sound(boot, m, events, db) /\ Queue

LEMMA GoodFacts ==
  ASSUME Good
  PROVE  /\ boot \in Nat \ {0}
         /\ GoodMachine(m)
         /\ GoodDatabase(db)
         /\ events \in Seq(Event) /\ Len(events) \in Nat
         /\ StatusNow \in Status /\ StatusNow.boot # NoBoot
         /\ DbStep(db, db)
<1>1. /\ boot \in Nat \ {0} /\ GoodMachine(m) /\ GoodDatabase(db)
      /\ events \in Seq(Event)
  BY DEF Good, Sound
<1>. QED  BY <1>1, StatusType, DbStepRefl

LEMMA DeviceKeeps ==
  ASSUME Good, Device
  PROVE  Good' /\ DbStep(db, db')
<1>1. Sound(boot, m, events, db) /\ GoodMachine(m) /\ DbStep(db, db)
  BY GoodFacts DEF Good
<1>2. ASSUME UNCHANGED host, UNCHANGED faults, boot' \in 1..MaxBoot, Sound(boot', m', events, db)
      PROVE  Good' /\ DbStep(db, db')
  BY <1>1, <1>2 DEF Good, Shell, Queue, host
<1>3. CASE Pulse
  BY <1>1, <1>2, <1>3, SoundPulse DEF Pulse, Good, Shell
<1>4. CASE GapPasses
  <2>1. Continues(m, m') /\ SamePulses(m, m')
    BY <1>1, <1>4, SettleContinues DEF GapPasses
  <2>. QED  BY <1>1, <1>2, <1>4, <2>1, SoundSamePulses DEF GapPasses, Good, Shell
<1>5. CASE DeadlinePasses
  <2>1. Continues(m, m') /\ SamePulses(m, m')
    BY <1>1, <1>5, TickContinues DEF DeadlinePasses
  <2>. QED  BY <1>1, <1>2, <1>5, <2>1, SoundSamePulses DEF DeadlinePasses, Good, Shell
<1>6. CASE DeviceReset
  <2>1. UNCHANGED host /\ boot' = boot + 1 /\ m' = NewMachine /\ boot < MaxBoot
        /\ faults' = faults + 1 /\ faults < MaxFaults
    BY <1>6 DEF DeviceReset, Fault
  <2>2. boot' \in 1..MaxBoot /\ faults' \in 0..MaxFaults
    BY <2>1 DEF Good, Shell
  <2>3. Sound(boot', m', events, db)
    BY <1>1, <2>1, SoundReset
  <2>. QED  BY <1>1, <2>1, <2>2, <2>3 DEF Good, Shell, Queue, host
<1>. QED  BY <1>3, <1>4, <1>5, <1>6 DEF Device

(* A queued STATUS, ARM, CANCEL or ACK and the reply to it. *)
LEMMA FaultType ==
  ASSUME Shell, UNCHANGED faults \/ Fault
  PROVE  faults' \in 0..MaxFaults
BY DEF Shell, Fault

(* The machine takes the command, and its caller the reply. *)
LEMMA DeliverKeeps ==
  ASSUME Good, cmds # << >>, cmds' = Tail(cmds),
         UNCHANGED boot,
         NEW reply \in {"ok", "rejected", "lost"}, Return(reply),
         Sound(boot, m', events, db),
         reply = "rejected" /\ cmd.waiting /\ cmd.op = "ARM" => ~OnDevice(m', cmd.sid)
  PROVE  /\ Sound(boot, m', events, db') /\ DbStep(db, db')
         /\ Queue' /\ task' \in Task
<1>1. StatusNow \in Status /\ StatusNow.boot # NoBoot
  BY GoodFacts
<1>2. SafeCommands(cmds, db) /\ MatchTask(cmds, task) /\ HoldsSession(task, db) /\ task \in Task
  BY DEF Good, Queue, Shell
<1>. QED  BY <1>1, <1>2, ReturnSteps DEF Queue

(* The first command, as the device sees it. *)
LEMMA CmdFacts ==
  ASSUME Good, cmds # << >>
  PROVE  /\ cmd.seq \in Nat /\ cmd.boot \in Nat
         /\ SafeCommand(cmd, db)
<1>1. SafeCommand(Head(cmds), db) /\ Head(cmds) \in Command
  BY TakeSteps DEF Good, Queue
<1>. QED  BY <1>1 DEF cmd, Command

(* Status events on their way to the coordinator. *)
LEMMA StatusQueued ==
  ASSUME Good, NEW e1, FromDevice(boot, m, events, e1)
  PROVE  /\ FromDevice(boot, m, events, e1 \o StatusEvent)
         /\ Len(e1 \o StatusEvent) = Len(e1) + Len(StatusEvent)
         /\ Len(StatusEvent) \in {0, 1}
<1>1. StatusNow \in Status
  BY GoodFacts
<1>2. [kind |-> "status", status |-> StatusNow] \in Event
  BY <1>1 DEF Event
<1>3. StatusEvent \in Seq(Event) /\ Len(StatusEvent) \in {0, 1}
      /\ \A i \in 1..Len(StatusEvent) : StatusEvent[i].kind = "status"
  BY <1>2 DEF StatusEvent
<1>4. \A i \in 1..Len(StatusEvent) : StatusEvent[i].kind # "result"
  BY <1>3
<1>5. MayQueue(boot, m, StatusEvent)
  BY <1>3, <1>4 DEF MayQueue
<1>. QED  BY <1>3, <1>5, FromDeviceQueues

LEMMA RecordStatusKeeps ==
  ASSUME Good, RecordStatus
  PROVE  /\ FromDevice(boot, m, events, events')
         /\ Len(events') <= MaxEvents
         /\ cache' \in [boot : Nat, status : Status]
         /\ conn' \in {"connected", "down"}
<1>1. FromDevice(boot, m, events, events)
  BY FromDeviceRefl, GoodFacts
<1>2. FromDevice(boot, m, events, events') /\ Len(events') <= MaxEvents
  BY <1>1, StatusQueued DEF RecordStatus
<1>3. cache' \in [boot : Nat, status : Status]
  BY GoodFacts DEF RecordStatus, Good, Shell
<1>. QED  BY <1>2, <1>3 DEF RecordStatus, Good, Shell

LEMMA DeliverStatusKeeps ==
  ASSUME Good, DeliverStatus
  PROVE  Good' /\ DbStep(db, db')
<1>1. /\ cmds # << >> /\ cmds' = Tail(cmds) /\ Return("ok") /\ RecordStatus
      /\ UNCHANGED <<boot, m, faults>>
  BY DEF DeliverStatus, Deliver
<1>2. Sound(boot, m, events, db') /\ DbStep(db, db') /\ Queue' /\ task' \in Task
  <2>1. Sound(boot, m', events, db)
    BY <1>1 DEF Good
  <2>. QED  BY <1>1, <2>1, DeliverKeeps
<1>3. /\ FromDevice(boot, m, events, events') /\ Len(events') <= MaxEvents
      /\ cache' \in [boot : Nat, status : Status] /\ conn' \in {"connected", "down"}
  BY <1>1, RecordStatusKeeps
<1>4. Sound(boot', m', events', db')
  BY <1>1, <1>2, <1>3, SoundEvents
<1>. QED  BY <1>1, <1>2, <1>3, <1>4 DEF Good, Shell

(* A reply that reaches its caller, or is lost with the connection. *)
LEMMA ReplyKeeps ==
  ASSUME Good, cmds # << >>, cmds' = Tail(cmds),
         NEW reply \in {"ok", "rejected"}, Reply(reply),
         UNCHANGED <<boot, cache, events>>,
         Sound(boot, m', events, db),
         reply = "rejected" /\ cmd.op = "ARM" => ~OnDevice(m', cmd.sid)
  PROVE  Good' /\ DbStep(db, db')
<1>1. PICK r \in {"ok", "rejected", "lost"} : Return(r) /\ (r = "rejected" => reply = "rejected")
  BY DEF Reply
<1>2. Sound(boot, m', events, db') /\ DbStep(db, db') /\ Queue' /\ task' \in Task
  BY <1>1, DeliverKeeps
<1>3. conn' \in {"connected", "down"} /\ (UNCHANGED faults \/ Fault)
  BY DEF Reply, Good, Shell
<1>. QED  BY <1>2, <1>3, FaultType DEF Good, Shell

LEMMA DeliverArmKeeps ==
  ASSUME Good, DeliverArm
  PROVE  Good' /\ DbStep(db, db')
<1>. DEFINE code == IF cmd.boot # boot THEN "STALE" ELSE ArmReply(m, cmd.seq, cmd.sid)
            reply == IF code \in {"ok", "already"} THEN "ok" ELSE "rejected"
<1>1. /\ cmds # << >> /\ cmds' = Tail(cmds) /\ cmd.op = "ARM"
      /\ m' = IF cmd.boot # boot THEN m ELSE Arm(m, cmd.seq, cmd.sid, 0, 0)
      /\ Reply(reply)
      /\ UNCHANGED <<boot, cache, events>>
  BY DEF DeliverArm, Deliver
<1>2. /\ cmd.sid \in Sids /\ cmd.seq \in Nat
      /\ db.sessions[cmd.sid].boot = cmd.boot /\ db.sessions[cmd.sid].seq = cmd.seq
      /\ db.sessions[cmd.sid].status # "failed"
  BY <1>1, CmdFacts DEF SafeCommand
<1>3. Sound(boot, m, events, db)
  BY DEF Good
<1>4. Sound(boot, m', events, db)
  BY <1>1, <1>2, <1>3, SoundArm
<1>5. ASSUME reply = "rejected" PROVE ~OnDevice(m', cmd.sid)
  <2>1. CASE cmd.boot # boot
    BY <1>1, <1>2, <1>4, <2>1, OnDeviceBound
  <2>2. CASE cmd.boot = boot
    <3>1. ArmReply(m, cmd.seq, cmd.sid) \notin {"ok", "already"}
      BY <1>5, <2>2
    <3>2. m' = m
      BY <1>1, <2>2, <3>1 DEF Arm
    <3>3. ~IsActive(m, cmd.seq, cmd.sid) /\ ~Retained(m, cmd.seq, cmd.sid)
      BY <3>1 DEF ArmReply
    <3>. QED  BY <1>2, <1>4, <3>2, <3>3, OnDeviceBound
  <2>. QED  BY <2>1, <2>2
<1>6. reply \in {"ok", "rejected"}
  OBVIOUS
<1>. HIDE DEF reply, code
<1>. QED  BY <1>1, <1>4, <1>5, <1>6, ReplyKeeps

LEMMA DeliverCancelKeeps ==
  ASSUME Good, DeliverCancel
  PROVE  Good' /\ DbStep(db, db')
<1>. DEFINE code == IF cmd.boot # boot THEN "STALE" ELSE CancelReply(m, cmd.seq, cmd.sid)
            reply == IF code \in {"ok", "already"} THEN "ok" ELSE "rejected"
<1>1. /\ cmds # << >> /\ cmds' = Tail(cmds) /\ cmd.op = "CANCEL"
      /\ m' = IF cmd.boot # boot THEN m ELSE Cancel(m, cmd.seq, cmd.sid)
      /\ Reply(reply)
      /\ UNCHANGED <<boot, cache, events>>
  BY DEF DeliverCancel, Deliver
<1>2. cmd.sid \in Sids /\ cmd.seq \in Nat
  BY <1>1, CmdFacts DEF SafeCommand
<1>3. Sound(boot, m, events, db) /\ GoodMachine(m)
  BY GoodFacts DEF Good
<1>4. Sound(boot, m', events, db)
  <2>1. Continues(m, Cancel(m, cmd.seq, cmd.sid)) /\ SamePulses(m, Cancel(m, cmd.seq, cmd.sid))
    BY <1>2, <1>3, CancelContinues
  <2>. QED  BY <1>1, <1>3, <2>1, SoundSamePulses
<1>5. reply \in {"ok", "rejected"}
  OBVIOUS
<1>. HIDE DEF reply, code
<1>. QED  BY <1>1, <1>4, <1>5, ReplyKeeps

LEMMA DeliverAckKeeps ==
  ASSUME Good, DeliverAck
  PROVE  Good' /\ DbStep(db, db')
<1>1. /\ cmds # << >> /\ cmds' = Tail(cmds) /\ cmd.op = "ACK"
      /\ m' = IF cmd.boot # boot THEN m ELSE Acknowledge(m, cmd.seq)
      /\ Return("ok")
      /\ UNCHANGED <<boot, conn, cache, events, faults>>
  BY DEF DeliverAck, Deliver
<1>2. cmd.seq \in Nat /\ Committed(db, cmd.boot, cmd.seq)
  BY <1>1, CmdFacts DEF SafeCommand
<1>3. Sound(boot, m', events, db)
  BY <1>1, <1>2, SoundAcknowledge DEF Good
<1>4. Sound(boot, m', events, db') /\ DbStep(db, db') /\ Queue' /\ task' \in Task
  BY <1>1, <1>3, DeliverKeeps
<1>. QED  BY <1>1, <1>4 DEF Good, Shell

(* The caller withdraws the last command, or leaves it to the manager. *)
LEMMA CallerTimesOutKeeps ==
  ASSUME Good, CallerTimesOut
  PROVE  Good' /\ DbStep(db, db')
<1>. DEFINE n == Len(cmds)
            left == <<[cmd EXCEPT !.waiting = FALSE]>>
<1>1. /\ n > 0 /\ cmds[n].waiting
      /\ \/ cmds' = SubSeq(cmds, 1, n - 1) /\ UNCHANGED faults
         \/ n # 2 /\ cmds' = left /\ Fault
      /\ task' = Idle
      /\ db' = IF task.pc = "arm_status" THEN UpdateStatus(db, task.sid, "failed") ELSE db
      /\ UNCHANGED <<boot, m, conn, cache, events>>
  BY DEF CallerTimesOut
<1>2. SafeCommands(cmds, db) /\ MatchTask(cmds, task) /\ Sound(boot, m, events, db)
  BY DEF Good, Queue
<1>3. Idle.pc \notin Waiting
  BY IdleTask DEF Waiting
<1>4. /\ SafeCommands(SubSeq(cmds, 1, n - 1), db) /\ MatchTask(SubSeq(cmds, 1, n - 1), Idle)
      /\ n # 2 => SafeCommands(left, db) /\ MatchTask(left, Idle)
  BY <1>1, <1>2, <1>3, WithdrawSteps DEF cmd
<1>5. SafeCommands(cmds', db) /\ MatchTask(cmds', task')
  BY <1>1, <1>4
<1>6. Sound(boot, m, events, db') /\ DbStep(db, db') /\ SafeCommands(cmds', db')
  <2>1. CASE task.pc = "arm_status"
    <3>1. task.sid \in Sids /\ db.sessions[task.sid].status = "arming"
          /\ db.sessions[task.sid].boot = NoBoot
      BY <2>1 DEF Good, Queue, HoldsSession
    <3>2. ~OnDevice(m, task.sid)
      BY <1>2, <3>1, OnDeviceBound
    <3>3. Sound(boot, m, events, db') /\ DbStep(db, db') /\ FailsOnly(db, db', {task.sid})
      BY <1>1, <1>2, <2>1, <3>1, <3>2, SoundStatus DEF ClosedStatuses, ActiveStatuses
    <3>4. \A s \in {task.sid} \cap Sids : db.sessions[s].boot = NoBoot
      BY <3>1
    <3>. QED  BY <1>5, <3>3, <3>4, SafeUnderTransaction
  <2>2. CASE task.pc # "arm_status"
    BY <1>1, <1>2, <1>5, <2>2, GoodFacts
  <2>. QED  BY <2>1, <2>2
<1>7. HoldsSession(task', db') /\ task' \in Task
  BY <1>1, IdleHolds, IdleTask
<1>8. faults' \in 0..MaxFaults
  BY <1>1, FaultType DEF Good
<1>. QED  BY <1>1, <1>5, <1>6, <1>7, <1>8 DEF Good, Shell, Queue

LEMMA DisconnectKeeps ==
  ASSUME Good, Disconnect, UNCHANGED faults \/ Fault, UNCHANGED <<boot, m>>
  PROVE  Good' /\ DbStep(db, db')
<1>1. conn' = "down" /\ UNCHANGED <<cache, events>>
  BY DEF Disconnect
<1>2. CASE cmds # << >> /\ cmds' = Tail(cmds) /\ Return("lost")
  <2>1. Sound(boot, m', events, db)
    BY DEF Good
  <2>2. Sound(boot, m', events, db') /\ DbStep(db, db') /\ Queue' /\ task' \in Task
    BY <1>2, <2>1, DeliverKeeps
  <2>. QED  BY <1>1, <2>2, FaultType DEF Good, Shell
<1>3. CASE UNCHANGED <<cmds, task, db>>
  BY <1>1, <1>3, FaultType, GoodFacts DEF Good, Shell, Queue
<1>. QED  BY <1>2, <1>3 DEF Disconnect

(* The retained results, as RESULT events. *)
LEMMA ResultsQueued ==
  ASSUME Good, NEW i \in 1..(Len(m.results) + 1), NEW e1, FromDevice(boot, m, events, e1)
  PROVE  /\ FromDevice(boot, m, events, e1 \o ResultEvents(i))
         /\ Len(e1 \o ResultEvents(i)) = Len(e1) + Len(ResultEvents(i))
         /\ Len(ResultEvents(i)) = Len(m.results) - i + 1
<1>1. m.results \in Seq(Result) /\ Len(m.results) \in Nat /\ boot \in Nat
  BY GoodFacts DEF GoodMachine, Machine
<1>. DEFINE n == Len(m.results) - i + 1
            r == ResultEvents(i)
<1>2. n \in Nat
  BY <1>1
<1>3. /\ r = [j \in 1..n |-> [kind |-> "result", boot |-> boot, result |-> m.results[i + j - 1]]]
  BY DEF ResultEvents
<1>. HIDE DEF r, n
<1>4. ASSUME NEW j \in 1..n
      PROVE  /\ [kind |-> "result", boot |-> boot, result |-> m.results[i + j - 1]] \in Event
             /\ r[j].boot = boot
             /\ \E k \in 1..Len(m.results) : r[j].result = m.results[k]
  <2>1. i + j - 1 \in 1..Len(m.results)
    BY <1>1, <1>2 DEF n
  <2>2. m.results[i + j - 1] \in Result
    BY <1>1, <2>1
  <2>. QED  BY <1>1, <1>3, <2>1, <2>2 DEF Event
<1>5. r \in Seq(Event) /\ Len(r) = n
  <2>1. \A j \in 1..n : r[j] \in Event
    BY <1>3, <1>4
  <2>2. r \in [1..n -> Event]
    BY <1>3, <2>1
  <2>. QED  BY <1>2, <2>2
<1>6. \A j \in 1..Len(r) : /\ r[j].boot = boot
                           /\ \E k \in 1..Len(m.results) : r[j].result = m.results[k]
  BY <1>4, <1>5
<1>7. FromDevice(boot, m, events, e1 \o r) /\ Len(e1 \o r) = Len(e1) + Len(r)
  <2>1. MayQueue(boot, m, r)
    BY <1>5, <1>6 DEF MayQueue
  <2>. QED  BY <2>1, FromDeviceQueues
<1>. QED  BY <1>5, <1>7 DEF r, n

(* Only the manager's side changes, and only events of the device arrive.  *)
LEMMA ManagerReads ==
  ASSUME Good, UNCHANGED <<boot, m, cmds, task, db, faults>>,
         FromDevice(boot, m, events, events'), Len(events') <= MaxEvents,
         cache' \in [boot : Nat, status : Status], conn' \in {"connected", "down"}
  PROVE  Good' /\ DbStep(db, db')
<1>1. Sound(boot, m, events', db)
  BY SoundEvents DEF Good
<1>. QED  BY <1>1, GoodFacts DEF Good, Shell, Queue

LEMMA PollStatusKeeps ==
  ASSUME Good, PollStatus
  PROVE  Good' /\ DbStep(db, db')
<1>1. RecordStatus /\ UNCHANGED <<boot, m, cmds, task, db, faults>>
  BY DEF PollStatus
<1>. QED  BY <1>1, RecordStatusKeeps, ManagerReads

LEMMA ReadResultsKeeps ==
  ASSUME Good, NEW i \in 1..Capacity, ReadResults(i)
  PROVE  Good' /\ DbStep(db, db')
<1>1. /\ i \in 1..Len(m.results)
      /\ Len(events) + Len(ResultEvents(i)) <= MaxEvents
      /\ events' = events \o ResultEvents(i)
      /\ UNCHANGED <<boot, m, conn, cache, cmds, task, db, faults>>
  BY DEF ReadResults
<1>2. FromDevice(boot, m, events, events)
  BY FromDeviceRefl, GoodFacts
<1>3. i \in 1..(Len(m.results) + 1)
  <2>1. Len(m.results) \in Nat
    BY GoodFacts DEF GoodMachine, Machine
  <2>. QED  BY <1>1, <2>1
<1>4. FromDevice(boot, m, events, events') /\ Len(events') <= MaxEvents
  BY <1>1, <1>2, <1>3, ResultsQueued
<1>. QED  BY <1>1, <1>4, ManagerReads DEF Good, Shell

LEMMA ConnectKeeps ==
  ASSUME Good, Connect
  PROVE  Good' /\ DbStep(db, db')
<1>. DEFINE polled == events \o StatusEvent
            replayed == polled \o ResultEvents(1)
            hello == <<[kind |-> "hello", boot |-> boot]>>
<1>1. /\ Len(events) + Len(m.results) + 2 <= MaxEvents
      /\ conn' = "connected"
      /\ cache' = [boot |-> boot, status |-> StatusNow]
      /\ events' = replayed \o hello
      /\ UNCHANGED <<boot, m, cmds, task, db, faults>>
  BY DEF Connect
<1>2. /\ events \in Seq(Event) /\ Len(events) \in Nat
      /\ StatusNow \in Status /\ boot \in Nat /\ Len(m.results) \in Nat
  BY GoodFacts DEF GoodMachine, Machine
<1>3. FromDevice(boot, m, events, polled) /\ Len(polled) = Len(events) + Len(StatusEvent)
      /\ Len(StatusEvent) \in {0, 1}
  BY <1>2, FromDeviceRefl, StatusQueued
<1>4. FromDevice(boot, m, events, replayed) /\ Len(replayed) = Len(polled) + Len(m.results)
  <2>. HIDE DEF polled
  <2>1. 1 \in 1..(Len(m.results) + 1)
    BY <1>2
  <2>2. Len(ResultEvents(1)) = Len(m.results)
    BY <1>2, <1>3, <2>1, ResultsQueued
  <2>. QED  BY <1>3, <2>1, <2>2, ResultsQueued
<1>. HIDE DEF replayed
<1>5. hello \in Seq(Event) /\ Len(hello) = 1 /\ \A j \in 1..Len(hello) : hello[j].kind = "hello"
  <2>1. [kind |-> "hello", boot |-> boot] \in Event
    BY <1>2 DEF Event
  <2>. QED  BY <2>1
<1>. HIDE DEF hello
<1>6. FromDevice(boot, m, events, replayed \o hello) /\ Len(replayed \o hello) = Len(replayed) + 1
  <2>1. \A j \in 1..Len(hello) : hello[j].kind # "result"
    BY <1>5
  <2>2. MayQueue(boot, m, hello)
    BY <1>5, <2>1 DEF MayQueue
  <2>3. FromDevice(boot, m, events, replayed \o hello) /\ Len(replayed \o hello) = Len(replayed) + Len(hello)
    <3>1. FromDevice(boot, m, events, replayed)
      BY <1>4
    <3>. QED  BY <2>2, <3>1, FromDeviceQueues
  <2>. QED  BY <1>5, <2>3
<1>7. Len(events') <= MaxEvents
  <2>. HIDE DEF polled
  <2>1. Len(events') = Len(events) + Len(StatusEvent) + Len(m.results) + 1
    BY <1>1, <1>3, <1>4, <1>6
  <2>2. \A x, r, k, n \in Nat : k \in {0, 1} /\ x + r + 2 <= n => x + k + r + 1 <= n
    OBVIOUS
  <2>3. Len(events) + Len(m.results) + 2 <= MaxEvents
    BY <1>1
  <2>4. Len(events) + Len(StatusEvent) + Len(m.results) + 1 <= MaxEvents
    BY <1>2, <1>3, <2>2, <2>3, QueueAssumption
  <2>. QED  BY <2>1, <2>4
<1>8. cache' \in [boot : Nat, status : Status]
  BY <1>1, <1>2
<1>. QED  BY <1>1, <1>6, <1>7, <1>8, ManagerReads

LEMMA HostCrashKeeps ==
  ASSUME Good, HostCrash
  PROVE  Good' /\ DbStep(db, db')
<1>1. /\ Fault /\ conn' = "down"
      /\ cache' = [boot |-> NoBoot, status |-> NoStatus]
      /\ events' = << >> /\ cmds' = << >> /\ task' = Idle
      /\ UNCHANGED <<boot, m, db>>
  BY DEF HostCrash
<1>2. FromDevice(boot, m, events, << >>)
  BY DEF FromDevice
<1>3. Sound(boot', m', events', db')
  BY <1>1, <1>2, SoundEvents DEF Good
<1>4. SafeCommands(<< >>, db) /\ MatchTask(<< >>, Idle)
  <2>1. << >> \in Seq(Command) /\ Len(<< >>) = 0
    OBVIOUS
  <2>. QED  BY <2>1, IdleTask DEF SafeCommands, MatchTask, Waiting
<1>5. Queue' /\ task' \in Task
  BY <1>1, <1>4, IdleTask, IdleHolds DEF Queue
<1>6. cache' \in [boot : Nat, status : Status] /\ Len(events') <= MaxEvents
  BY <1>1, IdleTask
<1>7. faults' \in 0..MaxFaults
  BY <1>1, FaultType DEF Good
<1>. QED  BY <1>1, <1>3, <1>5, <1>6, <1>7, GoodFacts DEF Good, Shell

-------------------------------------------------------------------------------
(* A step of the coordinator leaves device and manager alone. *)
LEMMA CoordinatorKeeps ==
  ASSUME Good, UNCHANGED <<boot, m, conn, cache, events, faults>>,
         Sound(boot, m, events, db'), DbStep(db, db'), Queue', task' \in Task
  PROVE  Good' /\ DbStep(db, db')
BY DEF Good, Shell

LEMMA AskCommand ==
  ASSUME NEW op \in {"STATUS", "ARM", "CANCEL", "ACK"}, NEW b \in Nat, NEW seq \in Nat,
         NEW s \in Sids \cup {NoSid}
  PROVE  LET c == [op |-> op, boot |-> b, seq |-> seq, sid |-> s, waiting |-> TRUE]
         IN  /\ c \in Command /\ c.waiting
             /\ c.op = op /\ c.boot = b /\ c.seq = seq /\ c.sid = s
BY DEF Command

(* A free lock, and a transaction that fails no session. *)
LEMMA FreeTransaction ==
  ASSUME Good, task.pc = "idle", NEW d, DbStep(db, d), FailsOnly(db, d, {})
  PROVE  SafeCommands(cmds, d) /\ MatchTask(cmds, task) /\ HoldsSession(task, d)
<1>1. SafeCommands(cmds, db) /\ MatchTask(cmds, task)
  BY DEF Good, Queue
<1>2. \A s \in {} \cap Sids : db.sessions[s].boot = NoBoot
  OBVIOUS
<1>3. SafeCommands(cmds, d)
  BY <1>1, <1>2, SafeUnderTransaction
<1>. QED  BY <1>1, <1>3, IdleHolds

LEMMA ArmBeginsKeeps ==
  ASSUME Good, NEW s \in Sids, NEW purpose \in Kinds, ArmBegins(s, purpose)
  PROVE  Good' /\ DbStep(db, db')
<1>. DEFINE created == CreateProvisional(db, s, purpose)
            t2 == [pc |-> "arm_status", sid |-> s, status |-> NoStatus]
            c == [op |-> "STATUS", boot |-> NoBoot, seq |-> 0, sid |-> NoSid, waiting |-> TRUE]
<1>1. /\ task.pc = "idle" /\ created # db
      /\ \/ db' = created /\ task' = t2 /\ cmds' = Append(cmds, c)
         \/ db' = UpdateStatus(created, s, "failed") /\ UNCHANGED <<task, cmds>>
      /\ UNCHANGED <<boot, m, conn, cache, events, faults>>
  BY DEF ArmBegins, Unlocked, Ask
<1>2. Sound(boot, m, events, db) /\ GoodDatabase(db)
  BY GoodFacts DEF Good
<1>3. /\ DbStep(db, created)
      /\ created.results = db.results /\ created.pours = db.pours
      /\ db.sessions[s].status = "none" /\ db.sessions[s].boot = NoBoot
      /\ created.sessions[s].status = "arming" /\ created.sessions[s].boot = NoBoot
      /\ \A t \in Sids : t # s => created.sessions[t] = db.sessions[t]
  <2>1. purpose \in Purposes
    BY BootAssumption
  <2>. QED  BY <1>1, <1>2, <2>1, CreateSteps
<1>. HIDE DEF created
<1>4. CommitsNothing(db, created) /\ FailsOnly(db, created, {})
  BY <1>3 DEF CommitsNothing, FailsOnly
<1>5. Sound(boot, m, events, created)
  BY <1>2, <1>3, <1>4, SoundTransaction
<1>6. SafeCommands(cmds, created) /\ MatchTask(cmds, task) /\ HoldsSession(task, created)
  BY <1>1, <1>3, <1>4, FreeTransaction
<1>7. CASE db' = created /\ task' = t2 /\ cmds' = Append(cmds, c)
  <2>1. /\ c \in Command /\ c.waiting /\ c.op = "STATUS"
    BY AskCommand, BootAssumption
  <2>2. t2 \in Task /\ t2.pc = "arm_status" /\ t2.sid = s
    BY IdleTask DEF Task
  <2>. HIDE DEF c, t2
  <2>3. SafeCommand(c, created) /\ AskedBy(t2, c)
    BY <2>1, <2>2 DEF SafeCommand, AskedBy
  <2>4. task.pc \notin Waiting
    BY <1>1 DEF Waiting
  <2>5. \A i \in 1..Len(cmds) : cmds[i].op = "ARM" /\ c.op = "ARM" => cmds[i].sid # c.sid
    BY <2>1
  <2>6. SafeCommands(cmds', db') /\ MatchTask(cmds', task')
    BY <1>6, <1>7, <2>1, <2>3, <2>4, <2>5, AskSteps
  <2>7. HoldsSession(task', db')
    BY <1>3, <1>7, <2>2 DEF HoldsSession
  <2>. QED  BY <1>1, <1>3, <1>5, <1>7, <2>2, <2>6, <2>7, CoordinatorKeeps DEF Queue
<1>8. CASE db' = UpdateStatus(created, s, "failed") /\ UNCHANGED <<task, cmds>>
  <2>1. ~OnDevice(m, s)
    BY <1>3, <1>5, OnDeviceBound
  <2>2. Sound(boot, m, events, db') /\ DbStep(created, db') /\ FailsOnly(created, db', {s})
    BY <1>3, <1>5, <1>8, <2>1, SoundStatus DEF ClosedStatuses, ActiveStatuses
  <2>3. SafeCommands(cmds, db')
    BY <1>3, <1>6, <2>2, SafeUnderTransaction
  <2>4. DbStep(db, db')
    BY <1>3, <2>2 DEF DbStep
  <2>. QED  BY <1>1, <1>6, <1>8, <2>2, <2>3, <2>4, IdleHolds, CoordinatorKeeps
            DEF Queue, Good, Shell
<1>. QED  BY <1>1, <1>7, <1>8

LEMMA ArmBindsKeeps ==
  ASSUME Good, ArmBinds
  PROVE  Good' /\ DbStep(db, db')
<1>. DEFINE s == task.sid
            b == task.status.boot
            seq == task.status.next
            bound == BindProvisional(db, s, b, seq, task.status.life)
            t2 == [task EXCEPT !.pc = "arm_wait", !.status = NoStatus]
            c == [op |-> "ARM", boot |-> b, seq |-> seq, sid |-> s, waiting |-> TRUE]
<1>1. /\ task.pc = "arm_bind"
      /\ \/ db' = bound /\ task' = t2 /\ cmds' = Append(cmds, c)
         \/ db' = UpdateStatus(db, s, "failed") /\ task' = Idle /\ UNCHANGED cmds
      /\ UNCHANGED <<boot, m, conn, cache, events, faults>>
  BY DEF ArmBinds, Ask
<1>2. /\ Sound(boot, m, events, db) /\ GoodDatabase(db)
      /\ SafeCommands(cmds, db) /\ MatchTask(cmds, task) /\ task \in Task
  BY GoodFacts DEF Good, Queue, Shell
<1>3. /\ s \in Sids /\ db.sessions[s].status = "arming" /\ db.sessions[s].boot = NoBoot
      /\ b \in Nat /\ b # NoBoot /\ seq \in Nat /\ task.status.life \in Nat
  BY <1>1, <1>2 DEF Good, Queue, HoldsSession, Task, Status
<1>4. task.pc \notin Waiting
  BY <1>1 DEF Waiting
<1>5. CASE db' = bound /\ task' = t2 /\ cmds' = Append(cmds, c)
  <2>1. /\ DbStep(db, bound)
        /\ bound.results = db.results /\ bound.pours = db.pours
        /\ bound.sessions[s].status = "armed"
        /\ bound.sessions[s].boot = b /\ bound.sessions[s].seq = seq
        /\ \A t \in Sids : t # s => bound.sessions[t] = db.sessions[t]
    <3>1. Binds(db, bound, s, b, seq)
      BY <1>2, <1>3, BindSteps
    <3>. QED  BY <3>1 DEF Binds
  <2>. HIDE DEF bound
  <2>2. CommitsNothing(db, bound) /\ FailsOnly(db, bound, {})
    BY <2>1 DEF CommitsNothing, FailsOnly
  <2>3. Sound(boot, m, events, bound) /\ SafeCommands(cmds, bound)
    BY <1>2, <2>1, <2>2, SoundTransaction, SafeUnderTransaction
  <2>4. /\ c \in Command /\ c.waiting
        /\ c.op = "ARM" /\ c.boot = b /\ c.seq = seq /\ c.sid = s
    BY <1>3, AskCommand
  <2>5. t2 \in Task /\ t2.pc = "arm_wait" /\ t2.sid = s
    BY <1>2, IdleTask DEF Task
  <2>6. \A i \in 1..Len(cmds) : cmds[i].op = "ARM" /\ c.op = "ARM" => cmds[i].sid # c.sid
    BY <1>2, <1>3, <2>4 DEF SafeCommands, SafeCommand
  <2>. HIDE DEF c, t2
  <2>7. SafeCommand(c, bound) /\ AskedBy(t2, c)
    BY <1>3, <2>1, <2>4, <2>5 DEF SafeCommand, AskedBy
  <2>8. SafeCommands(cmds', db') /\ MatchTask(cmds', task')
    BY <1>2, <1>4, <1>5, <2>3, <2>4, <2>6, <2>7, AskSteps
  <2>9. HoldsSession(task', db')
    BY <1>3, <1>5, <2>5 DEF HoldsSession
  <2>. QED  BY <1>1, <1>5, <2>1, <2>3, <2>5, <2>8, <2>9, CoordinatorKeeps DEF Queue
<1>6. CASE db' = UpdateStatus(db, s, "failed") /\ task' = Idle /\ UNCHANGED cmds
  <2>1. ~OnDevice(m, s)
    BY <1>2, <1>3, OnDeviceBound
  <2>2. Sound(boot, m, events, db') /\ DbStep(db, db') /\ FailsOnly(db, db', {s})
    BY <1>2, <1>3, <1>6, <2>1, SoundStatus DEF ClosedStatuses, ActiveStatuses
  <2>3. SafeCommands(cmds', db')
    <3>1. \A t \in {s} \cap Sids : db.sessions[t].boot = NoBoot
      BY <1>3
    <3>. QED  BY <1>2, <1>6, <2>2, <3>1, SafeUnderTransaction
  <2>4. MatchTask(cmds', task')
    BY <1>2, <1>4, <1>6, IdleTask DEF MatchTask, Waiting
  <2>. QED  BY <1>1, <1>6, <2>2, <2>3, <2>4, IdleTask, IdleHolds, CoordinatorKeeps DEF Queue
<1>. QED  BY <1>1, <1>5, <1>6

LEMMA CancelRepliedKeeps ==
  ASSUME Good, CancelReplied
  PROVE  Good' /\ DbStep(db, db')
<1>1. PICK status \in {"cancelled", "finalizing"} : db' = UpdateStatus(db, task.sid, status)
  BY DEF CancelReplied
<1>2. status \in ActiveStatuses \cup ClosedStatuses /\ status # "failed"
  BY DEF ActiveStatuses, ClosedStatuses
<1>3. task.pc = "cancel_reply" /\ task' = Idle
      /\ UNCHANGED <<boot, m, conn, cache, events, faults, cmds>>
  BY DEF CancelReplied
<1>4. /\ task.sid \in ActiveSessions(db) /\ Sound(boot, m, events, db)
      /\ SafeCommands(cmds, db) /\ MatchTask(cmds, task)
  BY <1>3 DEF Good, Queue, HoldsSession
<1>5. task.sid \in Sids /\ db.sessions[task.sid].status \notin ClosedStatuses
  BY <1>4, StatusesApart DEF ActiveSessions
<1>6. Sound(boot, m, events, db') /\ DbStep(db, db') /\ FailsOnly(db, db', {})
  BY <1>1, <1>2, <1>4, <1>5, SoundStatus
<1>7. SafeCommands(cmds', db')
  BY <1>3, <1>4, <1>6, SafeUnderTransaction
<1>8. MatchTask(cmds', task')
  BY <1>3, <1>4, IdleTask DEF MatchTask, Waiting
<1>. QED  BY <1>3, <1>6, <1>7, <1>8, IdleTask, IdleHolds, CoordinatorKeeps DEF Queue

LEMMA CancelBeginsKeeps ==
  ASSUME Good, CancelBegins
  PROVE  Good' /\ DbStep(db, db')
<1>1. task.pc = "idle" /\ UNCHANGED <<boot, m, conn, cache, events, faults>>
  BY DEF CancelBegins, Unlocked
<1>2. PICK s \in ActiveSessions(db) :
        LET bound == db.sessions[s].boot # NoBoot
        IN  IF bound /\ conn = "connected"
            THEN /\ task' = [pc |-> "cancel_wait", sid |-> s, status |-> NoStatus]
                 /\ Ask("CANCEL", db.sessions[s].boot, db.sessions[s].seq, s)
                 /\ UNCHANGED db
            ELSE /\ db' = UpdateStatus(db, s, IF bound THEN "interrupted_uncertain"
                                               ELSE "cancelled")
                 /\ UNCHANGED <<task, cmds>>
  BY DEF CancelBegins
<1>. DEFINE t2 == [pc |-> "cancel_wait", sid |-> s, status |-> NoStatus]
            c == [op |-> "CANCEL", boot |-> db.sessions[s].boot, seq |-> db.sessions[s].seq,
                  sid |-> s, waiting |-> TRUE]
<1>3. \/ task' = t2 /\ cmds' = Append(cmds, c) /\ UNCHANGED db
      \/ /\ \E status \in {"interrupted_uncertain", "cancelled"} : db' = UpdateStatus(db, s, status)
         /\ UNCHANGED <<task, cmds>>
  BY <1>2 DEF Ask
<1>4. /\ GoodDatabase(db) /\ DbStep(db, db)
      /\ SafeCommands(cmds, db) /\ MatchTask(cmds, task) /\ task \in Task
  BY GoodFacts DEF Good, Queue, Shell
<1>5. s \in Sids /\ db.sessions[s].boot \in Nat /\ db.sessions[s].seq \in Nat
  BY <1>4, DatabaseFields DEF GoodDatabase, ActiveSessions
<1>6. CASE task' = t2 /\ cmds' = Append(cmds, c) /\ UNCHANGED db
  <2>1. c \in Command /\ c.waiting /\ c.op = "CANCEL" /\ c.sid = s
    BY <1>5, AskCommand
  <2>2. t2 \in Task /\ t2.pc = "cancel_wait" /\ t2.sid = s
    BY <1>5, IdleTask DEF Task
  <2>3. task.pc \notin Waiting
    BY <1>1 DEF Waiting
  <2>. HIDE DEF c, t2
  <2>4. SafeCommand(c, db) /\ AskedBy(t2, c)
    BY <1>5, <2>1, <2>2 DEF SafeCommand, AskedBy
  <2>5. \A i \in 1..Len(cmds) : cmds[i].op = "ARM" /\ c.op = "ARM" => cmds[i].sid # c.sid
    BY <2>1
  <2>6. SafeCommands(cmds', db') /\ MatchTask(cmds', task')
    BY <1>4, <1>6, <2>1, <2>3, <2>4, <2>5, AskSteps
  <2>7. HoldsSession(task', db')
    BY <1>6, <2>2 DEF HoldsSession
  <2>8. Sound(boot, m, events, db')
    BY <1>6 DEF Good
  <2>. QED  BY <1>1, <1>4, <1>6, <2>2, <2>6, <2>7, <2>8, CoordinatorKeeps DEF Queue
<1>7. ASSUME NEW status \in {"interrupted_uncertain", "cancelled"},
             db' = UpdateStatus(db, s, status), UNCHANGED <<task, cmds>>
      PROVE  Good' /\ DbStep(db, db')
  <2>1. status \in ClosedStatuses \ {"failed"} /\ status \notin ActiveStatuses
    BY DEF ClosedStatuses, ActiveStatuses
  <2>2. Sound(boot, m, events, db') /\ DbStep(db, db') /\ FailsOnly(db, db', {})
    BY <1>5, <1>7, <2>1, SoundStatus DEF Good
  <2>3. SafeCommands(cmds, db') /\ MatchTask(cmds, task) /\ HoldsSession(task, db')
    BY <1>1, <2>2, FreeTransaction
  <2>. QED  BY <1>1, <1>4, <1>7, <2>2, <2>3, CoordinatorKeeps DEF Queue
<1>. QED  BY <1>3, <1>6, <1>7

-------------------------------------------------------------------------------
(* A transaction on active sessions that commits nothing and fails none.   *)
Harmless(d) == Sound(boot, m, events, d) /\ DbStep(db, d) /\ FailsOnly(db, d, {})

LEMMA HarmlessStatus ==
  ASSUME Good, NEW s \in ActiveSessions(db),
         NEW status \in LiveStates \cup {"interrupted_uncertain"}
  PROVE  Harmless(UpdateStatus(db, s, status))
<1>1. s \in Sids /\ db.sessions[s].status \notin ClosedStatuses
  BY StatusesApart DEF ActiveSessions
<1>2. status \in ActiveStatuses \cup ClosedStatuses /\ status # "failed"
  BY DEF ActiveStatuses, ClosedStatuses, LiveStates
<1>. QED  BY <1>1, <1>2, SoundStatus DEF Harmless, Good

LEMMA HarmlessMirror ==
  ASSUME Good, NEW status
  PROVE  Harmless(db) /\ Harmless(Mirrored(status))
<1>1. Harmless(db)
  BY GoodFacts DEF Harmless, FailsOnly, Good
<1>. QED  BY <1>1, HarmlessStatus DEF Mirrored

(* What the handlers of status and hello events do. *)
LEMMA ProcessHelloHarmless ==
  ASSUME Good, ProcessHello
  PROVE  Harmless(db') /\ UNCHANGED <<task, cmds>>
<1>1. UNCHANGED <<task, cmds>>
  BY DEF ProcessHello
<1>2. CASE db' = db
  BY <1>1, <1>2, HarmlessMirror
<1>3. ASSUME db' # db
      PROVE  \E s \in ActiveSessions(db) :
               \/ db' = Mirrored(cache.status)
               \/ db' = RecoverDelta(db, s, cache.status.boot, cache.status.life)
               \/ db' = UpdateStatus(db, s, "interrupted_uncertain")
  BY <1>3 DEF ProcessHello
<1>4. ASSUME NEW s \in ActiveSessions(db),
             db' = RecoverDelta(db, s, cache.status.boot, cache.status.life)
      PROVE  Harmless(db')
  <2>1. cache.status.boot \in Nat /\ cache.status.life \in Nat
    BY DEF Good, Shell, Status
  <2>2. DbStep(db, db') /\ CommitsNothing(db, db') /\ FailsOnly(db, db', {})
    BY <1>4, <2>1, RecoverSteps, GoodFacts
  <2>3. Sound(boot, m, events, db')
    BY <2>2, SoundTransaction DEF Good
  <2>. QED  BY <2>2, <2>3 DEF Harmless
<1>. QED  BY <1>1, <1>2, <1>3, <1>4, HarmlessMirror, HarmlessStatus

(* The event leaves the queue, or goes to its end. *)
LEMMA EventTaken ==
  ASSUME Good, events # << >>,
         events' \in {Tail(events), Append(Tail(events), Head(events))}
  PROVE  /\ Head(events) = events[1] /\ 1 \in 1..Len(events)
         /\ Head(events).kind \in {"result", "status", "hello"}
         /\ FromDevice(boot, m, events, events')
         /\ Len(events') <= MaxEvents
<1>1. events \in Seq(Event) /\ Len(events) \in Nat /\ Len(events) <= MaxEvents /\ MaxEvents \in Nat
  BY GoodFacts, QueueAssumption DEF Good, Shell
<1>2. 1 \in 1..Len(events) /\ Head(events) = events[1] /\ events[1] \in Event
  BY <1>1
<1>. DEFINE r == Tail(events)
            a == Append(r, events[1])
<1>3. r \in Seq(Event) /\ Len(r) = Len(events) - 1 /\ \A i \in 1..Len(r) : r[i] = events[i + 1]
  BY <1>1, <1>2
<1>. HIDE DEF r
<1>4. \A i \in 1..Len(r) : \E j \in 1..Len(events) : r[i] = events[j]
  BY <1>1, <1>3
<1>5. FromDevice(boot, m, events, r) /\ Len(r) <= MaxEvents
  BY <1>1, <1>3, <1>4 DEF FromDevice
<1>6. FromDevice(boot, m, events, a) /\ Len(a) <= MaxEvents
  <2>1. /\ a \in Seq(Event) /\ Len(a) = Len(r) + 1
        /\ \A i \in 1..Len(a) : (i \in 1..Len(r) /\ a[i] = r[i]) \/ a[i] = events[1]
    BY <1>2, <1>3
  <2>. HIDE DEF a
  <2>2. \A i \in 1..Len(a) : \E j \in 1..Len(events) : a[i] = events[j]
    BY <1>2, <1>4, <2>1
  <2>3. FromDevice(boot, m, events, a)
    BY <2>1, <2>2 DEF FromDevice
  <2>. QED  BY <1>1, <1>3, <2>1, <2>3
<1>7. Head(events).kind \in {"result", "status", "hello"}
  BY <1>1, <1>2, EventFields
<1>. QED  BY <1>2, <1>5, <1>6, <1>7 DEF r

LEMMA ProcessEventKeeps ==
  ASSUME Good, ProcessEvent
  PROVE  Good' /\ DbStep(db, db')
<1>. DEFINE e == Head(events)
<1>1. /\ task.pc = "idle" /\ events # << >>
      /\ events' \in {Tail(events), Append(Tail(events), e)}
      /\ UNCHANGED <<boot, m, conn, cache, faults>>
      /\ \/ e.kind = "status" /\ ProcessStatus(e)
         \/ e.kind = "hello" /\ ProcessHello
         \/ e.kind \notin {"status", "hello"} /\ ProcessResult(e)
  BY DEF ProcessEvent, Unlocked
<1>2. /\ e = events[1] /\ 1 \in 1..Len(events)
      /\ e.kind \in {"result", "status", "hello"}
      /\ FromDevice(boot, m, events, events') /\ Len(events') <= MaxEvents
  BY <1>1, EventTaken
<1>. HIDE DEF e
<1>3. ASSUME Harmless(db'), UNCHANGED <<task, cmds>>
      PROVE  Good' /\ DbStep(db, db')
  <2>1. Sound(boot, m, events', db')
    BY <1>2, <1>3, SoundEvents DEF Harmless
  <2>2. SafeCommands(cmds, db') /\ MatchTask(cmds, task) /\ HoldsSession(task, db')
    BY <1>1, <1>3, FreeTransaction DEF Harmless
  <2>. QED  BY <1>1, <1>2, <1>3, <2>1, <2>2 DEF Harmless, Good, Shell, Queue
<1>4. CASE e.kind = "status" /\ ProcessStatus(e)
  BY <1>3, <1>4, HarmlessMirror DEF ProcessStatus
<1>5. CASE e.kind = "hello" /\ ProcessHello
  BY <1>3, <1>5, ProcessHelloHarmless
<1>6. CASE e.kind = "result" /\ ProcessResult(e)
  <2>1. db' = FinalizeResult(db, e.boot, e.result)
    BY <1>6 DEF ProcessResult
  <2>2. /\ Sound(boot, m, events, db')
        /\ DbStep(db, db') /\ FailsOnly(db, db', {})
        /\ MatchesBinding(db, e.boot, e.result) => Committed(db', e.boot, e.result.seq)
    BY <1>2, <1>6, <2>1, SoundCommit DEF Good
  <2>3. CASE UNCHANGED <<task, cmds>>
    BY <1>3, <2>2, <2>3 DEF Harmless
  <2>4. CASE ~UNCHANGED <<task, cmds>>
    <3>. DEFINE t2 == [pc |-> "ack_wait", sid |-> NoSid, status |-> NoStatus]
                c == [op |-> "ACK", boot |-> e.boot, seq |-> e.result.seq,
                      sid |-> NoSid, waiting |-> TRUE]
    <3>1. MatchesBinding(db, e.boot, e.result) /\ task' = t2 /\ cmds' = Append(cmds, c)
      BY <1>6, <2>4 DEF ProcessResult, Ask
    <3>2. e.boot \in Nat /\ e.result.seq \in Nat
      BY <1>2, <1>6, EventFields, GoodFacts
    <3>3. c \in Command /\ c.waiting /\ c.op = "ACK" /\ c.boot = e.boot /\ c.seq = e.result.seq
      BY <3>2, AskCommand
    <3>4. t2 \in Task /\ t2.pc = "ack_wait"
      BY IdleTask DEF Task
    <3>5. task.pc \notin Waiting
      BY <1>1 DEF Waiting
    <3>. HIDE DEF c, t2
    <3>6. SafeCommand(c, db') /\ AskedBy(t2, c)
      BY <2>2, <3>1, <3>3, <3>4 DEF SafeCommand, AskedBy
    <3>7. \A i \in 1..Len(cmds) : cmds[i].op = "ARM" /\ c.op = "ARM" => cmds[i].sid # c.sid
      BY <3>3
    <3>8. SafeCommands(cmds, db') /\ MatchTask(cmds, task)
      BY <1>1, <2>2, FreeTransaction
    <3>9. SafeCommands(cmds', db') /\ MatchTask(cmds', task')
      BY <3>1, <3>3, <3>5, <3>6, <3>7, <3>8, AskSteps
    <3>10. HoldsSession(task', db') /\ task' \in Task
      BY <3>1, <3>4, IdleHolds
    <3>11. Sound(boot, m, events', db')
      BY <1>2, <2>2, SoundEvents
    <3>. QED  BY <1>1, <1>2, <2>2, <3>9, <3>10, <3>11 DEF Good, Shell, Queue
  <2>. QED  BY <2>3, <2>4
<1>. QED  BY <1>1, <1>2, <1>4, <1>5, <1>6

-------------------------------------------------------------------------------
LEMMA InitGood ==
  ASSUME Init
  PROVE  Good
<1>1. /\ boot = 1 /\ m = NewMachine /\ conn = "down"
      /\ cache = [boot |-> NoBoot, status |-> NoStatus]
      /\ events = << >> /\ cmds = << >> /\ task = Idle /\ faults = 0
      /\ db = EmptyDatabase
  BY DEF Init
<1>2. /\ m.lifetime = 0 /\ m.recovery = 0 /\ m.results = << >> /\ Len(m.results) = 0
      /\ ~m.active.present /\ m.active.sid = NoSid /\ GoodMachine(m)
  BY <1>1, NewMachineGood DEF NewMachine, NoActive
<1>3. /\ db.results = {} /\ db.pours = << >> /\ Len(db.pours) = 0
      /\ \A s \in Sids : db.sessions[s] = NoSession
      /\ NoSession.status = "none" /\ NoSession.boot = NoBoot
  BY <1>1 DEF EmptyDatabase, NoSession
<1>4. GoodDatabase(db)
  <2>1. NoSession \in Session
    BY BootAssumption DEF NoSession, Session, Purposes
  <2>2. db \in Database
    BY <1>1, <2>1 DEF EmptyDatabase, Database
  <2>3. ActiveSessions(db) = {}
    BY <1>3, StatusesApart DEF ActiveSessions
  <2>4. PoursHaveRows(db)
    BY <1>3 DEF PoursHaveRows
  <2>. QED  BY <1>3, <2>2, <2>3, <2>4 DEF GoodDatabase
<1>5. \A x : x \notin Known(boot, m, events, db)
  BY <1>1, <1>2, <1>3, KnownCases
<1>6. Sound(boot, m, events, db)
  <2>1. RecordsAgree(boot, m, events, db)
    BY <1>5 DEF RecordsAgree
  <2>2. ReplaysAreHeld(boot, m, events, db)
    BY <1>1 DEF ReplaysAreHeld
  <2>3. BoundIn(boot, m, events, db) /\ NoneFailed(m, db) /\ PoursApart(db)
    BY <1>1, <1>2, <1>3 DEF BoundIn, NoneFailed, OnDevice, PoursApart
  <2>4. PulsesKept(boot, m, db)
    <3>1. Unrecorded(boot, m, db) = {}
      BY <1>2 DEF Unrecorded
    <3>. QED  BY <1>2, <3>1, FS_EmptySet DEF PulsesKept
  <2>5. boot \in Nat \ {0} /\ events \in Seq(Event) /\ m.lifetime <= MaxPulses
    BY <1>1, <1>2, QueueAssumption
  <2>. QED  BY <1>2, <1>4, <2>1, <2>2, <2>3, <2>4, <2>5 DEF Sound
<1>7. Queue
  <2>1. cmds \in Seq(Command) /\ Len(cmds) = 0
    BY <1>1
  <2>2. SafeCommands(cmds, db) /\ MatchTask(cmds, task)
    BY <1>1, <2>1, IdleTask DEF SafeCommands, MatchTask, Waiting
  <2>. QED  BY <1>1, <2>2, IdleTask, IdleHolds DEF Queue
<1>8. Shell
  <2>1. Len(events) <= MaxEvents /\ 1 \in 1..MaxBoot /\ 0 \in 0..MaxFaults
    BY <1>1, QueueAssumption, BootAssumption
  <2>2. cache \in [boot : Nat, status : Status]
    BY <1>1, IdleTask, BootAssumption
  <2>. QED  BY <1>1, <2>1, <2>2, IdleTask DEF Shell
<1>. QED  BY <1>6, <1>7, <1>8 DEF Good

LEMMA NextGood ==
  ASSUME Good, [Next]_vars
  PROVE  Good' /\ DbStep(db, db')
<1>1. CASE Device
  BY <1>1, DeviceKeeps
<1>2. CASE Requests
  BY <1>2, DeliverStatusKeeps, DeliverArmKeeps, DeliverCancelKeeps, DeliverAckKeeps DEF Requests
<1>3. CASE CallerTimesOut \/ PollStatus \/ Connect
  BY <1>3, CallerTimesOutKeeps, PollStatusKeeps, ConnectKeeps
<1>4. CASE SeeReset \/ LinkLost
  BY <1>4, DisconnectKeeps DEF SeeReset, LinkLost
<1>5. ASSUME NEW i \in 1..Capacity, ReadResults(i)
      PROVE  Good' /\ DbStep(db, db')
  BY <1>5, ReadResultsKeeps
<1>6. ASSUME NEW s \in Sids, NEW purpose \in Kinds, ArmBegins(s, purpose)
      PROVE  Good' /\ DbStep(db, db')
  BY <1>6, ArmBeginsKeeps
<1>7. CASE ArmBinds \/ CancelBegins \/ CancelReplied \/ ProcessEvent
  BY <1>7, ArmBindsKeeps, CancelBeginsKeeps, CancelRepliedKeeps, ProcessEventKeeps
<1>8. CASE HostCrash
  BY <1>8, HostCrashKeeps
<1>9. CASE UNCHANGED vars
  BY <1>9, GoodFacts DEF vars, Good, Shell, Queue
<1>. QED  BY <1>1, <1>2, <1>3, <1>4, <1>5, <1>6, <1>7, <1>8, <1>9 DEF Next, Manager, Coordinator

(* The names of this module and those of PourSystem say the same. *)
LEMMA GoodImpliesInv ==
  ASSUME Good
  PROVE  Inv
<1>1. /\ Shell /\ Sound(boot, m, events, db) /\ GoodDatabase(db)
      /\ SafeCommands(cmds, db) /\ MatchTask(cmds, task) /\ HoldsSession(task, db)
  BY GoodFacts DEF Good, Queue
<1>2. Cardinality(ActiveSessions(db)) <= 1
  <2>1. CASE ActiveSessions(db) = {}
    BY <2>1, FS_EmptySet
  <2>2. ASSUME NEW s \in ActiveSessions(db)
        PROVE  Cardinality(ActiveSessions(db)) <= 1
    <3>1. ActiveSessions(db) = {s}
      BY <1>1, <2>2 DEF GoodDatabase
    <3>2. Cardinality(ActiveSessions(db)) = 1
      BY <3>1, FS_Singleton, Zenon
    <3>. QED  BY <3>2
  <2>. QED  BY <2>1, <2>2
<1>3. TypeOK
  BY <1>1, <1>2 DEF TypeOK, Shell, Sound, GoodMachine, GoodDatabase, SafeCommands
<1>4. CommandsMatchTask /\ TaskHoldsSession
  BY <1>1 DEF CommandsMatchTask, MatchTask, TaskHoldsSession, HoldsSession, Waiting
<1>5. CommandsAreSafe
  BY <1>1 DEF CommandsAreSafe, SafeCommands, SafeCommand
<1>6. AttributedEventIsBound
  BY <1>1 DEF AttributedEventIsBound, RetainedResults, Sound, BoundIn
<1>7. ArmedSessionIsNotFailed
  BY <1>1 DEF ArmedSessionIsNotFailed, RetainedResults, Sound, NoneFailed, OnDevice
<1>8. MeasuredPulsesKept /\ ResultsCountedOnce
  BY <1>1 DEF MeasuredPulsesKept, ResultsCountedOnce, Sound, PulsesKept, Unrecorded, PoursApart
<1>. QED  BY <1>1, <1>3, <1>4, <1>5, <1>6, <1>7, <1>8 DEF Inv, Sound

-------------------------------------------------------------------------------
(* Inv, with the type invariant, holds in every reachable state, whatever  *)
(* the coordinator's tasks, the manager, the device, the faults of link    *)
(* and device and the crashes of the host do, in any order.                *)
THEOREM PourInvariant == Spec => []Inv
<1>1. Init => Good
  BY InitGood
<1>2. Good /\ [Next]_vars => Good'
  BY NextGood
<1>3. Good => Inv
  BY GoodImpliesInv
<1>. QED  BY <1>1, <1>2, <1>3, PTL DEF Spec

(* DB-03: no pulse that the device measured in this boot is forgotten      *)
(* between the device and the database, except into its recovery counter.  *)
THEOREM PulsesAlwaysKept == Spec => []MeasuredPulsesKept
<1>1. Inv => MeasuredPulsesKept
  BY DEF Inv
<1>. QED  BY <1>1, PourInvariant, PTL

(* However often a result is replayed, the pours made from results never   *)
(* overlap: finalize_device_result() counts each pulse at most once.       *)
THEOREM ResultsAlwaysCountedOnce == Spec => []ResultsCountedOnce
<1>1. Inv => ResultsCountedOnce
  BY DEF Inv
<1>. QED  BY <1>1, PourInvariant, PTL

(* Every attributed event and result has its durable binding, so none is   *)
(* stuck in the event loop unable to be committed.                         *)
THEOREM AttributedAlwaysBound == Spec => []AttributedEventIsBound
<1>1. Inv => AttributedEventIsBound
  BY DEF Inv
<1>. QED  BY <1>1, PourInvariant, PTL

(* ADR-020: no session the device has armed is marked failed, although     *)
(* replies are lost and ARM commands reach the device without a caller.    *)
THEOREM ArmedNeverFailed == Spec => []ArmedSessionIsNotFailed
<1>1. Inv => ArmedSessionIsNotFailed
  BY DEF Inv
<1>. QED  BY <1>1, PourInvariant, PTL

(* Every step keeps the bindings of bound sessions, the end of closed      *)
(* sessions and every committed result.                                    *)
THEOREM TransactionsKeepRecords == Spec => [][DbStep(db, db')]_vars
<1>1. Init => Good
  BY InitGood
<1>2. Good /\ [Next]_vars => Good' /\ DbStep(db, db')
  BY NextGood
<1>. QED  BY <1>1, <1>2, PTL DEF Spec

(* A session that has ended stays ended. *)
THEOREM ClosedForever == Spec => ClosedStaysClosed
<1>1. DbStep(db, db') => \A s \in Sids : db.sessions[s].status \in ClosedStatuses
                                          => db'.sessions[s].status \in ClosedStatuses
  BY DEF DbStep
<1>. QED  BY <1>1, TransactionsKeepRecords, PTL DEF ClosedStaysClosed
===============================================================================
