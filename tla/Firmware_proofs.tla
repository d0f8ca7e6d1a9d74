--------------------------- MODULE Firmware_proofs ----------------------------
(***************************************************************************)
(* Safety of the firmware for every store capacity, counter width, clock   *)
(* width and timer setting.  The theorems follow from the lemmas on the    *)
(* SessionMachine operators, because every action of Firmware only         *)
(* composes those operators: GoodMachine and Extends survive a sequence of *)
(* calls, so one lemma per action turns them into the next state's         *)
(* invariant and into the step of EventStore the action implements.        *)
(***************************************************************************)
EXTENDS Firmware, BootIdentity, SessionMachine_proofs, FiniteSetTheorems, FunctionTheorems

USE SidsAssumption, WidthAssumption

(* The batch every command and tick applies first. *)
LEMMA DrainedGood ==
  ASSUME Inv
  PROVE  GoodMachine(Drained) /\ QuietAfterDrain \in Nat
<1>1. /\ GoodMachine(m)
      /\ pending.count \in Nat
      /\ pending.first \in Int
      /\ pending.last \in Int
      /\ clock \in Int
      /\ quiet \in Nat
  BY DEF Inv, TypeOK, Pending, Times
<1>2. GoodMachine(Drained)
  <2>1. CASE pending.count = 0
    BY <1>1, <2>1 DEF Drained
  <2>2. CASE pending.count # 0
    <3> DEFINE batch == AddBatch(m, pending.count, pending.first, pending.last)
    <3>1. GoodMachine(batch)
      BY <1>1, <2>2, AddBatchGood
    <3> HIDE DEF batch
    <3>2. GoodMachine(MarkSaturated(batch))
      BY <3>1, MarkSaturatedGood
    <3> QED BY <2>2, <3>1, <3>2 DEF Drained, batch
  <2> QED BY <2>1, <2>2
<1>3. Wrap(clock - pending.last) \in Nat
  <2>1. clock - pending.last \in Int
    BY <1>1
  <2> QED BY <2>1, WrapType
<1> QED BY <1>1, <1>2, <1>3 DEF QuietAfterDrain

LEMMA EmitNewType ==
  ASSUME NEW mm, GoodMachine(mm), lastEmitted \in Nat
  PROVE  EmitNew(mm) \in Nat
<1>1. mm.results \in Seq(Result)
  BY GoodFields
<1>2. CASE Len(mm.results) > 0
  <2>1. mm.results[Len(mm.results)] \in Result
    BY <1>1, <1>2
  <2> QED BY <2>1 DEF EmitNew, Result
<1>3. CASE ~(Len(mm.results) > 0)
  BY <1>3 DEF EmitNew
<1> QED BY <1>2, <1>3

LEMMA EmitAfterType ==
  ASSUME Inv, NEW mm, GoodMachine(mm), NEW asked \in BOOLEAN, EmitAfter(mm, asked)
  PROVE  lastEmitted' \in Nat
<1>1. lastEmitted \in Nat
  BY DEF Inv, TypeOK
<1>2. EmitNew(mm) \in Nat /\ EmitNew(Drained) \in Nat
  BY <1>1, DrainedGood, EmitNewType
<1> QED BY <1>1, <1>2 DEF EmitAfter

LEMMA NoPendingType == NoPending \in Pending
BY PendingAssumption DEF NoPending, Pending, Times

(* What is left to show of an action that drains the batch. *)
LEMMA CommandKeepsInv ==
  ASSUME Inv, GoodMachine(m'), pending' = NoPending, clock' = clock,
         lastEmitted' \in Nat, stall' \in Nat, quiet' \in Nat, released' \in Nat
  PROVE  Inv'
<1>1. NoPending \in Pending
  BY NoPendingType
<1>2. m' \in Machine
  BY DEF GoodMachine
<1>3. TypeOK'
  BY <1>1, <1>2 DEF TypeOK, Inv
<1> QED BY <1>3 DEF Inv

LEMMA InitInv == Init => Inv
<1>1. NoPending \in Pending
  BY NoPendingType
<1> QED BY <1>1, NewMachineGood DEF Init, Inv, TypeOK, GoodMachine, Times

LEMMA NextInv == Inv /\ [Next]_vars => Inv'
<1> SUFFICES ASSUME Inv, [Next]_vars PROVE Inv'
  OBVIOUS
<1> USE StallAssumption
<1>1. /\ GoodMachine(m)
      /\ GoodMachine(Drained)
      /\ QuietAfterDrain \in Nat
      /\ clock \in Int
      /\ lastEmitted \in Nat
      /\ stall \in Nat
      /\ quiet \in Nat
      /\ released \in Nat
      /\ pending \in Pending
  BY DrainedGood DEF Inv, TypeOK, Times
<1>2. GoodMachine(Tick(Drained, clock))
  BY <1>1, TickGood
<1>3. CASE PulseIsr
  <2>1. pending' \in Pending
    <3>1. CASE pending.count = MaxPending
      BY <1>1, <1>3, <3>1 DEF PulseIsr, Pending, Times
    <3>2. CASE pending.count # MaxPending
      <4> DEFINE n == pending.count + 1
                 stamp == IF pending.count = 0 THEN clock ELSE pending.first
      <4>1. n \in 0..MaxPending /\ stamp \in Int
        BY <1>1, <3>2, PendingAssumption DEF Pending, Times
      <4> HIDE DEF n, stamp
      <4>2. pending' = [pending EXCEPT !.count = n, !.first = stamp, !.last = clock]
        BY <1>3, <3>2 DEF PulseIsr, n, stamp
      <4> QED BY <1>1, <4>1, <4>2 DEF Pending, Times
    <3> QED BY <3>1, <3>2
  <2> QED BY <1>3, <2>1 DEF PulseIsr, Inv, TypeOK
<1>4. CASE ClockTick
  <2>1. clock' \in Int
    <3>1. clock + 1 \in Int
      BY <1>1
    <3> QED BY <1>4, <3>1, WrapType DEF ClockTick
  <2>2. stall' \in Nat /\ quiet' \in Nat
    BY <1>1, <1>4 DEF ClockTick
  <2> QED BY <1>4, <2>1, <2>2 DEF ClockTick, Inv, TypeOK, Times
<1>5. CASE TickLinearized
  <2> DEFINE t == Tick(Drained, clock)
             asked == Len(t.results) > Len(Drained.results)
  <2>1. asked \in BOOLEAN
    OBVIOUS
  <2>2. lastEmitted' \in Nat
    <3> HIDE DEF asked
    <3>1. EmitAfter(t, asked)
      BY <1>5 DEF TickLinearized, asked
    <3> QED BY <1>2, <2>1, <3>1, EmitAfterType
  <2> QED BY <1>1, <1>2, <1>5, <2>2, CommandKeepsInv DEF TickLinearized
<1>6. CASE DrainPulses
  <2>1. m' = Drained /\ EmitAfter(m', FALSE)
    BY <1>6 DEF DrainPulses
  <2>2. lastEmitted' \in Nat
    BY <1>1, <2>1, EmitAfterType
  <2> QED BY <1>1, <1>6, <2>2, CommandKeepsInv DEF DrainPulses
<1>7. ASSUME NEW seq \in 1..MaxSeq, NEW sid \in Sids, NEW ttl \in Ttls,
             HandleArm(seq, sid, ttl)
      PROVE  Inv'
  <2>1. GoodMachine(m')
    BY <1>1, <1>2, <1>7, ArmGood DEF HandleArm
  <2>2. lastEmitted' \in Nat
    BY <1>7, <2>1, EmitAfterType DEF HandleArm
  <2> QED BY <1>1, <1>7, <2>1, <2>2, CommandKeepsInv DEF HandleArm
<1>8. ASSUME NEW seq \in 1..MaxSeq, NEW sid \in Sids, HandleCancel(seq, sid)
      PROVE  Inv'
  <2>1. GoodMachine(m')
    BY <1>1, <1>2, <1>8, CancelGood DEF HandleCancel
  <2> DEFINE asked == CancelReply(Tick(Drained, clock), seq, sid) \in {"ok", "already"}
  <2>2. lastEmitted' \in Nat
    <3>1. asked \in BOOLEAN
      OBVIOUS
    <3> HIDE DEF asked
    <3>2. EmitAfter(m', asked)
      BY <1>8 DEF HandleCancel, asked
    <3> QED BY <2>1, <3>1, <3>2, EmitAfterType
  <2> QED BY <1>1, <1>8, <2>1, <2>2, CommandKeepsInv DEF HandleCancel
<1>9. ASSUME NEW seq \in 1..MaxSeq, HandleAck(seq)
      PROVE  Inv'
  <2>1. GoodMachine(m')
    BY <1>1, <1>9, AcknowledgeGood DEF HandleAck
  <2>2. lastEmitted' \in Nat
    BY <1>9, <2>1, EmitAfterType DEF HandleAck
  <2>3. released' \in Nat
    <3> DEFINE i == CHOOSE k \in 1..Len(m.results) : m.results[k].seq = seq
    <3>1. i \in 1..Len(m.results)
      BY <1>9 DEF HandleAck
    <3>2. released' = released + m.results[i].pulses
      BY <1>9 DEF HandleAck
    <3> HIDE DEF i
    <3>3. m.results[i] \in Result
      BY <1>1, <3>1, GoodFields
    <3> QED BY <1>1, <3>2, <3>3 DEF Result
  <2> QED BY <1>1, <1>9, <2>1, <2>2, <2>3, CommandKeepsInv DEF HandleAck
<1>10. CASE HandleResults
  <2>1. GoodMachine(m')
    BY <1>1, <1>10 DEF HandleResults
  <2>2. lastEmitted' \in Nat
    <3>1. CASE Len(Drained.results) > 0
      <4>1. Drained.results[Len(Drained.results)] \in Result
        BY <1>1, <3>1, GoodFields
      <4> QED BY <1>10, <3>1, <4>1 DEF HandleResults, Result
    <3>2. CASE ~(Len(Drained.results) > 0)
      BY <1>1, <1>10, <3>2 DEF HandleResults
    <3> QED BY <3>1, <3>2
  <2> QED BY <1>1, <1>10, <2>1, <2>2, CommandKeepsInv DEF HandleResults
<1>11. CASE Reset
  <2>1. NoPending \in Pending
    BY NoPendingType
  <2> QED BY <1>11, <2>1, NewMachineGood DEF Reset, Inv, TypeOK, GoodMachine, Times
<1>12. CASE UNCHANGED vars
  BY <1>12 DEF vars, Inv, TypeOK, GoodMachine
<1> QED
  BY <1>3, <1>4, <1>5, <1>6, <1>7, <1>8, <1>9, <1>10, <1>11, <1>12 DEF Next, Command

-------------------------------------------------------------------------------
(***************************************************************************)
(* The batch and the tick that precede a command.                          *)
(***************************************************************************)
Emptied(mm) == mm.active.present /\ mm.active.pulses = 0

LEMMA DrainedExtends ==
  ASSUME Inv, Solvent(m)
  PROVE  Extends(m, Drained) /\ (Emptied(Drained) => Drained = m)
<1>. DEFINE batch == AddBatch(m, pending.count, pending.first, pending.last)
<1>1. /\ GoodMachine(m) /\ m.active.pulses <= MaxResultPulses
      /\ pending.count \in Nat /\ pending.count <= MaxResultPulses
      /\ pending.first \in Int /\ pending.last \in Int
  BY PendingAssumption DEF Inv, TypeOK, Pending, Times, Solvent
<1>2. CASE pending.count = 0
  BY <1>1, <1>2, ExtendsRefl DEF Drained
<1>3. CASE pending.count # 0
  <2>1. /\ Extends(m, batch) /\ Solvent(batch)
        /\ (Emptied(batch) => batch = m /\ m.lifetime = MaxLifetime)
    BY <1>1, <1>3, AddBatchExtends, SolventExtends DEF Emptied
  <2>. HIDE DEF batch
  <2>2. CASE ~pending.saturated
    BY <1>3, <2>1, <2>2 DEF Drained, batch
  <2>3. CASE pending.saturated
    <3>1. Emptied(batch) => batch.lifetime = MaxLifetime
      BY <2>1
    <3>2. Extends(batch, MarkSaturated(batch))
      BY <2>1, <3>1, FinalizeExtends DEF Emptied, MarkSaturated, TerminalStates
    <3>3. Extends(m, MarkSaturated(batch))
      BY <2>1, <3>2, SolventGrows
    <3>4. (~Full(batch) /\ batch \in Machine) \/ ~batch.active.present
      BY <2>1, GoodFields DEF Solvent, Full
    <3>5. ~MarkSaturated(batch).active.present
      BY <3>4 DEF MarkSaturated, Finalize, Machine, NoActive
    <3>. QED  BY <1>3, <2>3, <3>3, <3>5 DEF Drained, batch, Emptied
  <2>. QED  BY <2>2, <2>3
<1>. QED  BY <1>2, <1>3

LEMMA TickedExtends ==
  ASSUME Inv, Solvent(m)
  PROVE  LET t == Tick(Drained, clock)
         IN  Extends(m, t) /\ Solvent(t) /\ (Emptied(t) => t = m)
<1>. DEFINE d == Drained
            s == Settle(d, clock)
            t == Tick(d, clock)
<1>1. Extends(m, d) /\ (Emptied(d) => d = m) /\ clock \in Int
  BY DrainedExtends DEF Inv, TypeOK, Times
<1>2. Solvent(d)
  BY <1>1, SolventExtends
<1>. HIDE DEF d
<1>3. Extends(d, t)
  BY <1>1, <1>2, TickExtends
<1>4. Extends(m, t) /\ Solvent(t)
  <2>. HIDE DEF t
  <2>1. Extends(m, t)
    BY <1>1, <1>3, SolventGrows
  <2>. QED  BY <2>1, SolventExtends
<1>5. ASSUME Emptied(t) PROVE t = m
  <2>1. /\ GoodMachine(d) /\ d \in Machine /\ (d.active.present => ~Full(d))
        /\ Extends(d, s) /\ s.active.pulses = d.active.pulses
        /\ s.active.present = d.active.present
    BY <1>1, <1>2, GoodFields, SettleExtends DEF Solvent, Full
  <2>2. GoodMachine(s) /\ s \in Machine /\ (s.active.present => ~Full(s))
    <3>1. GoodMachine(s)
      BY <2>1 DEF Extends
    <3>. QED  BY <3>1, GoodFields DEF Full
  <2>3. \A x \in Machine : x.active.present /\ ~Full(x) =>
          /\ ~Finalize(x, "timed_out").active.present
          /\ ~Finalize(x, "complete").active.present
    BY DEF Finalize, Machine, NoActive
  <2>4. t = IF d.active.present /\ d.active.state = "armed" /\ Due(clock, d.active.timer)
            THEN Finalize(d, "timed_out")
            ELSE IF s.active.present /\ s.active.state = "settling" /\ Due(clock, s.active.timer)
                 THEN Finalize(s, "complete") ELSE s
    BY DEF Tick
  <2>. HIDE DEF t, s
  <2>5. t = s
    <3>1. CASE d.active.present /\ d.active.state = "armed" /\ Due(clock, d.active.timer)
      BY <1>5, <2>1, <2>3, <2>4, <3>1 DEF Emptied
    <3>2. CASE ~(d.active.present /\ d.active.state = "armed" /\ Due(clock, d.active.timer))
               /\ s.active.present /\ s.active.state = "settling" /\ Due(clock, s.active.timer)
      BY <1>5, <2>2, <2>3, <2>4, <3>2 DEF Emptied
    <3>. QED  BY <2>4, <3>1, <3>2
  <2>6. Emptied(d)
    BY <1>5, <2>1, <2>5 DEF Emptied
  <2>7. d.active.state = "armed"
    BY <2>1, <2>6, GoodFields DEF Emptied
  <2>8. s = d
    BY <2>7 DEF Settle, s
  <2>. QED  BY <1>1, <2>5, <2>6, <2>8
<1>. QED  BY <1>4, <1>5 DEF d

-------------------------------------------------------------------------------
(***************************************************************************)
(* Where the pulses are.                                                   *)
(***************************************************************************)

(* PulsesConserved, of any machine and any number of released pulses. *)
Balanced(mm, out) ==
  /\ out + Held(mm) <= mm.lifetime
  /\ mm.lifetime < MaxLifetime /\ mm.lifetime <= MaxResultPulses =>
       out + Held(mm) = mm.lifetime

(* The inductive invariant of the theorem: Pays needs Solvent(m). *)
Audited == Inv /\ Solvent(m) /\ Balanced(m, released)

LEMMA BalanceGrows ==
  ASSUME NEW m1, Solvent(m1), NEW out \in Nat, Balanced(m1, out), NEW m2, Extends(m1, m2)
  PROVE  Balanced(m2, out)
<1>1. /\ Held(m1) \in Nat /\ Held(m2) \in Nat /\ m1.lifetime \in Nat
      /\ m2.lifetime \in 0..MaxLifetime
  BY HeldIsNat DEF Solvent, Extends
<1>2. /\ 0 <= Held(m2) - Held(m1) /\ Held(m2) - Held(m1) <= m2.lifetime - m1.lifetime
      /\ \/ Held(m2) - Held(m1) = m2.lifetime - m1.lifetime
         \/ m2.lifetime = MaxLifetime
         \/ m2.lifetime > MaxResultPulses
  BY DEF Extends, Pays
<1>3. /\ out + Held(m1) <= m1.lifetime
      /\ m1.lifetime < MaxLifetime /\ m1.lifetime <= MaxResultPulses =>
           out + Held(m1) = m1.lifetime
  BY DEF Balanced
<1>. DEFINE a == Held(m1)
            b == Held(m2)
            p == m1.lifetime
            q == m2.lifetime
<1>. HIDE DEF a, b, p, q
<1>4. /\ out + b <= q
      /\ q < MaxLifetime /\ q <= MaxResultPulses => out + b = q
  BY <1>1, <1>2, <1>3 DEF a, b, p, q
<1>. QED  BY <1>4 DEF Balanced, b, q

(* The same pulses in the same places. *)
LEMMA BalanceStays ==
  ASSUME NEW m1, Solvent(m1), NEW out \in Nat, Balanced(m1, out), NEW m2, GoodMachine(m2),
         m2.results = m1.results, m2.active.pulses = m1.active.pulses,
         m2.recovery = m1.recovery, m2.lifetime = m1.lifetime
  PROVE  Solvent(m2) /\ Balanced(m2, out)
<1>1. Held(m2) = Held(m1)
  BY DEF Held
<1>. QED  BY <1>1 DEF Solvent, Balanced

LEMMA ArmBalanced ==
  ASSUME NEW mm, Solvent(mm), NEW out \in Nat, Balanced(mm, out),
         NEW seq \in Nat, NEW sid \in Sids, NEW now \in Int, NEW ttl \in Nat
  PROVE  LET a == Arm(mm, seq, sid, now, ttl)
         IN  Solvent(a) /\ Balanced(a, out)
<1>. DEFINE a == Arm(mm, seq, sid, now, ttl)
<1>1. GoodMachine(mm) /\ mm \in Machine /\ GoodMachine(a)
  BY GoodFields, ArmGood DEF Solvent
<1>2. CASE ArmReply(mm, seq, sid) # "ok"
  BY <1>2 DEF Arm
<1>3. CASE ArmReply(mm, seq, sid) = "ok"
  <2>1. ~mm.active.present
    BY <1>3 DEF ArmReply
  <2>2. mm.active.pulses = 0
    BY <1>1, <2>1, GoodFields
  <2>3. /\ a.results = mm.results /\ a.active.pulses = 0
        /\ a.recovery = mm.recovery /\ a.lifetime = mm.lifetime
    BY <1>1, <1>3 DEF Arm, Machine
  <2>. QED  BY <1>1, <2>2, <2>3, BalanceStays
<1>. QED  BY <1>2, <1>3

LEMMA CancelBalanced ==
  ASSUME NEW mm, Solvent(mm), NEW out \in Nat, Balanced(mm, out),
         NEW seq \in Nat, NEW sid \in Sids
  PROVE  LET c == Cancel(mm, seq, sid)
         IN  Solvent(c) /\ Balanced(c, out)
<1>. DEFINE c == Cancel(mm, seq, sid)
<1>1. GoodMachine(mm) /\ mm \in Machine /\ GoodMachine(c)
  BY GoodFields, CancelGood DEF Solvent
<1>2. CASE CancelReply(mm, seq, sid) # "ok"
  BY <1>2 DEF Cancel
<1>3. CASE CancelReply(mm, seq, sid) = "ok" /\ mm.active.pulses = 0
  <2>1. /\ c.results = mm.results /\ c.active.pulses = 0
        /\ c.recovery = mm.recovery /\ c.lifetime = mm.lifetime
    BY <1>1, <1>3 DEF Cancel, Machine, NoActive
  <2>. QED  BY <1>1, <1>3, <2>1, BalanceStays
<1>4. CASE CancelReply(mm, seq, sid) = "ok" /\ mm.active.pulses # 0
  <2>1. Extends(mm, Finalize(mm, "interrupted"))
    BY <1>4, FinalizeExtends DEF TerminalStates
  <2>2. c = Finalize(mm, "interrupted")
    BY <1>4 DEF Cancel
  <2>. HIDE DEF c
  <2>. QED  BY <2>1, <2>2, BalanceGrows, SolventExtends DEF c
<1>. QED  BY <1>2, <1>3, <1>4

(* A sequence names one result. *)
LEMMA OneResult ==
  ASSUME NEW mm, GoodMachine(mm), NEW i \in 1..Len(mm.results), NEW j \in 1..Len(mm.results),
         mm.results[i].seq = mm.results[j].seq
  PROVE  i = j
<1>1. \A k, l \in 1..Len(mm.results) : k < l => mm.results[k].seq < mm.results[l].seq
  BY DEF GoodMachine, SequencesOrdered
<1>2. mm.results[i].seq \in Nat /\ mm.results[j].seq \in Nat
  <2>1. mm.results[i] \in Result /\ mm.results[j] \in Result
    BY GoodFields
  <2>. QED  BY <2>1 DEF Result
<1>3. ~(i < j) /\ ~(j < i)
  BY <1>1, <1>2
<1>. QED  BY <1>3

LEMMA AcknowledgeRemoves ==
  ASSUME NEW mm, GoodMachine(mm), NEW i \in 1..Len(mm.results)
  PROVE  LET a == Acknowledge(mm, mm.results[i].seq)
         IN  /\ a.results = Without(mm.results, i) /\ a.next = mm.next
             /\ a.active = mm.active /\ a.recovery = mm.recovery /\ a.lifetime = mm.lifetime
<1>. DEFINE seq == mm.results[i].seq
            First(k) == /\ mm.results[k].seq = seq
                        /\ \A j \in 1..(k - 1) : mm.results[j].seq # seq
            c == CHOOSE k \in 1..Len(mm.results) : First(k)
<1>1. mm \in Machine /\ Len(mm.results) \in Nat
  BY GoodFields
<1>2. \A k \in 1..Len(mm.results) : mm.results[k].seq = seq => k = i
  BY OneResult
<1>3. First(i)
  BY <1>1, <1>2
<1>4. c = i
  <2>1. c \in 1..Len(mm.results) /\ First(c)
    <3>. HIDE DEF First
    <3>. QED  BY <1>3
  <2>. QED  BY <1>2, <2>1
<1>5. Acknowledge(mm, seq) =
        [mm EXCEPT !.results = Without(mm.results, c),
                   !.state = IF ~mm.active.present /\ mm.state \in TerminalStates
                             THEN "idle" ELSE mm.state]
  <2>1. ~(\A k \in 1..Len(mm.results) : mm.results[k].seq # seq)
    OBVIOUS
  <2>. QED  BY <2>1, Zenon DEF Acknowledge
<1>. HIDE DEF c
<1>. QED  BY <1>1, <1>4, <1>5 DEF Machine

LEMMA Taken ==
  ASSUME NEW W \in Int, NEW p \in Nat, NEW b \in Int, NEW c \in Int, NEW out \in Int
  PROVE  /\ (out + p) + (W + b + c) = out + ((W + p) + b + c)
         /\ W + b + c <= (W + p) + b + c
OBVIOUS

LEMMA AcknowledgeBalanced ==
  ASSUME NEW mm, Solvent(mm), NEW out \in Nat, Balanced(mm, out),
         NEW i \in 1..Len(mm.results)
  PROVE  LET a == Acknowledge(mm, mm.results[i].seq)
         IN  Solvent(a) /\ Balanced(a, out + mm.results[i].pulses)
<1>. DEFINE a == Acknowledge(mm, mm.results[i].seq)
            r == mm.results[i]
<1>1. /\ GoodMachine(mm) /\ mm.results \in Seq(Result) /\ mm.active.pulses \in Nat
      /\ mm.recovery \in Nat /\ mm.lifetime \in Nat /\ Len(mm.results) \in Nat
      /\ Held(mm) \in Nat /\ mm.active.pulses <= MaxResultPulses /\ Held(mm) <= mm.lifetime
      /\ TotalPulses(mm.results, Len(mm.results)) \in Nat
  BY GoodFields, HeldIsNat DEF Solvent
<1>2. r.pulses \in Nat /\ r.seq \in Nat
  <2>1. r \in Result
    BY <1>1
  <2>. QED  BY <2>1 DEF Result
<1>3. GoodMachine(a)
  BY <1>1, <1>2, AcknowledgeGood
<1>4. /\ a.results = Without(mm.results, i) /\ a.active = mm.active
      /\ a.recovery = mm.recovery /\ a.lifetime = mm.lifetime
  BY <1>1, AcknowledgeRemoves
<1>5. Len(Without(mm.results, i)) = Len(mm.results) - 1
  BY <1>1, WithoutResult
<1>6. TotalPulses(Without(mm.results, i), Len(mm.results) - 1) + r.pulses
        = TotalPulses(mm.results, Len(mm.results))
  BY <1>1, TotalWithout
<1>. DEFINE T == TotalPulses(mm.results, Len(mm.results))
            W == TotalPulses(Without(mm.results, i), Len(mm.results) - 1)
<1>7. /\ Held(mm) = T + mm.active.pulses + mm.recovery
      /\ Held(a) = W + mm.active.pulses + mm.recovery
  BY <1>4, <1>5, Zenon DEF Held
<1>8. Held(a) \in Nat /\ W \in Nat
  <2>1. TotalPulses(a.results, Len(a.results)) \in Nat /\ Held(a) \in Nat
    BY <1>3, HeldIsNat
  <2>. QED  BY <1>4, <1>5, <2>1
<1>. HIDE DEF T, W, a, r
<1>9. T \in Nat /\ W + r.pulses = T
  BY <1>1, <1>6 DEF T, W
<1>10. out + r.pulses + Held(a) = out + Held(mm) /\ Held(a) <= mm.lifetime
  <2>1. Held(mm) = (W + r.pulses) + mm.active.pulses + mm.recovery
    BY <1>7, <1>9, Zenon
  <2>2. W \in Int /\ mm.active.pulses \in Int /\ mm.recovery \in Int /\ out \in Int
    BY <1>1, <1>8
  <2>3. out + r.pulses + Held(a) = out + Held(mm) /\ Held(a) <= Held(mm)
    BY SMTT(40), <1>2, <1>7, <2>1, <2>2, Taken
  <2>4. Held(a) \in Int /\ Held(mm) \in Int /\ mm.lifetime \in Int
    BY <1>1, <1>8
  <2>. QED  BY <1>1, <2>3, <2>4
<1>. QED  BY <1>1, <1>3, <1>4, <1>10 DEF Solvent, Balanced, a, r

LEMMA NewMachineHolds == Held(NewMachine) = 0
<1>1. TotalPulses(NewMachine.results, 0) = 0
  BY TotalStep
<1>2. Len(NewMachine.results) = 0 /\ NewMachine.active.pulses = 0 /\ NewMachine.recovery = 0
  BY DEF NewMachine, NoActive
<1>. QED  BY <1>1, <1>2 DEF Held

LEMMA InitAudited == Init => Audited
<1>. SUFFICES ASSUME Init PROVE Audited
  OBVIOUS
<1>1. Inv /\ GoodMachine(NewMachine) /\ m = NewMachine /\ released = 0
  BY InitInv, NewMachineGood DEF Init
<1>2. Held(NewMachine) = 0
  BY NewMachineHolds
<1>. QED  BY <1>1, <1>2 DEF Audited, Solvent, Balanced, NewMachine, NoActive

LEMMA NextAudited == Audited /\ [Next]_vars => Audited'
<1>. SUFFICES ASSUME Audited, [Next]_vars PROVE Audited'
  OBVIOUS
<1>. USE StallAssumption
<1>. DEFINE t == Tick(Drained, clock)
<1>1. /\ Inv' /\ Solvent(m) /\ Balanced(m, released) /\ released \in Nat /\ clock \in Int
      /\ GoodMachine(m) /\ Inv
  BY NextInv DEF Audited, Solvent, Inv, TypeOK, Times
<1>2. /\ Extends(m, Drained) /\ Solvent(Drained) /\ Balanced(Drained, released)
  BY <1>1, DrainedExtends, SolventExtends, BalanceGrows
<1>3. Solvent(t) /\ Balanced(t, released)
  <2>. HIDE DEF t
  <2>1. Extends(m, t) /\ Solvent(t)
    BY <1>1, TickedExtends DEF t
  <2>. QED  BY <1>1, <2>1, BalanceGrows
<1>. SUFFICES Solvent(m') /\ Balanced(m', released')
  BY <1>1 DEF Audited, Solvent, Balanced, Held
<1>4. CASE UNCHANGED <<m, released>>
  BY <1>1, <1>4
<1>5. CASE PulseIsr \/ ClockTick \/ UNCHANGED vars
  BY <1>4, <1>5 DEF PulseIsr, ClockTick, vars
<1>6. CASE TickLinearized
  BY <1>3, <1>6 DEF TickLinearized
<1>7. CASE DrainPulses \/ HandleResults
  BY <1>2, <1>7 DEF DrainPulses, HandleResults
<1>8. ASSUME NEW seq \in 1..MaxSeq, NEW sid \in Sids, NEW ttl \in Ttls,
             HandleArm(seq, sid, ttl)
      PROVE  Solvent(m') /\ Balanced(m', released')
  <2>1. m' = Arm(t, seq, sid, clock, ttl) /\ released' = released
    BY <1>8 DEF HandleArm
  <2>2. ttl \in Nat /\ seq \in Nat
    BY <1>8
  <2>. HIDE DEF t
  <2>. QED  BY <1>1, <1>3, <2>1, <2>2, ArmBalanced
<1>9. ASSUME NEW seq \in 1..MaxSeq, NEW sid \in Sids, HandleCancel(seq, sid)
      PROVE  Solvent(m') /\ Balanced(m', released')
  <2>1. m' = Cancel(t, seq, sid) /\ released' = released /\ seq \in Nat
    BY <1>9 DEF HandleCancel
  <2>. HIDE DEF t
  <2>. QED  BY <1>1, <1>3, <2>1, CancelBalanced
<1>10. ASSUME NEW seq \in 1..MaxSeq, HandleAck(seq)
       PROVE  Solvent(m') /\ Balanced(m', released')
  <2>. DEFINE i == CHOOSE k \in 1..Len(m.results) : m.results[k].seq = seq
  <2>1. i \in 1..Len(m.results) /\ m.results[i].seq = seq
    BY <1>10 DEF HandleAck
  <2>2. m' = Acknowledge(Drained, seq) /\ released' = released + m.results[i].pulses
    BY <1>10 DEF HandleAck
  <2>. HIDE DEF i
  <2>3. i \in 1..Len(Drained.results) /\ Drained.results[i] = m.results[i]
    <3>1. Len(m.results) \in Nat /\ Len(Drained.results) \in Nat
      BY <1>1, <1>2, HeldIsNat DEF Solvent
    <3>2. Longer(m, Drained)
      BY <1>2 DEF Extends
    <3>. QED  BY <2>1, <3>1, <3>2 DEF Longer
  <2>. QED  BY <1>1, <1>2, <2>1, <2>2, <2>3, AcknowledgeBalanced
<1>11. CASE Reset
  <2>1. m' = NewMachine /\ released' = 0 /\ GoodMachine(NewMachine)
    BY <1>11, NewMachineGood DEF Reset
  <2>2. Held(NewMachine) = 0
    BY NewMachineHolds
  <2>. QED  BY <2>1, <2>2 DEF Solvent, Balanced, NewMachine, NoActive
<1>. QED
  BY <1>5, <1>6, <1>7, <1>8, <1>9, <1>10, <1>11 DEF Next, Command

-------------------------------------------------------------------------------
(***************************************************************************)
(* EventStore adds the pulses of a set of events, in any order.            *)
(***************************************************************************)
Some(s) == CHOOSE x \in s : TRUE

Adds(S, g) == g = [s \in SUBSET S |-> IF s = {} THEN 0 ELSE Some(s).pulses + g[s \ {Some(s)}]]

LEMMA SomeIsIn == ASSUME NEW s, s # {} PROVE Some(s) \in s
BY DEF Some

LEMMA OneLess ==
  ASSUME NEW s, IsFiniteSet(s), NEW x \in s, NEW n \in Nat, Cardinality(s) = n + 1
  PROVE  IsFiniteSet(s \ {x}) /\ Cardinality(s \ {x}) = n
<1>1. Cardinality(s \ {x}) = (n + 1) - 1 /\ IsFiniteSet(s \ {x})
  BY FS_RemoveElement
<1>. QED  BY <1>1

LEMMA AddsExists ==
  ASSUME NEW S, IsFiniteSet(S)
  PROVE  \E g : Adds(S, g)
<1>. DEFINE upto(n, g) ==
              \A s \in SUBSET S : Cardinality(s) <= n =>
                g[s] = IF s = {} THEN 0 ELSE Some(s).pulses + g[s \ {Some(s)}]
            N == {n \in Nat : \E g : upto(n, g)}
<1>1. \A s \in SUBSET S : IsFiniteSet(s) /\ Cardinality(s) \in Nat
  BY FS_Subset, FS_CardinalityType
<1>2. 0 \in N
  <2>1. \A s \in SUBSET S : Cardinality(s) <= 0 => s = {}
    BY <1>1, FS_EmptySet
  <2>2. upto(0, [s \in SUBSET S |-> 0])
    BY <2>1
  <2>. QED  BY <2>2
<1>3. ASSUME NEW n \in Nat, n \in N PROVE n + 1 \in N
  <2>1. PICK g : upto(n, g)
    BY <1>3
  <2>. DEFINE more == [s \in SUBSET S |-> IF s = {} THEN 0 ELSE Some(s).pulses + g[s \ {Some(s)}]]
  <2>2. \A s \in SUBSET S : Cardinality(s) <= n => more[s] = g[s]
    BY <2>1
  <2>3. ASSUME NEW s \in SUBSET S, Cardinality(s) <= n + 1
        PROVE  more[s] = IF s = {} THEN 0 ELSE Some(s).pulses + more[s \ {Some(s)}]
    <3>1. CASE s = {}
      BY <3>1
    <3>2. CASE s # {}
      <4>1. Some(s) \in s /\ s \ {Some(s)} \in SUBSET S
        BY <3>2, SomeIsIn
      <4>2. Cardinality(s \ {Some(s)}) = Cardinality(s) - 1
        BY <1>1, <4>1, FS_RemoveElement
      <4>3. Cardinality(s \ {Some(s)}) <= n
        BY <1>1, <2>3, <4>2
      <4>4. more[s \ {Some(s)}] = g[s \ {Some(s)}]
        BY <2>2, <4>1, <4>3
      <4>. QED  BY <3>2, <4>4
    <3>. QED  BY <3>1, <3>2
  <2>4. upto(n + 1, more)
    <3>. HIDE DEF more
    <3>. QED  BY <2>3
  <2>. HIDE DEF upto, more
  <2>. QED  BY <2>4
<1>4. Nat \subseteq N
  <2>. HIDE DEF N
  <2>. QED  BY <1>2, <1>3, Induct
<1>5. S \in SUBSET S /\ Cardinality(S) \in N
  BY <1>1, <1>4
<1>6. PICK g : upto(Cardinality(S), g)
  BY <1>5
<1>7. \A s \in SUBSET S : Cardinality(s) <= Cardinality(S)
  BY FS_Subset
<1>. DEFINE f == [s \in SUBSET S |-> IF s = {} THEN 0 ELSE Some(s).pulses + g[s \ {Some(s)}]]
<1>8. \A s \in SUBSET S : f[s] = g[s]
  BY <1>6, <1>7
<1>9. \A s \in SUBSET S : s \ {Some(s)} \in SUBSET S
  OBVIOUS
<1>10. f = [s \in SUBSET S |-> IF s = {} THEN 0 ELSE Some(s).pulses + f[s \ {Some(s)}]]
  BY <1>8, <1>9
<1>. QED  BY <1>10 DEF Adds

(* Any element may be added first. *)
LEMMA AddsAny ==
  ASSUME NEW S, IsFiniteSet(S), \A e \in S : e.pulses \in Nat, NEW g, Adds(S, g),
         NEW s \in SUBSET S
  PROVE  g[s] \in Nat /\ \A e \in s : g[s] = e.pulses + g[s \ {e}]
<1>. DEFINE good(t) == g[t] \in Nat /\ \A e \in t : g[t] = e.pulses + g[t \ {e}]
            N == {n \in Nat : \A t \in SUBSET S : Cardinality(t) <= n => good(t)}
<1>1. \A t \in SUBSET S : IsFiniteSet(t) /\ Cardinality(t) \in Nat
  BY FS_Subset, FS_CardinalityType
<1>2. \A t \in SUBSET S : g[t] = IF t = {} THEN 0 ELSE Some(t).pulses + g[t \ {Some(t)}]
  BY DEF Adds
<1>3. 0 \in N
  <2>1. \A t \in SUBSET S : Cardinality(t) <= 0 => t = {}
    BY <1>1, FS_EmptySet
  <2>2. good({})
    <3>1. {} \in SUBSET S
      OBVIOUS
    <3>2. g[{}] = 0
      BY <1>2, <3>1
    <3>. QED  BY <3>2
  <2>. HIDE DEF good
  <2>. QED  BY <2>1, <2>2
<1>4. ASSUME NEW n \in Nat, n \in N PROVE n + 1 \in N
  <2>0. \A t \in SUBSET S : Cardinality(t) <= n => good(t)
    BY <1>4
  <2>. HIDE DEF good
  <2>. SUFFICES ASSUME NEW t \in SUBSET S, Cardinality(t) = n + 1 PROVE good(t)
    BY <1>1, <2>0
  <2>. USE DEF good
  <2>1. \A x \in t : /\ t \ {x} \in SUBSET S /\ good(t \ {x})
                    /\ \A y \in t \ {x} : g[(t \ {x}) \ {y}] \in Nat
    <3>. HIDE DEF good
    <3>. SUFFICES ASSUME NEW x \in t
                  PROVE  /\ t \ {x} \in SUBSET S /\ good(t \ {x})
                         /\ \A y \in t \ {x} : g[(t \ {x}) \ {y}] \in Nat
      OBVIOUS
    <3>1. t \ {x} \in SUBSET S /\ Cardinality(t \ {x}) <= n
      <4>1. Cardinality(t \ {x}) = n
        BY <1>1, OneLess
      <4>. QED  BY <4>1
    <3>2. ASSUME NEW y \in t \ {x}
          PROVE  (t \ {x}) \ {y} \in SUBSET S /\ Cardinality((t \ {x}) \ {y}) <= n
      <4>1. Cardinality((t \ {x}) \ {y}) <= Cardinality(t \ {x})
        BY <1>1, <3>1, FS_Subset
      <4>2. Cardinality((t \ {x}) \ {y}) \in Nat /\ Cardinality(t \ {x}) \in Nat
        BY <1>1, <3>1
      <4>. QED  BY <3>1, <4>1, <4>2
    <3>. QED  BY <2>0, <3>1, <3>2 DEF good
  <2>2. t # {}
    <3>1. n + 1 # 0
      OBVIOUS
    <3>. QED  BY <3>1, FS_EmptySet
  <2>. DEFINE x == Some(t)
  <2>3. x \in t /\ x.pulses \in Nat /\ g[t] = x.pulses + g[t \ {x}]
    BY <1>2, <2>2, SomeIsIn
  <2>. HIDE DEF x
  <2>4. g[t \ {x}] \in Nat
    BY <2>1, <2>3
  <2>5. ASSUME NEW e \in t PROVE g[t] = e.pulses + g[t \ {e}]
    <3>1. CASE e = x
      BY <2>3, <3>1
    <3>2. CASE e # x
      <4>1. e \in t \ {x} /\ x \in t \ {e} /\ (t \ {x}) \ {e} = (t \ {e}) \ {x}
        BY <2>3, <3>2
      <4>2. g[t \ {x}] = e.pulses + g[(t \ {x}) \ {e}]
        BY <2>1, <2>3, <4>1
      <4>3. g[t \ {e}] = x.pulses + g[(t \ {e}) \ {x}]
        BY <2>1, <4>1
      <4>4. e.pulses \in Nat
        OBVIOUS
      <4>5. g[(t \ {e}) \ {x}] \in Nat
        BY <2>1, <4>1
      <4>. DEFINE p == g[t \ {x}]
                  q == g[t \ {e}]
                  w == g[(t \ {e}) \ {x}]
      <4>6. p = e.pulses + w /\ q = x.pulses + w /\ g[t] = x.pulses + p
        BY <2>3, <4>1, <4>2, <4>3, Zenon
      <4>7. w \in Nat
        BY <4>5
      <4>. HIDE DEF p, q, w
      <4>8. x.pulses + p = e.pulses + q
        BY <2>3, <4>4, <4>6, <4>7
      <4>. QED  BY <4>6, <4>8 DEF q
    <3>. QED  BY <3>1, <3>2
  <2>6. g[t] \in Nat
    <3>. DEFINE p == g[t \ {x}]
    <3>1. p \in Nat /\ x.pulses \in Nat /\ g[t] = x.pulses + p
      BY <2>3, <2>4
    <3>. HIDE DEF p
    <3>2. x.pulses + p \in Nat
      BY <3>1
    <3>. QED  BY <3>1, <3>2, Zenon
  <2>. QED  BY <2>5, <2>6
<1>5. Nat \subseteq N
  <2>. HIDE DEF N
  <2>. QED  BY <1>3, <1>4, Induct
<1>6. Cardinality(s) \in N
  BY <1>1, <1>5
<1>. QED  BY <1>6

(* Two additions agree on what both add. *)
LEMMA AddsAgree ==
  ASSUME NEW S, IsFiniteSet(S), NEW T, IsFiniteSet(T), NEW g, Adds(S, g), NEW h, Adds(T, h),
         NEW s \in SUBSET (S \cap T)
  PROVE  g[s] = h[s]
<1>. DEFINE N == {n \in Nat : \A t \in SUBSET (S \cap T) : Cardinality(t) = n => g[t] = h[t]}
<1>1. \A t \in SUBSET (S \cap T) : IsFiniteSet(t) /\ Cardinality(t) \in Nat
  <2>1. \A t \in SUBSET (S \cap T) : IsFiniteSet(t)
    BY FS_Subset
  <2>. QED  BY <2>1, FS_CardinalityType
<1>2. \A t \in SUBSET (S \cap T) :
        /\ g[t] = IF t = {} THEN 0 ELSE Some(t).pulses + g[t \ {Some(t)}]
        /\ h[t] = IF t = {} THEN 0 ELSE Some(t).pulses + h[t \ {Some(t)}]
  BY DEF Adds
<1>3. 0 \in N
  <2>1. \A t \in SUBSET (S \cap T) : Cardinality(t) = 0 => t = {}
    BY <1>1, FS_EmptySet
  <2>. QED  BY <1>2, <2>1
<1>4. ASSUME NEW n \in Nat, n \in N PROVE n + 1 \in N
  <2>. SUFFICES ASSUME NEW t \in SUBSET (S \cap T), Cardinality(t) = n + 1 PROVE g[t] = h[t]
    OBVIOUS
  <2>1. t # {}
    <3>1. n + 1 # 0
      OBVIOUS
    <3>. QED  BY <3>1, FS_EmptySet
  <2>2. Some(t) \in t
    BY <2>1, SomeIsIn
  <2>3. t \ {Some(t)} \in SUBSET (S \cap T) /\ Cardinality(t \ {Some(t)}) = n
    BY <1>1, <2>2, OneLess
  <2>4. g[t \ {Some(t)}] = h[t \ {Some(t)}]
    BY <1>4, <2>3
  <2>. QED  BY <1>2, <2>1, <2>4
<1>5. Nat \subseteq N
  <2>. HIDE DEF N
  <2>. QED  BY <1>3, <1>4, Induct
<1>6. Cardinality(s) \in N
  BY <1>1, <1>5
<1>. QED  BY <1>6

LEMMA PulsesAdds ==
  ASSUME NEW S, IsFiniteSet(S)
  PROVE  \E g : Adds(S, g) /\ Store!Pulses(S) = g[S]
<1>1. Store!Pulses(S) = (CHOOSE g : Adds(S, g))[S]
  BY DEF Store!Pulses, Store!MapThenSumSet, Store!MapThenFoldSet, Adds, Some
<1>2. Adds(S, CHOOSE g : Adds(S, g))
  BY AddsExists
<1>. QED  BY <1>1, <1>2

LEMMA PulsesOfNone == Store!Pulses({}) = 0
<1>1. PICK g : Adds({}, g) /\ Store!Pulses({}) = g[{}]
  BY PulsesAdds, FS_EmptySet
<1>2. g[{}] = 0
  BY <1>1 DEF Adds
<1>. QED  BY <1>1, <1>2

LEMMA PulsesOfOneMore ==
  ASSUME NEW S, IsFiniteSet(S), \A x \in S : x.pulses \in Nat,
         NEW e, e \notin S, e.pulses \in Nat
  PROVE  Store!Pulses(S \cup {e}) = Store!Pulses(S) + e.pulses /\ Store!Pulses(S) \in Nat
<1>. DEFINE T == S \cup {e}
<1>1. IsFiniteSet(T) /\ (\A x \in T : x.pulses \in Nat) /\ S = T \ {e} /\ e \in T
  BY FS_AddElement
<1>. HIDE DEF T
<1>2. PICK g : Adds(S, g) /\ Store!Pulses(S) = g[S]
  BY PulsesAdds
<1>3. PICK h : Adds(T, h) /\ Store!Pulses(T) = h[T]
  BY <1>1, PulsesAdds
<1>4. h[T] = e.pulses + h[S]
  <2>1. T \in SUBSET T
    OBVIOUS
  <2>. QED  BY <1>1, <1>3, <2>1, AddsAny
<1>5. g[S] = h[S]
  <2>1. S \in SUBSET (S \cap T)
    BY <1>1
  <2>. QED  BY <1>1, <1>2, <1>3, <2>1, AddsAgree
<1>6. g[S] \in Nat
  <2>1. S \in SUBSET S
    OBVIOUS
  <2>. QED  BY <1>2, <2>1, AddsAny
<1>. QED  BY <1>2, <1>3, <1>4, <1>5, <1>6 DEF T

-------------------------------------------------------------------------------
(***************************************************************************)
(* The events and results of a machine, seen as EventStore's sets.         *)
(***************************************************************************)
EventsIn(mm, S) == {EventOf(mm.results[i]) : i \in S}
RecordsOf(mm) == {Record(mm.results[i]) : i \in 1..Len(mm.results)}

LEMMA ResultFields ==
  ASSUME NEW mm, GoodMachine(mm), NEW i \in 1..Len(mm.results)
  PROVE  /\ mm.results[i] \in Result /\ mm.results[i].seq \in Nat
         /\ mm.results[i].pulses \in Nat /\ mm.results[i].status \in TerminalStates
         /\ EventOf(mm.results[i]).seq = mm.results[i].seq
         /\ EventOf(mm.results[i]).pulses = mm.results[i].pulses
<1>1. mm.results[i] \in Result
  BY GoodFields
<1>2. \A r : EventOf(r).seq = r.seq /\ EventOf(r).pulses = r.pulses
  BY DEF EventOf
<1>. QED  BY <1>1, <1>2 DEF Result

(* The new results are finitely many and their pulses are their total. *)
LEMMA EventsPulses ==
  ASSUME NEW mm, GoodMachine(mm), NEW a \in Nat, NEW b \in Nat, a <= b, b <= Len(mm.results)
  PROVE  /\ IsFiniteSet(EventsIn(mm, (a + 1)..b))
         /\ Store!Pulses(EventsIn(mm, (a + 1)..b))
              = TotalPulses(mm.results, b) - TotalPulses(mm.results, a)
<1>. DEFINE S(n) == EventsIn(mm, (a + 1)..(a + n))
            good(n) == /\ IsFiniteSet(S(n))
                       /\ Store!Pulses(S(n)) = TotalPulses(mm.results, a + n)
                                                 - TotalPulses(mm.results, a)
            N == {n \in Nat : a + n <= b => good(n)}
<1>1. Len(mm.results) \in Nat /\ mm.results \in Seq(Result)
  BY GoodFields
<1>2. \A n \in 0..Len(mm.results) : TotalPulses(mm.results, n) \in Nat
  BY <1>1, TotalIsNat
<1>3. 0 \in N
  <2>1. (a + 1)..(a + 0) = {} /\ a + 0 = a
    OBVIOUS
  <2>2. S(0) = {}
    BY <2>1 DEF EventsIn
  <2>3. TotalPulses(mm.results, a) \in Nat
    BY <1>1, <1>2
  <2>4. TotalPulses(mm.results, a + 0) - TotalPulses(mm.results, a) = 0
    BY <2>1, <2>3
  <2>5. good(0)
    <3>. HIDE DEF S
    <3>. QED  BY <2>2, <2>4, FS_EmptySet, PulsesOfNone
  <2>. HIDE DEF good
  <2>. QED  BY <2>5
<1>4. ASSUME NEW n \in Nat, n \in N PROVE n + 1 \in N
  <2>. SUFFICES ASSUME a + (n + 1) <= b PROVE good(n + 1)
    <3>. HIDE DEF good
    <3>. QED  OBVIOUS
  <2>. DEFINE k == a + n
              e == EventOf(mm.results[k + 1])
  <2>1. /\ k \in Nat /\ k + 1 <= b /\ a + (n + 1) = k + 1 /\ k <= b
        /\ k + 1 \in 1..Len(mm.results) /\ a <= k
    BY <1>1
  <2>2. good(n)
    <3>. HIDE DEF good
    <3>. QED  BY <1>4, <2>1
  <2>3. S(n + 1) = S(n) \cup {e}
    <3>1. (a + 1)..(k + 1) = ((a + 1)..k) \cup {k + 1}
      BY <2>1
    <3>. QED  BY <2>1, <3>1 DEF EventsIn
  <2>4. \A x \in S(n) : \E i \in (a + 1)..k : i \in 1..Len(mm.results) /\ i # k + 1
                                              /\ x = EventOf(mm.results[i])
    <3>1. \A i \in (a + 1)..k : i \in 1..Len(mm.results) /\ i # k + 1
      BY <1>1, <2>1
    <3>. QED  BY <3>1 DEF EventsIn
  <2>5. \A x \in S(n) : x.pulses \in Nat /\ x # e
    <3>. HIDE DEF S
    <3>. SUFFICES ASSUME NEW x \in S(n) PROVE x.pulses \in Nat /\ x # e
      OBVIOUS
    <3>1. PICK i \in (a + 1)..k : i \in 1..Len(mm.results) /\ i # k + 1
                                  /\ x = EventOf(mm.results[i])
      BY <2>4
    <3>2. EventOf(mm.results[i]).seq = mm.results[i].seq /\ x.pulses \in Nat
      BY <3>1, ResultFields
    <3>3. e.seq = mm.results[k + 1].seq
      BY <2>1, ResultFields
    <3>4. mm.results[i].seq # mm.results[k + 1].seq
      BY <2>1, <3>1, OneResult
    <3>. QED  BY <3>1, <3>2, <3>3, <3>4
  <2>6. e.pulses \in Nat /\ e.pulses = mm.results[k + 1].pulses
    BY <2>1, ResultFields
  <2>7. TotalPulses(mm.results, k + 1) = TotalPulses(mm.results, k) + mm.results[k + 1].pulses
    BY <2>1, TotalStep
  <2>8. /\ TotalPulses(mm.results, k) \in Nat /\ TotalPulses(mm.results, a) \in Nat
    BY <1>1, <1>2, <2>1
  <2>. HIDE DEF S, e, k
  <2>9. IsFiniteSet(S(n)) /\ e \notin S(n)
    BY <2>2, <2>5
  <2>10. /\ Store!Pulses(S(n) \cup {e}) = Store!Pulses(S(n)) + e.pulses
         /\ IsFiniteSet(S(n) \cup {e})
    BY <2>5, <2>6, <2>9, PulsesOfOneMore, FS_AddElement
  <2>11. Store!Pulses(S(n)) = TotalPulses(mm.results, k) - TotalPulses(mm.results, a)
    BY <2>2 DEF k
  <2>12. (TotalPulses(mm.results, k) - TotalPulses(mm.results, a)) + e.pulses
           = TotalPulses(mm.results, k + 1) - TotalPulses(mm.results, a)
    BY <2>6, <2>7, <2>8
  <2>. QED  BY <2>1, <2>3, <2>10, <2>11, <2>12
<1>5. Nat \subseteq N
  <2>. HIDE DEF N
  <2>. QED  BY <1>3, <1>4, Induct
<1>6. b - a \in Nat /\ a + (b - a) = b
  OBVIOUS
<1>7. good(b - a)
  <2>. HIDE DEF good
  <2>. QED  BY <1>5, <1>6
<1>. QED  BY <1>6, <1>7

LEMMA LeftSum ==
  ASSUME NEW S \in Int, NEW T \in Int, NEW p \in Int, NEW q \in Int, NEW v \in Int, NEW w \in Int
  PROVE  (((T - S) + q) - p + w) - v = (T + q + w) - (S + p + v)
OBVIOUS

LEMMA LeftPulses ==
  ASSUME NEW m1, GoodMachine(m1), NEW m2, GoodMachine(m2), Longer(m1, m2)
  PROVE  /\ IsFiniteSet(LeftOf(m1, m2)) /\ Store!Pulses(LeftOf(m1, m2)) \in Int
         /\ (Store!Pulses(LeftOf(m1, m2)) - m1.active.pulses + m2.recovery) - m1.recovery
              = Held(m2) - Held(m1)
<1>. DEFINE a == Len(m1.results)
            b == Len(m2.results)
            E == EventsIn(m2, (a + 1)..b)
            T1 == TotalPulses(m1.results, a)
            T2 == TotalPulses(m2.results, b)
<1>1. /\ a \in Nat /\ b \in Nat /\ T1 \in Nat /\ T2 \in Nat
      /\ m1.active.pulses \in Nat /\ m2.active.pulses \in Nat
      /\ m1.recovery \in Nat /\ m2.recovery \in Nat
  BY HeldIsNat
<1>2. a <= b /\ \A i \in 1..a : m2.results[i] = m1.results[i]
  BY DEF Longer
<1>3. TotalPulses(m2.results, a) = T1
  BY <1>1, <1>2, TotalReads
<1>4. IsFiniteSet(E) /\ Store!Pulses(E) = T2 - T1
  <2>1. b <= Len(m2.results)
    BY <1>1
  <2>. QED  BY <1>1, <1>2, <1>3, <2>1, EventsPulses
<1>5. /\ Held(m1) = T1 + m1.active.pulses + m1.recovery
      /\ Held(m2) = T2 + m2.active.pulses + m2.recovery
  BY DEF Held
<1>6. LeftOf(m1, m2) = E \cup (IF m2.active.present THEN {EventOf(m2.active)} ELSE {})
  BY DEF LeftOf, Added, EventsIn
<1>7. /\ IsFiniteSet(LeftOf(m1, m2))
      /\ Store!Pulses(LeftOf(m1, m2)) = (T2 - T1) + m2.active.pulses
  <2>1. CASE ~m2.active.present
    <3>1. m2.active.pulses = 0
      BY <2>1, GoodFields
    <3>2. LeftOf(m1, m2) = E
      BY <1>6, <2>1
    <3>. HIDE DEF E, T1, T2
    <3>3. (T2 - T1) + m2.active.pulses = T2 - T1
      BY <1>1, <3>1
    <3>. QED  BY <1>4, <3>2, <3>3
  <2>2. CASE m2.active.present
    <3>. DEFINE e == EventOf(m2.active)
    <3>1. e.seq = m2.active.seq /\ e.pulses = m2.active.pulses
      BY DEF EventOf
    <3>2. \A x \in E : x.pulses \in Nat /\ x # e
      <4>1. \A i \in 1..Len(m2.results) : m2.results[i].seq < m2.active.seq
        BY <2>2 DEF GoodMachine, SequencesOrdered
      <4>. SUFFICES ASSUME NEW i \in (a + 1)..b
                    PROVE  EventOf(m2.results[i]).pulses \in Nat /\ EventOf(m2.results[i]) # e
        BY DEF EventsIn
      <4>2. i \in 1..Len(m2.results)
        BY <1>1
      <4>3. m2.results[i].seq # m2.active.seq
        <5>1. m2.active.seq \in Nat /\ m2.results[i].seq \in Nat
          BY <4>2, GoodFields, ResultFields
        <5>. QED  BY <4>1, <4>2, <5>1
      <4>. QED  BY <3>1, <4>2, <4>3, ResultFields
    <3>3. LeftOf(m1, m2) = E \cup {e}
      BY <1>6, <2>2
    <3>. HIDE DEF E, e
    <3>4. e \notin E /\ e.pulses \in Nat
      BY <1>1, <3>1, <3>2
    <3>. QED  BY <1>4, <3>1, <3>2, <3>3, <3>4, PulsesOfOneMore, FS_AddElement
  <2>. QED  BY <2>1, <2>2
<1>. HIDE DEF E, T1, T2
<1>8. /\ T1 \in Int /\ T2 \in Int /\ m1.active.pulses \in Int /\ m2.active.pulses \in Int
      /\ m1.recovery \in Int /\ m2.recovery \in Int
  BY <1>1
<1>9. (((T2 - T1) + m2.active.pulses) - m1.active.pulses + m2.recovery) - m1.recovery
        = (T2 + m2.active.pulses + m2.recovery) - (T1 + m1.active.pulses + m1.recovery)
  BY <1>8, LeftSum
<1>10. (T2 - T1) + m2.active.pulses \in Int
  BY <1>8
<1>. QED  BY <1>5, <1>7, <1>9, <1>10, Zenon

-------------------------------------------------------------------------------
(***************************************************************************)
(* A step of the machine as a step of EventStore.  mm is the machine       *)
(* before an acknowledgement removes the results in gone, and otherwise m'.*)
(***************************************************************************)
LEMMA ActiveIsOpen ==
  ASSUME NEW mm, GoodMachine(mm)
  PROVE  /\ (EventOf(mm.active) = Store!NoEvent) <=> ~mm.active.present
         /\ EventOf(mm.active).seq = mm.active.seq
         /\ EventOf(mm.active).sid = mm.active.sid
         /\ EventOf(mm.active).pulses = mm.active.pulses
         /\ mm.active.seq \in Nat /\ mm.active.pulses \in Nat
         /\ mm.active.present => mm.active.seq \in 1..(mm.next - 1)
         /\ ~mm.active.present => mm.active.seq = 0
         /\ mm.next \in 1..MaxSeq
<1>1. /\ EventOf(mm.active).seq = mm.active.seq /\ EventOf(mm.active).sid = mm.active.sid
      /\ EventOf(mm.active).pulses = mm.active.pulses
  BY DEF EventOf
<1>2. /\ mm.active.present => mm.active.seq \in 1..(mm.next - 1)
      /\ ~mm.active.present => mm.active = NoActive
      /\ mm.active.seq \in Nat /\ mm.active.pulses \in Nat /\ mm.next \in 1..MaxSeq
  BY GoodFields DEF GoodMachine, SequencesOrdered, StateAgrees
<1>3. Store!NoEvent.seq = 0
  BY DEF Store!NoEvent
<1>4. mm.active.present => EventOf(mm.active) # Store!NoEvent
  BY <1>1, <1>2, <1>3
<1>5. ~mm.active.present => EventOf(mm.active) = Store!NoEvent /\ mm.active.seq = 0
  BY <1>2 DEF EventOf, Store!NoEvent, NoActive
<1>. QED  BY <1>1, <1>2, <1>4, <1>5

LEMMA NewRecords ==
  ASSUME NEW m1, GoodMachine(m1), NEW m2, GoodMachine(m2), Longer(m1, m2)
  PROVE  /\ RecordsOf(m1) \subseteq RecordsOf(m2)
         /\ RecordsOf(m2) = RecordsOf(m1) \cup {Record(m2.results[i]) : i \in Added(m1, m2)}
         /\ \A i \in Added(m1, m2) : Record(m2.results[i]) \notin RecordsOf(m1)
<1>1. Len(m1.results) \in Nat /\ Len(m2.results) \in Nat
  BY HeldIsNat
<1>2. Len(m1.results) <= Len(m2.results)
      /\ \A i \in 1..Len(m1.results) : m2.results[i] = m1.results[i]
  BY DEF Longer
<1>3. 1..Len(m2.results) = (1..Len(m1.results)) \cup Added(m1, m2)
  BY <1>1, <1>2 DEF Added
<1>4. ASSUME NEW i \in Added(m1, m2) PROVE Record(m2.results[i]) \notin RecordsOf(m1)
  <2>. SUFFICES ASSUME NEW j \in 1..Len(m1.results),
                       Record(m2.results[i]) = Record(m1.results[j])
                PROVE  FALSE
    BY DEF RecordsOf
  <2>1. i \in 1..Len(m2.results) /\ j \in 1..Len(m2.results) /\ i # j
    BY <1>1, <1>2 DEF Added
  <2>2. Record(m2.results[i]) = Record(m2.results[j])
    BY <1>2
  <2>3. m2.results[i].seq = m2.results[j].seq
    <3>1. \A r : Record(r).seq = r.seq
      BY DEF Record
    <3>. QED  BY <2>2, <3>1
  <2>. QED  BY <2>1, <2>3, OneResult
<1>. QED  BY <1>2, <1>3, <1>4 DEF RecordsOf

LEMMA StoreLeft ==
  ASSUME GoodMachine(m), GoodMachine(m'), NEW mm, GoodMachine(mm), Longer(m, mm),
         m'.active = mm.active,
         NEW gone \in SUBSET RecordsOf(m), RecordsOf(m') = RecordsOf(mm) \ gone
  PROVE  /\ RecordsOf(m) \ RecordsOf(m') = gone
         /\ Store!Fresh = {Record(mm.results[i]) : i \in Added(m, mm)}
         /\ Store!Opened = IF mm.active.present THEN {EventOf(mm.active)} ELSE {}
         /\ Store!Left = LeftOf(m, mm)
<1>. DEFINE New == {Record(mm.results[i]) : i \in Added(m, mm)}
<1>1. /\ RecordsOf(m) \subseteq RecordsOf(mm) /\ RecordsOf(mm) = RecordsOf(m) \cup New
      /\ \A x \in New : x \notin RecordsOf(m)
  BY NewRecords
<1>2. Store!Fresh = RecordsOf(m') \ RecordsOf(m)
  BY DEF Store!Fresh, RecordsOf
<1>. HIDE DEF New
<1>3. Store!Fresh = New /\ RecordsOf(m) \ RecordsOf(m') = gone
  BY <1>1, <1>2
<1>4. Store!Opened = IF mm.active.present THEN {EventOf(mm.active)} ELSE {}
  <2>1. (EventOf(mm.active) = Store!NoEvent) <=> ~mm.active.present
    BY ActiveIsOpen
  <2>2. EventOf(m.active)' = EventOf(mm.active)
    BY DEF EventOf
  <2>. QED  BY <2>1, <2>2 DEF Store!Opened
<1>5. {Store!Event(r) : r \in New} = {EventOf(mm.results[i]) : i \in Added(m, mm)}
  <2>1. \A x : Store!Event(Record(x)) = EventOf(x)
    BY DEF Store!Event, Record, EventOf
  <2>. QED  BY <2>1 DEF New
<1>6. Store!Left = LeftOf(m, mm)
  BY <1>3, <1>4, <1>5 DEF Store!Left, LeftOf
<1>. QED  BY <1>3, <1>4, <1>6 DEF New

(* Follows, but for a session the step arms. *)
FollowsArming(m1, m2, armed) ==
  /\ m1.active.present =>
       \E e \in LeftOf(m1, m2) : /\ e.seq = m1.active.seq /\ e.sid = m1.active.sid
                                 /\ e.pulses >= m1.active.pulses
  /\ m1.next <= m2.next
  /\ \A k \in m1.next..(m2.next - 1) : \E e \in LeftOf(m1, m2) : e.seq = k
  /\ \A e \in LeftOf(m1, m2) :
       \/ m1.active.present /\ e.seq = m1.active.seq /\ e.sid = m1.active.sid
       \/ e.seq >= m1.next /\ (e \in armed \/ (e.sid = NoSid /\ e.pulses > 0))

(* A set of events with sequences of their own has as many sequences.      *)
LEMMA AsManySequences ==
  ASSUME NEW L, IsFiniteSet(L), \A e, f \in L : e.seq = f.seq => e = f
  PROVE  Cardinality({e.seq : e \in L}) = Cardinality(L)
<1>. DEFINE S == {e.seq : e \in L}
            g == [e \in L |-> e.seq]
<1>1. g \in Bijection(L, S)
  <2>1. g \in [L -> S]
    OBVIOUS
  <2>2. \A e, f \in L : g[e] = g[f] => e = f
    OBVIOUS
  <2>3. \A s \in S : \E e \in L : g[e] = s
    OBVIOUS
  <2>. QED  BY <2>1, <2>2, <2>3, Fun_IsBij
<1>. QED  BY <1>1, FS_Bijection DEF ExistsBijection

LEMMA AsManyRecords ==
  ASSUME NEW mm, GoodMachine(mm)
  PROVE  /\ IsFiniteSet(RecordsOf(mm)) /\ Cardinality(RecordsOf(mm)) \in Nat
         /\ Cardinality(RecordsOf(mm)) <= Len(mm.results)
<1>. DEFINE n == Len(mm.results)
            g == [i \in 1..n |-> Record(mm.results[i])]
<1>1. n \in Nat
  BY HeldIsNat
<1>2. IsFiniteSet(1..n) /\ Cardinality(1..n) = n
  <2>1. 1 \in Int /\ n \in Int
    BY <1>1
  <2>2. IsFiniteSet(1..n) /\ Cardinality(1..n) = IF 1 > n THEN 0 ELSE n - 1 + 1
    BY <2>1, FS_Interval
  <2>. QED  BY <1>1, <2>2
<1>3. g \in Surjection(1..n, RecordsOf(mm))
  <2>1. g \in [1..n -> RecordsOf(mm)]
    BY DEF RecordsOf
  <2>2. \A r \in RecordsOf(mm) : \E i \in 1..n : g[i] = r
    BY DEF RecordsOf
  <2>. QED  BY <2>1, <2>2, Fun_IsSurj
<1>4. IsFiniteSet(RecordsOf(mm)) /\ Cardinality(RecordsOf(mm)) <= n
  <2>. HIDE DEF g, n
  <2>1. IsFiniteSet(RecordsOf(mm)) /\ Cardinality(RecordsOf(mm)) <= Cardinality(1..n)
    BY <1>2, <1>3, FS_Surjection
  <2>. QED  BY <1>2, <2>1
<1>. QED  BY <1>4, FS_CardinalityType

LEMMA SameCardinality == \A S : Store!Cardinality(S) = Cardinality(S)
BY DEF Store!Cardinality, Cardinality

LEMMA StoreProgress ==
  ASSUME GoodMachine(m), GoodMachine(m'), NEW mm, GoodMachine(mm), Longer(m, mm),
         m'.active = mm.active, m'.next = mm.next, m'.lifetime = mm.lifetime,
         m'.recovery = mm.recovery,
         NEW gone \in SUBSET RecordsOf(m), RecordsOf(m') = RecordsOf(mm) \ gone,
         NEW armed, FollowsArming(m, mm, armed),
         \A i \in Added(m, mm) : EmptyOnlyIf(mm.results[i], mm.lifetime),
         Pays(m, mm)
  PROVE  Store!Progress(gone, armed)
<1>. DEFINE L == LeftOf(m, mm)
            New == {Record(mm.results[i]) : i \in Added(m, mm)}
<1>1. /\ RecordsOf(m) \ RecordsOf(m') = gone /\ Store!Fresh = New
      /\ Store!Opened = IF mm.active.present THEN {EventOf(mm.active)} ELSE {}
      /\ Store!Left = L
  BY StoreLeft
<1>2. /\ (EventOf(m.active) = Store!NoEvent) <=> ~m.active.present
      /\ EventOf(m.active).seq = m.active.seq
      /\ EventOf(m.active).sid = m.active.sid
      /\ EventOf(m.active).pulses = m.active.pulses
      /\ m.active.seq \in Nat /\ m.active.pulses \in Nat
      /\ m.active.present => m.active.seq \in 1..(m.next - 1)
      /\ ~m.active.present => m.active.seq = 0
      /\ m.next \in 1..MaxSeq /\ mm.next \in 1..MaxSeq
  BY ActiveIsOpen
<1>3. \A e \in L : e.seq \in Nat /\ e.pulses \in Nat
  BY LeftFields
<1>4. \A i \in Added(m, mm) : i \in 1..Len(mm.results)
  <2>1. Len(m.results) \in Nat /\ Len(mm.results) \in Nat
    BY HeldIsNat
  <2>. QED  BY <2>1 DEF Added
<1>5. \A r : Record(r).pulses = r.pulses /\ Record(r).status = r.status
  BY DEF Record
<1>6. /\ m.active.present =>
           \E e \in L : /\ e.seq = m.active.seq /\ e.sid = m.active.sid
                        /\ e.pulses >= m.active.pulses
      /\ m.next <= mm.next
      /\ \A k \in m.next..(mm.next - 1) : \E e \in L : e.seq = k
      /\ \A e \in L :
           \/ m.active.present /\ e.seq = m.active.seq /\ e.sid = m.active.sid
           \/ e.seq >= m.next /\ (e \in armed \/ (e.sid = NoSid /\ e.pulses > 0))
  BY DEF FollowsArming
<1>7. \A e \in L : e.seq < mm.next
  <2>1. \A i \in 1..Len(mm.results) : mm.results[i].seq \in 1..(mm.next - 1)
    BY DEF GoodMachine, SequencesOrdered
  <2>2. mm.active.present => mm.active.seq \in 1..(mm.next - 1)
    BY ActiveIsOpen
  <2>3. \A x : EventOf(x).seq = x.seq
    BY DEF EventOf
  <2>4. \A k \in 1..(mm.next - 1) : k < mm.next
    BY <1>2
  <2>5. \A i \in Added(m, mm) : EventOf(mm.results[i]).seq < mm.next
    BY <1>4, <2>1, <2>3, <2>4, Zenon
  <2>6. mm.active.present => EventOf(mm.active).seq < mm.next
    BY <2>2, <2>3, <2>4, Zenon
  <2>. QED  BY <2>5, <2>6, Zenon DEF LeftOf
<1>. HIDE DEF L
<1>8. Store!Continues
  BY <1>1, <1>2, <1>6 DEF Store!Continues
<1>9. Store!Numbered
  <2>1. {e.seq : e \in L} \ {m.active.seq} = m.next..(mm.next - 1)
    <3>1. ASSUME NEW e \in L, e.seq # m.active.seq
          PROVE  e.seq \in m.next..(mm.next - 1)
      BY <1>2, <1>3, <1>6, <1>7, <3>1
    <3>2. ASSUME NEW k \in m.next..(mm.next - 1)
          PROVE  k # m.active.seq /\ \E e \in L : e.seq = k
      BY <1>2, <1>6
    <3>. QED  BY <3>1, <3>2
  <2>2. Cardinality({e.seq : e \in L}) = Cardinality(L)
    <3>1. \A e, f \in L : e.seq = f.seq => e = f
      BY OneOfEachSeq DEF L
    <3>2. IsFiniteSet(L)
      BY LeftPulses DEF L
    <3>. QED  BY <3>1, <3>2, AsManySequences
  <2>3. m'.next <= MaxSeq + 1
    BY <1>2
  <2>4. {e.seq : e \in L} \ {EventOf(m.active).seq} = m.next..(m'.next - 1)
    BY <1>2, <2>1
  <2>. QED  BY <1>1, <2>2, <2>3, <2>4, SameCardinality DEF Store!Numbered
<1>10. Store!OpensOnly(armed)
  <2>1. ASSUME NEW e \in L, e.seq >= m.next
        PROVE  e \in armed \/ (e.sid = NoSid /\ e.pulses > 0)
    BY <1>2, <1>6, <2>1
  <2>. QED  BY <1>1, <2>1 DEF Store!OpensOnly
<1>11. Store!ClosesWell
  <2>1. \A r \in New : \E i \in 1..Len(mm.results) :
           /\ r.status = mm.results[i].status /\ r.pulses = mm.results[i].pulses
           /\ EmptyOnlyIf(mm.results[i], mm.lifetime)
    BY <1>4, <1>5
  <2>2. \A i \in 1..Len(mm.results) :
          /\ mm.results[i].status \in {"complete", "timed_out", "interrupted"}
          /\ mm.results[i].status = "timed_out" => mm.results[i].pulses = 0
    BY ResultFields DEF GoodMachine, TimeoutsMatchPulses, TerminalStates
  <2>3. Cardinality(RecordsOf(m')) + Cardinality(Store!Opened) <= Capacity
    <3>1. /\ Cardinality(RecordsOf(m')) \in Nat
          /\ Cardinality(RecordsOf(m')) <= Len(m'.results)
      BY AsManyRecords
    <3>2. /\ Len(m'.results) <= Capacity /\ Len(m'.results) \in Nat
          /\ mm.active.present => Len(m'.results) < Capacity
      BY HeldIsNat DEF GoodMachine, SlotReserved
    <3>3. Cardinality(Store!Opened) = IF mm.active.present THEN 1 ELSE 0
      BY <1>1, FS_EmptySet, FS_Singleton
    <3>. QED  BY <3>1, <3>2, <3>3
  <2>. HIDE DEF New
  <2>4. \A r \in New : /\ r.status \in {"complete", "timed_out", "interrupted"}
                       /\ r.status = "timed_out" => r.pulses = 0
                       /\ r.pulses = 0 => r.status = "timed_out" \/ m'.lifetime = MaxLifetime
    BY <2>1, <2>2 DEF EmptyOnlyIf
  <2>5. Store!Cardinality(RecordsOf(m')) + Store!Cardinality(Store!Opened) <= Capacity
    BY <2>3, SameCardinality
  <2>. QED  BY <1>1, <2>4, <2>5 DEF Store!ClosesWell, RecordsOf
<1>12. Store!Conserves
  <2>. DEFINE gained == (Store!Pulses(L) - m.active.pulses + mm.recovery) - m.recovery
              accepted == mm.lifetime - m.lifetime
  <2>1. gained = Held(mm) - Held(m)
    BY LeftPulses DEF L
  <2>2. /\ 0 <= Held(mm) - Held(m) /\ Held(mm) - Held(m) <= accepted
        /\ m.recovery <= mm.recovery
        /\ \/ Held(mm) - Held(m) = accepted
           \/ mm.lifetime = MaxLifetime
           \/ \E i \in Added(m, mm) : mm.results[i].pulses = MaxResultPulses
    BY DEF Pays
  <2>3. (\E i \in Added(m, mm) : mm.results[i].pulses = MaxResultPulses)
          => \E r \in New : r.pulses = MaxResultPulses
    BY <1>5
  <2>. HIDE DEF New
  <2>4. /\ 0 <= gained /\ gained <= accepted /\ m.recovery <= mm.recovery
        /\ \/ gained = accepted
           \/ mm.lifetime = MaxLifetime
           \/ \E r \in New : r.pulses = MaxResultPulses
    <3>. HIDE DEF gained, accepted
    <3>. QED  BY <2>1, <2>2, <2>3, Zenon
  <2>5. Store!Pulses(Store!Left) - EventOf(m.active).pulses + m'.recovery - m.recovery = gained
    <3>. DEFINE P == Store!Pulses(L)
    <3>1. /\ P \in Int /\ m.active.pulses \in Int /\ mm.recovery \in Int
          /\ m.recovery \in Int
      BY SMTT(40), LeftPulses, HeldIsNat DEF L
    <3>. HIDE DEF P
    <3>2. P - m.active.pulses + mm.recovery - m.recovery = (P - m.active.pulses + mm.recovery) - m.recovery
      BY <3>1
    <3>3. Store!Pulses(Store!Left) = P /\ m'.recovery = mm.recovery
          /\ EventOf(m.active).pulses = m.active.pulses
      BY <1>1, <1>2 DEF P
    <3>. QED  BY <3>2, <3>3, Zenon DEF P
  <2>6. m'.lifetime - m.lifetime = accepted
    OBVIOUS
  <2>. HIDE DEF gained, accepted
  <2>. QED  BY <1>1, <2>4, <2>5, <2>6 DEF Store!Conserves
<1>. QED  BY <1>1, <1>8, <1>9, <1>10, <1>11, <1>12 DEF Store!Progress, RecordsOf

LEMMA WorkStep ==
  ASSUME GoodMachine(m), Extends(m, m')
  PROVE  Store!Work
<1>1. GoodMachine(m') /\ Longer(m, m') /\ Follows(m, m') /\ Pays(m, m')
      /\ \A i \in Added(m, m') : EmptyOnlyIf(m'.results[i], m'.lifetime)
  BY DEF Extends
<1>2. FollowsArming(m, m', {})
  BY <1>1 DEF Follows, FollowsArming
<1>3. RecordsOf(m') = RecordsOf(m') \ {} /\ {} \in SUBSET RecordsOf(m)
  OBVIOUS
<1>4. Store!Progress({}, {})
  BY <1>1, <1>2, <1>3, StoreProgress
<1>. QED  BY <1>4 DEF Store!Work

(* arm() gives the next sequence to the session, after the leading tick.   *)
LEMMA ArmStep ==
  ASSUME GoodMachine(m), NEW t, Extends(m, t), NEW seq \in Nat, NEW sid \in Sids,
         NEW ttl \in Nat, clock \in Int, m' = Arm(t, seq, sid, clock, ttl)
  PROVE  Store!Work \/ Store!Arm(sid)
<1>1. /\ GoodMachine(t) /\ Longer(m, t) /\ Follows(m, t) /\ Pays(m, t)
      /\ \A i \in Added(m, t) : EmptyOnlyIf(t.results[i], t.lifetime)
  BY DEF Extends
<1>2. CASE ArmReply(t, seq, sid) # "ok"
  <2>1. m' = t
    BY <1>2 DEF Arm
  <2>. QED  BY <2>1, WorkStep
<1>3. CASE ArmReply(t, seq, sid) = "ok"
  <2>1. ~t.active.present /\ t \in Machine /\ t.active.pulses = 0 /\ t.next \in Nat
    <3>1. ~t.active.present
      BY <1>3 DEF ArmReply
    <3>. QED  BY <1>1, <3>1, GoodFields
  <2>2. GoodMachine(m')
    BY <1>1, ArmGood
  <2>3. /\ m'.results = t.results /\ m'.next = t.next + 1
        /\ m'.recovery = t.recovery /\ m'.lifetime = t.lifetime
        /\ m'.active.present /\ m'.active.pulses = 0 /\ m'.active.seq = t.next
        /\ m'.active.sid = sid
    BY <1>3, <2>1 DEF Arm, Machine
  <2>. DEFINE e == EventOf(m'.active)
  <2>4. e = [seq |-> t.next, sid |-> sid, pulses |-> 0]
    BY <2>3 DEF EventOf
  <2>5. Added(m, m') = Added(m, t) /\ Longer(m, m') /\ Held(m') = Held(t)
    BY <1>1, <2>1, <2>3 DEF Added, Longer, Held
  <2>6. Pays(m, m') /\ \A i \in Added(m, m') : EmptyOnlyIf(m'.results[i], m'.lifetime)
    BY <1>1, <2>3, <2>5 DEF Pays
  <2>7. LeftOf(m, m') = LeftOf(m, t) \cup {e}
    BY <2>1, <2>3, <2>5 DEF LeftOf
  <2>. HIDE DEF e
  <2>8. m.next \in Nat /\ m.next <= t.next
    BY <1>1, HeldIsNat DEF Follows
  <2>9. FollowsArming(m, m', {e})
    <3>1. \A k \in m.next..(m'.next - 1) : \E x \in LeftOf(m, m') : x.seq = k
      <4>. SUFFICES ASSUME NEW k \in m.next..(m'.next - 1)
                    PROVE  \E x \in LeftOf(m, m') : x.seq = k
        OBVIOUS
      <4>1. k = t.next \/ k \in m.next..(t.next - 1)
        BY <2>1, <2>3, <2>8
      <4>2. \A l \in m.next..(t.next - 1) : \E x \in LeftOf(m, t) : x.seq = l
        BY <1>1 DEF Follows
      <4>3. e.seq = t.next
        BY <2>4
      <4>. QED  BY <2>7, <4>1, <4>2, <4>3
    <3>2. \A x \in LeftOf(m, m') :
             \/ m.active.present /\ x.seq = m.active.seq /\ x.sid = m.active.sid
             \/ x.seq >= m.next /\ (x \in {e} \/ (x.sid = NoSid /\ x.pulses > 0))
      <4>1. e.seq >= m.next
        BY <2>1, <2>4, <2>8
      <4>. QED  BY <1>1, <2>7, <4>1 DEF Follows
    <3>3. m.active.present =>
            \E x \in LeftOf(m, m') : /\ x.seq = m.active.seq /\ x.sid = m.active.sid
                                     /\ x.pulses >= m.active.pulses
      BY <1>1, <2>7 DEF Follows
    <3>4. m.next <= m'.next
      BY <2>1, <2>3, <2>8
    <3>. QED  BY <3>1, <3>2, <3>3, <3>4 DEF FollowsArming
  <2>10. RecordsOf(m') = RecordsOf(m') \ {} /\ {} \in SUBSET RecordsOf(m)
    OBVIOUS
  <2>11. Store!Progress({}, {e})
    BY <2>2, <2>5, <2>6, <2>9, <2>10, StoreProgress
  <2>12. m'.next > m.next /\ e = [seq |-> m'.next - 1, sid |-> sid, pulses |-> 0]
    BY <2>1, <2>3, <2>4, <2>8
  <2>13. EventOf(m.active)' = e
    BY DEF e, EventOf
  <2>. QED  BY <2>11, <2>12, <2>13 DEF Store!Arm
<1>. QED  BY <1>2, <1>3

(* cancel() drops only a session nothing was poured in. *)
LEMMA CancelStep ==
  ASSUME Solvent(m), NEW t, Extends(m, t), Solvent(t), Emptied(t) => t = m,
         NEW seq \in Nat, NEW sid \in Sids, m' = Cancel(t, seq, sid)
  PROVE  Store!Work \/ Store!Abandon
<1>1. GoodMachine(m) /\ m \in Machine
  BY GoodFields DEF Solvent
<1>2. CASE CancelReply(t, seq, sid) # "ok"
  <2>1. m' = t
    BY <1>2 DEF Cancel
  <2>. QED  BY <1>1, <2>1, WorkStep
<1>3. CASE CancelReply(t, seq, sid) = "ok" /\ t.active.pulses # 0
  <2>1. m' = Finalize(t, "interrupted")
    BY <1>3 DEF Cancel
  <2>2. Extends(t, Finalize(t, "interrupted"))
    BY <1>3, FinalizeExtends DEF TerminalStates
  <2>3. Extends(m, m')
    BY <2>1, <2>2, SolventGrows
  <2>. QED  BY <1>1, <2>3, WorkStep
<1>4. CASE CancelReply(t, seq, sid) = "ok" /\ t.active.pulses = 0
  <2>1. IsActive(t, seq, sid)
    BY <1>4 DEF CancelReply
  <2>2. t = m /\ m.active.present /\ m.active.pulses = 0 /\ m.active.sid = sid
    BY <1>4, <2>1 DEF IsActive, Emptied
  <2>3. m' = [m EXCEPT !.active = NoActive, !.state = "idle"]
    BY <1>4, <2>2 DEF Cancel
  <2>4. /\ m'.active = NoActive /\ m'.next = m.next /\ m'.results = m.results
        /\ m'.lifetime = m.lifetime /\ m'.recovery = m.recovery
    BY <1>1, <2>3 DEF Machine
  <2>5. EventOf(m.active).sid # NoSid /\ EventOf(m.active).pulses = 0
    BY <2>2, SidsAssumption DEF EventOf
  <2>6. EventOf(m.active)' = Store!NoEvent
    BY <2>4 DEF EventOf, NoActive, Store!NoEvent
  <2>7. {Record(m.results[i]) : i \in 1..Len(m.results)}'
          = {Record(m.results[i]) : i \in 1..Len(m.results)}
    BY <2>4
  <2>. QED  BY <2>4, <2>5, <2>6, <2>7 DEF Store!Abandon
<1>. QED  BY <1>2, <1>3, <1>4

(* acknowledge() releases the one result the host names. *)
LEMMA ReleaseStep ==
  ASSUME GoodMachine(m), NEW d, Extends(m, d), NEW i \in 1..Len(m.results),
         GoodMachine(m'), m' = Acknowledge(d, m.results[i].seq)
  PROVE  \E r \in {Record(m.results[j]) : j \in 1..Len(m.results)} : Store!Release(r)
<1>. DEFINE r == Record(m.results[i])
<1>1. /\ GoodMachine(d) /\ Longer(m, d) /\ Follows(m, d) /\ Pays(m, d)
      /\ \A j \in Added(m, d) : EmptyOnlyIf(d.results[j], d.lifetime)
  BY DEF Extends
<1>2. i \in 1..Len(d.results) /\ d.results[i] = m.results[i] /\ d.results \in Seq(Result)
  <2>1. Len(m.results) \in Nat /\ Len(d.results) \in Nat
    BY <1>1, HeldIsNat
  <2>. QED  BY <1>1, <2>1, GoodFields DEF Longer
<1>3. /\ m'.results = Without(d.results, i) /\ m'.next = d.next
      /\ m'.active = d.active /\ m'.recovery = d.recovery /\ m'.lifetime = d.lifetime
  BY <1>1, <1>2, AcknowledgeRemoves
<1>4. RecordsOf(m') = RecordsOf(d) \ {r}
  <2>. DEFINE n == Len(d.results)
              w == m'.results
  <2>1. /\ Len(w) = n - 1 /\ n \in Nat
        /\ \A j \in 1..(n - 1) : w[j] = d.results[IF j < i THEN j ELSE j + 1]
    <3>. DEFINE o == Without(d.results, i)
    <3>1. /\ Len(o) = Len(d.results) - 1
          /\ \A j \in 1..Len(o) : o[j] = d.results[IF j < i THEN j ELSE j + 1]
      BY <1>2, WithoutResult
    <3>2. w = o /\ n \in Nat
      BY <1>1, <1>3, HeldIsNat
    <3>. HIDE DEF o, w
    <3>. QED  BY <3>1, <3>2
  <2>2. \A j \in 1..n : j # i => Record(d.results[j]) # r
    <3>. SUFFICES ASSUME NEW j \in 1..n, j # i, Record(d.results[j]) = r PROVE FALSE
      OBVIOUS
    <3>1. \A x : Record(x).seq = x.seq
      BY DEF Record
    <3>2. d.results[j].seq = d.results[i].seq
      BY <1>2, <3>1
    <3>. QED  BY <1>1, <1>2, <3>2, OneResult
  <2>3. ASSUME NEW j \in 1..(n - 1)
        PROVE  \E k \in 1..n : k # i /\ w[j] = d.results[k]
    <3>1. CASE j < i
      BY SMTT(40), <2>1, <3>1
    <3>2. CASE ~(j < i)
      <4>1. j + 1 \in 1..n /\ j + 1 # i
        BY <1>2, <2>1, <3>2
      <4>. QED  BY <2>1, <3>2, <4>1
    <3>. QED  BY <3>1, <3>2
  <2>4. ASSUME NEW k \in 1..n, k # i
        PROVE  \E j \in 1..(n - 1) : w[j] = d.results[k]
    <3>1. CASE k < i
      <4>1. k \in 1..(n - 1)
        BY <1>2, <2>1, <3>1
      <4>. QED  BY <2>1, <3>1, <4>1
    <3>2. CASE ~(k < i)
      <4>1. k - 1 \in 1..(n - 1) /\ ~(k - 1 < i) /\ (k - 1) + 1 = k
        BY <1>2, <2>1, <2>4, <3>2
      <4>. QED  BY <2>1, <4>1
    <3>. QED  BY <3>1, <3>2
  <2>5. RecordsOf(m') = {Record(w[j]) : j \in 1..(n - 1)}
    BY <2>1 DEF RecordsOf
  <2>6. RecordsOf(d) = {Record(d.results[k]) : k \in 1..n}
    BY DEF RecordsOf
  <2>7. r = Record(d.results[i]) /\ i \in 1..n
    BY <1>2
  <2>. HIDE DEF n, w, r
  <2>8. ASSUME NEW x \in RecordsOf(m') PROVE x \in RecordsOf(d) \ {r}
    <3>1. PICK j \in 1..(n - 1) : x = Record(w[j])
      BY <2>5
    <3>2. PICK k \in 1..n : k # i /\ w[j] = d.results[k]
      BY <2>3
    <3>. QED  BY <2>2, <2>6, <3>1, <3>2
  <2>9. ASSUME NEW x \in RecordsOf(d) \ {r} PROVE x \in RecordsOf(m')
    <3>1. PICK k \in 1..n : x = Record(d.results[k])
      BY <2>6
    <3>2. k # i
      BY <2>7, <3>1
    <3>3. PICK j \in 1..(n - 1) : w[j] = d.results[k]
      BY <2>4, <3>2
    <3>. QED  BY <2>5, <3>1, <3>3
  <2>. QED  BY <2>8, <2>9
<1>5. {r} \in SUBSET RecordsOf(m)
  BY DEF RecordsOf
<1>6. FollowsArming(m, d, {})
  BY <1>1 DEF Follows, FollowsArming
<1>. HIDE DEF r
<1>7. Store!Progress({r}, {})
  BY <1>1, <1>3, <1>4, <1>5, <1>6, StoreProgress
<1>. QED  BY <1>7 DEF Store!Release, r

LEMMA InitStore == Init => Store!Init
<1>. SUFFICES ASSUME Init PROVE Store!Init
  OBVIOUS
<1>1. /\ m.next = 1 /\ m.lifetime = 0 /\ m.recovery = 0
      /\ m.active = NoActive /\ m.results = << >>
  BY DEF Init, NewMachine
<1>2. EventOf(m.active) = Store!NoEvent
  BY <1>1 DEF EventOf, NoActive, Store!NoEvent
<1>3. {Record(m.results[i]) : i \in 1..Len(m.results)} = {}
  BY <1>1
<1>. QED  BY <1>1, <1>2, <1>3 DEF Store!Init

LEMMA NextStore == Audited /\ [Next]_vars => [Store!Next]_(Store!vars)
<1>. SUFFICES ASSUME Audited, [Next]_vars PROVE [Store!Next]_(Store!vars)
  OBVIOUS
<1>. USE StallAssumption
<1>. DEFINE t == Tick(Drained, clock)
            records == {Record(m.results[i]) : i \in 1..Len(m.results)}
<1>1. /\ Inv /\ Solvent(m) /\ GoodMachine(m) /\ clock \in Int /\ GoodMachine(m')
  BY NextInv DEF Audited, Solvent, Inv, TypeOK, Times
<1>2. Extends(m, Drained)
  BY <1>1, DrainedExtends
<1>3. Extends(m, t) /\ Solvent(t) /\ (Emptied(t) => t = m)
  BY <1>1, TickedExtends
<1>. HIDE DEF t
<1>4. ASSUME Store!Work PROVE [Store!Next]_(Store!vars)
  BY <1>4 DEF Store!Next
<1>5. CASE m' = m
  <2>1. records' = records /\ EventOf(m.active)' = EventOf(m.active)
    BY <1>5 DEF EventOf, Record
  <2>. QED  BY <1>5, <2>1 DEF Store!vars
<1>6. CASE PulseIsr \/ ClockTick \/ UNCHANGED vars
  BY <1>5, <1>6 DEF PulseIsr, ClockTick, vars
<1>7. CASE TickLinearized
  <2>1. m' = t
    BY <1>7 DEF TickLinearized, t
  <2>. QED  BY <1>1, <1>3, <1>4, <2>1, WorkStep
<1>8. CASE DrainPulses \/ HandleResults
  <2>1. m' = Drained
    BY <1>8 DEF DrainPulses, HandleResults
  <2>. QED  BY <1>1, <1>2, <1>4, <2>1, WorkStep
<1>9. ASSUME NEW seq \in 1..MaxSeq, NEW sid \in Sids, NEW ttl \in Ttls,
             HandleArm(seq, sid, ttl)
      PROVE  [Store!Next]_(Store!vars)
  <2>1. m' = Arm(t, seq, sid, clock, ttl) /\ ttl \in Nat /\ seq \in Nat
    BY <1>9 DEF HandleArm, t
  <2>2. Store!Work \/ Store!Arm(sid)
    BY <1>1, <1>3, <2>1, ArmStep
  <2>. QED  BY <2>2 DEF Store!Next
<1>10. ASSUME NEW seq \in 1..MaxSeq, NEW sid \in Sids, HandleCancel(seq, sid)
       PROVE  [Store!Next]_(Store!vars)
  <2>1. m' = Cancel(t, seq, sid) /\ seq \in Nat
    BY <1>10 DEF HandleCancel, t
  <2>2. Store!Work \/ Store!Abandon
    BY <1>1, <1>3, <2>1, CancelStep
  <2>. QED  BY <2>2 DEF Store!Next
<1>11. ASSUME NEW seq \in 1..MaxSeq, HandleAck(seq)
       PROVE  [Store!Next]_(Store!vars)
  <2>1. PICK i \in 1..Len(m.results) : m.results[i].seq = seq
    BY <1>11 DEF HandleAck
  <2>2. m' = Acknowledge(Drained, m.results[i].seq)
    BY <1>11, <2>1 DEF HandleAck
  <2>3. \E r \in records : Store!Release(r)
    BY <1>1, <1>2, <2>2, ReleaseStep
  <2>. QED  BY <2>3 DEF Store!Next
<1>12. CASE Reset
  <2>1. m' = NewMachine
    BY <1>12 DEF Reset
  <2>2. /\ m'.next = 1 /\ m'.lifetime = 0 /\ m'.recovery = 0
        /\ m'.active = NoActive /\ m'.results = << >>
    BY <2>1 DEF NewMachine
  <2>3. EventOf(m.active)' = Store!NoEvent
    BY <2>2 DEF EventOf, NoActive, Store!NoEvent
  <2>4. records' = {}
    BY <2>2
  <2>5. Store!Reset
    BY <2>2, <2>3, <2>4 DEF Store!Reset
  <2>. QED  BY <2>5 DEF Store!Next
<1>. QED
  BY <1>6, <1>7, <1>8, <1>9, <1>10, <1>11, <1>12 DEF Next, Command

-------------------------------------------------------------------------------
(***************************************************************************)
(* Stamps that roll over.  Two stamps are the same when they differ by     *)
(* whole turns of the clock.                                               *)
(***************************************************************************)
Same(x, y) == Wrap(x - y) = 0

LEMMA WrapTurns ==
  ASSUME NEW x \in Int
  PROVE  Wrap(x) \in 0..(ClockModulus - 1) /\ \E k \in Int : x = Wrap(x) + k * ClockModulus
<1>. DEFINE M == ClockModulus
<1>1. M \in Nat \ {0}
  BY ClockAssumption
<1>2. x % M \in 0..(M - 1) /\ x = M * (x \div M) + (x % M) /\ x \div M \in Int
  BY <1>1
<1>. DEFINE q == x \div M
            r == x % M
<1>3. q \in Int /\ r \in 0..(M - 1) /\ x = M * q + r /\ Wrap(x) = r
  BY <1>2 DEF Wrap
<1>. HIDE DEF q, r
<1>4. x = r + q * M
  BY <1>1, <1>3
<1>. QED  BY <1>3, <1>4

LEMMA TurnsAgree ==
  ASSUME NEW a \in 0..(ClockModulus - 1), NEW b \in 0..(ClockModulus - 1),
         NEW j \in Int, NEW k \in Int,
         a + j * ClockModulus = b + k * ClockModulus
  PROVE  a = b
<1>. DEFINE M == ClockModulus
<1>1. M \in Nat \ {0}
  BY ClockAssumption
<1>2. (j - k) * M = b - a
  BY <1>1
<1>. DEFINE d == j - k
<1>3. d \in Int /\ d * M = b - a
  BY <1>2
<1>. HIDE DEF d
<1>4. ~ (d >= 1)
  <2>1. d >= 1 => d * M >= M
    BY <1>1, <1>3
  <2>. QED  BY <1>1, <1>3, <2>1
<1>5. ~ (d <= -1)
  <2>1. d <= -1 => d * M <= -M
    BY <1>1, <1>3
  <2>. QED  BY <1>1, <1>3, <2>1
<1>. QED  BY <1>1, <1>3, <1>4, <1>5

LEMMA SameTurns ==
  ASSUME NEW x \in Int, NEW y \in Int
  PROVE  Same(x, y) <=> \E k \in Int : x = y + k * ClockModulus
<1>. DEFINE M == ClockModulus
<1>1. M \in Nat \ {0}
  BY ClockAssumption
<1>2. x - y \in Int
  OBVIOUS
<1>3. PICK j \in Int : x - y = Wrap(x - y) + j * M
  BY <1>2, WrapTurns
<1>4. Wrap(x - y) \in 0..(M - 1)
  BY <1>2, WrapTurns
<1>5. ASSUME Same(x, y) PROVE \E k \in Int : x = y + k * M
  <2>1. j * M \in Int
    BY <1>1
  <2>. QED  BY <1>3, <1>5, <2>1 DEF Same
<1>6. ASSUME NEW k \in Int, x = y + k * M PROVE Same(x, y)
  <2>1. j * M \in Int /\ k * M \in Int /\ 0 \in 0..(M - 1)
    BY <1>1
  <2>2. Wrap(x - y) + j * M = 0 + k * M
    BY <1>3, <1>4, <1>6, <2>1
  <2>. QED  BY <1>4, <2>1, <2>2, TurnsAgree DEF Same
<1>. QED  BY <1>5, <1>6

LEMMA SameArith ==
  ASSUME NEW x \in Int, NEW y \in Int, Same(x, y), NEW c \in Int
  PROVE  Same(x + c, y + c) /\ Same(c - x, c - y) /\ Same(y, x)
<1>. DEFINE M == ClockModulus
<1>1. M \in Nat \ {0}
  BY ClockAssumption
<1>2. PICK k \in Int : x = y + k * M
  BY SameTurns
<1>3. -k \in Int /\ (-k) * M = -(k * M) /\ k * M \in Int
  BY <1>1
<1>4. x + c = (y + c) + k * M /\ c - x = (c - y) + (-k) * M /\ y = x + (-k) * M
  BY <1>2, <1>3
<1>. QED  BY <1>3, <1>4, SameTurns

LEMMA SameTrans ==
  ASSUME NEW x \in Int, NEW y \in Int, NEW z \in Int, Same(x, y), Same(y, z)
  PROVE  Same(x, z)
<1>. DEFINE M == ClockModulus
<1>1. M \in Nat \ {0}
  BY ClockAssumption
<1>2. PICK k \in Int : x = y + k * M
  BY SameTurns
<1>3. PICK j \in Int : y = z + j * M
  BY SameTurns
<1>4. (j + k) * M = j * M + k * M /\ j + k \in Int /\ j * M \in Int /\ k * M \in Int
  BY <1>1
<1>5. x = z + (j + k) * M
  BY <1>2, <1>3, <1>4
<1>. QED  BY <1>4, <1>5, SameTurns

LEMMA SameWrap ==
  ASSUME NEW x \in Int
  PROVE  Same(Wrap(x), x) /\ Wrap(x) \in Int /\ Same(x, x)
<1>. DEFINE M == ClockModulus
<1>1. M \in Nat \ {0}
  BY ClockAssumption
<1>2. PICK k \in Int : x = Wrap(x) + k * M
  BY WrapTurns
<1>3. Wrap(x) \in Int
  BY <1>1, WrapTurns
<1>4. Same(x, Wrap(x))
  BY <1>2, <1>3, SameTurns
<1>5. 0 \in Int /\ x = x + 0 * M
  BY <1>1
<1>. QED  BY <1>3, <1>4, <1>5, SameArith, SameTurns

(* A stamp less than a turn away is its own distance. *)
LEMMA WrapIs ==
  ASSUME NEW x \in Int, NEW d \in Int, Same(x, d), 0 <= d, d < ClockModulus
  PROVE  Wrap(x) = d
<1>. DEFINE M == ClockModulus
<1>1. M \in Nat \ {0} /\ d \in 0..(M - 1)
  BY ClockAssumption
<1>2. PICK k \in Int : x = d + k * M
  BY SameTurns
<1>3. PICK j \in Int : x = Wrap(x) + j * M
  BY WrapTurns
<1>4. Wrap(x) \in 0..(M - 1)
  BY WrapTurns
<1>. QED  BY <1>1, <1>2, <1>3, <1>4, TurnsAgree

(* static_cast<int32_t> orders stamps less than half a turn apart. *)
LEMMA DueIff ==
  ASSUME NEW now \in Int, NEW deadline \in Int, NEW d \in Int,
         Same(now - deadline, d), 2 * d < ClockModulus, -ClockModulus <= 2 * d
  PROVE  (Due(now, deadline) <=> d >= 0) /\ (After(now, deadline) <=> d > 0)
<1>. DEFINE M == ClockModulus
            x == now - deadline
<1>1. M \in Nat \ {0} /\ x \in Int
  BY ClockAssumption
<1>2. CASE d >= 0
  <2>1. Wrap(x) = d
    BY <1>1, <1>2, WrapIs
  <2>. QED  BY <1>1, <1>2, <2>1 DEF Due, After
<1>3. CASE d < 0
  <2>1. PICK k \in Int : x = d + k * M
    BY <1>1, SameTurns
  <2>2. k - 1 \in Int /\ (k - 1) * M = k * M - M /\ k * M \in Int
    BY <1>1
  <2>3. x = (d + M) + (k - 1) * M /\ d + M \in Int
    BY <1>1, <2>1, <2>2
  <2>4. Same(x, d + M)
    BY <1>1, <2>2, <2>3, SameTurns
  <2>5. Wrap(x) = d + M
    BY <1>1, <1>3, <2>3, <2>4, WrapIs
  <2>. QED  BY <1>1, <1>3, <2>5 DEF Due, After
<1>. QED  BY <1>1, <1>2, <1>3

-------------------------------------------------------------------------------
(***************************************************************************)
(* True time and the stamps.  The open event's stamp is as old as quiet    *)
(* says, up to whole turns of the clock, and no older than its deadline    *)
(* and one stall of the main loop allow, so that the clock orders them.    *)
(***************************************************************************)
EventTimed(a, now, q, late, saturated) ==
  a.present =>
  \/ /\ a.state = "armed"
     /\ saturated \/ \E ttl \in Ttls : Same(a.timer, now - q + ttl) /\ q <= ttl + late
  \/ a.state = "pouring" /\ Same(a.timer, now - q) /\ q <= FlowGap + late
  \/ /\ a.state = "settling"
     /\ Same(a.timer, now - q + (FlowGap + Settling)) /\ q <= FlowGap + Settling + late

(* a and b: the age of the first and of the last edge of the batch. *)
BatchAged(a, b) ==
  /\ b <= a
  /\ Same(pending.first, clock - a) /\ Same(pending.last, clock - b)
  /\ m.active.present => a <= quiet
  /\ pending.count = 1 /\ ~pending.saturated => pending.first = pending.last

Punctual ==
  /\ stall <= MaxStall
  /\ EventTimed(m.active, clock, quiet, stall, m.lifetime = MaxLifetime)
  /\ pending.count > 0 => \E a \in 0..stall, b \in 0..stall : BatchAged(a, b)

LEMMA Timers ==
  /\ ClockModulus \in Nat \ {0} /\ FlowGap \in Nat /\ Settling \in Nat
  /\ 2 * (FlowGap + Settling) < ClockModulus
  /\ MaxStall \in Nat /\ 2 * MaxStall < ClockModulus
  /\ \A ttl \in Ttls : ttl \in Nat /\ 2 * ttl < ClockModulus
BY ClockAssumption, StallAssumption

(* A deadline and a stamp compare as their true ages do. *)
LEMMA StampAge ==
  ASSUME NEW x \in Int, NEW timer \in Int, NEW now \in Int,
         NEW q \in Int, NEW b \in Int, NEW D \in Nat,
         Same(x, now - b), Same(timer, now - q + D),
         b <= q, q - b - D <= MaxStall, 2 * D < ClockModulus
  PROVE  (Due(x, timer) <=> q - b >= D) /\ (After(x, timer) <=> q - b > D)
<1>. DEFINE d == q - b - D
<1>1. Same(x - timer, (now - b) - timer)
  <2>1. -timer \in Int /\ now - b \in Int
    OBVIOUS
  <2>2. Same(x + (-timer), (now - b) + (-timer))
    BY <2>1, SameArith
  <2>. QED  BY <2>2
<1>2. Same((now - b) - timer, (now - b) - (now - q + D))
  <2>1. now - b \in Int /\ now - q + D \in Int
    OBVIOUS
  <2>. QED  BY <2>1, SameArith
<1>3. (now - b) - (now - q + D) = d /\ d \in Int /\ x - timer \in Int /\ (now - b) - timer \in Int
  OBVIOUS
<1>. HIDE DEF d
<1>4. Same(x - timer, d)
  BY <1>1, <1>2, <1>3, SameTrans
<1>5. 2 * d < ClockModulus /\ -ClockModulus <= 2 * d
  BY Timers DEF d
<1>6. (Due(x, timer) <=> d >= 0) /\ (After(x, timer) <=> d > 0)
  BY <1>3, <1>4, <1>5, DueIff
<1>. QED  BY <1>6 DEF d

(* The two deadlines of a pouring event. *)
LEMMA PourDeadlines ==
  ASSUME NEW a \in Active, NEW now \in Int, NEW q \in Int, Same(a.timer, now - q)
  PROVE  /\ GapAt(a) \in Int /\ Same(GapAt(a), now - q + FlowGap)
         /\ SettledAt(a) \in Int /\ Same(SettledAt(a), now - q + (FlowGap + Settling))
<1>1. a.timer \in Int /\ FlowGap \in Int /\ Settling \in Int
  BY Timers DEF Active, Times
<1>. DEFINE g == GapAt(a)
<1>2. g \in Int /\ Same(g, now - q + FlowGap)
  <2>1. Same(Wrap(a.timer + FlowGap), a.timer + FlowGap) /\ Wrap(a.timer + FlowGap) \in Int
    BY <1>1, SameWrap
  <2>2. Same(a.timer + FlowGap, (now - q) + FlowGap)
    BY <1>1, SameArith
  <2>. QED  BY <1>1, <2>1, <2>2, SameTrans DEF GapAt
<1>. HIDE DEF g
<1>3. Same(Wrap(g + Settling), g + Settling) /\ Wrap(g + Settling) \in Int
  BY <1>1, <1>2, SameWrap
<1>4. Same(g + Settling, (now - q + FlowGap) + Settling)
  BY <1>1, <1>2, SameArith
<1>5. (now - q + FlowGap) + Settling = now - q + (FlowGap + Settling)
  BY <1>1
<1>6. Same(Wrap(g + Settling), now - q + (FlowGap + Settling))
  BY <1>1, <1>2, <1>3, <1>4, <1>5, SameTrans
<1>. QED  BY <1>2, <1>3, <1>6 DEF g, SettledAt

(* A tick ends the open event on time, or leaves it ahead of its deadline. *)
LEMMA TickTimed ==
  ASSUME NEW d, GoodMachine(d), NEW now \in Int, NEW q \in Nat,
         NEW late \in Nat, late <= MaxStall, NEW saturated \in BOOLEAN,
         EventTimed(d.active, now, q, late, saturated)
  PROVE  LET t == Tick(d, now)
         IN  /\ EventTimed(t.active, now, q, 0, saturated)
             /\ Ends(d, t, "complete") => q >= FlowGap + Settling
             /\ Ends(d, t, "timed_out") =>
                  saturated \/ \E ttl \in Ttls : Same(d.active.timer, now - q + ttl) /\ q >= ttl
<1>. DEFINE t == Tick(d, now)
            a == d.active
            b == t.active
<1>1. a \in Active /\ a.timer \in Int
  BY GoodFields
<1>3. ASSUME NEW D \in Nat, NEW timer \in Int, Same(timer, now - q + D),
             q <= D + late, 2 * D < ClockModulus
      PROVE  Due(now, timer) <=> q >= D
  <2>. DEFINE e == q - D
              y == now - q + D
  <2>1. e \in Int /\ y \in Int /\ now - y = e /\ 2 * e < ClockModulus /\ -ClockModulus <= 2 * e
    BY <1>3, Timers
  <2>2. Same(timer, y)
    BY <1>3
  <2>. HIDE DEF e, y
  <2>3. Same(now - timer, e)
    BY <2>1, <2>2, SameArith
  <2>4. Due(now, timer) <=> e >= 0
    BY <2>1, <2>3, DueIff
  <2>. QED  BY <2>4 DEF e
<1>4. /\ Ends(d, t, "timed_out") =>
           a.present /\ a.state = "armed" /\ Due(now, a.timer)
      /\ Ends(d, t, "complete") =>
           /\ a.present
           /\ \/ a.state = "pouring" /\ Due(now, GapAt(a)) /\ Due(now, SettledAt(a))
              \/ a.state = "settling" /\ Due(now, a.timer)
      /\ b.present =>
           \/ b = a /\ a.state = "armed" /\ ~Due(now, a.timer)
           \/ b = a /\ a.state = "pouring" /\ ~Due(now, GapAt(a))
           \/ b = a /\ a.state = "settling" /\ ~Due(now, a.timer)
           \/ /\ a.state = "pouring" /\ Due(now, GapAt(a))
              /\ b.state = "settling" /\ b.timer = SettledAt(a)
              /\ ~Due(now, SettledAt(a))
  BY TickEnds
<1>5. b.present => a.present
  BY TickEnds
<1>. HIDE DEF t, a
<1>6. CASE ~a.present
  BY <1>4, <1>5, <1>6 DEF t, a, EventTimed
<1>7. CASE a.present /\ a.state = "armed"
  <2>1. \A ttl \in Ttls : Same(a.timer, now - q + ttl) /\ q <= ttl + late =>
          (Due(now, a.timer) <=> q >= ttl) /\ ttl \in Nat
    BY <1>1, <1>3, Timers
  <2>2. saturated \/ \E ttl \in Ttls : Same(a.timer, now - q + ttl) /\ q <= ttl + late
    BY <1>7 DEF EventTimed, a
  <2>3. ~Due(now, a.timer) =>
          saturated \/ \E ttl \in Ttls : Same(a.timer, now - q + ttl) /\ q <= ttl + 0
    BY <2>1, <2>2
  <2>4. Due(now, a.timer) =>
          saturated \/ \E ttl \in Ttls : Same(a.timer, now - q + ttl) /\ q >= ttl
    BY <2>1, <2>2
  <2>. QED  BY <1>4, <1>7, <2>3, <2>4 DEF EventTimed, t, a
<1>8. CASE a.present /\ a.state = "settling"
  <2>1. Due(now, a.timer) <=> q >= FlowGap + Settling
    BY <1>1, <1>3, <1>8, Timers DEF EventTimed, a
  <2>2. Same(a.timer, now - q + (FlowGap + Settling))
    BY <1>8 DEF EventTimed, a
  <2>. QED  BY <1>4, <1>8, <2>1, <2>2, Timers DEF EventTimed, t, a
<1>9. CASE a.present /\ a.state = "pouring"
  <2>1. Same(a.timer, now - q) /\ q <= FlowGap + late
    BY <1>9 DEF EventTimed, a
  <2>2. /\ GapAt(a) \in Int /\ Same(GapAt(a), now - q + FlowGap)
        /\ SettledAt(a) \in Int /\ Same(SettledAt(a), now - q + (FlowGap + Settling))
    BY <1>1, <2>1, PourDeadlines
  <2>3. Due(now, GapAt(a)) <=> q >= FlowGap
    <3>1. FlowGap \in Nat /\ 2 * FlowGap < ClockModulus
      BY Timers
    <3>. QED  BY <1>3, <2>1, <2>2, <3>1
  <2>4. Due(now, SettledAt(a)) <=> q >= FlowGap + Settling
    <3>. DEFINE D == FlowGap + Settling
    <3>1. D \in Nat /\ 2 * D < ClockModulus /\ q <= D + late
      BY <2>1, Timers
    <3>2. Same(SettledAt(a), now - q + D)
      BY <2>2
    <3>. HIDE DEF D
    <3>3. Due(now, SettledAt(a)) <=> q >= D
      BY <1>3, <2>2, <3>1, <3>2
    <3>. QED  BY <3>3 DEF D
  <2>. QED  BY <1>4, <1>9, <2>1, <2>2, <2>3, <2>4, Timers DEF EventTimed, t, a
<1>. QED  BY <1>6, <1>7, <1>8, <1>9 DEF EventTimed, a

Timely == Audited /\ Punctual

(* What the batch ends, and what it leaves open. *)
LEMMA DrainedEnds ==
  ASSUME Audited, pending.count # 0,
         pending.count = 1 /\ ~pending.saturated => pending.first = pending.last
  PROVE  /\ Ends(m, Drained, "complete") =>
              /\ m.active.present /\ m.active.state = "settling"
              /\ After(pending.first, m.active.timer)
         /\ Ends(m, Drained, "timed_out") =>
              \/ Drained.lifetime = MaxLifetime
              \/ /\ m.active.present /\ m.active.state = "armed"
                 /\ After(pending.first, m.active.timer)
         /\ Drained.active.present =>
              \/ Drained.active.state = "pouring" /\ Drained.active.timer = pending.last
              \/ Drained = m /\ m.active.state = "armed" /\ m.lifetime = MaxLifetime
<1>. DEFINE batch == AddBatch(m, pending.count, pending.first, pending.last)
            s == MarkSaturated(batch)
<1>1. /\ Solvent(m) /\ GoodMachine(m)
      /\ pending.count \in Nat \ {0} /\ pending.count <= MaxResultPulses
      /\ pending.first \in Int /\ pending.last \in Int /\ pending.saturated \in BOOLEAN
  BY PendingAssumption DEF Audited, Inv, TypeOK, Pending, Times, Solvent
<1>2. /\ Ends(m, batch, "complete") =>
           /\ m.active.present /\ m.active.state = "settling"
           /\ After(pending.first, m.active.timer)
      /\ Ends(m, batch, "timed_out") =>
           \/ batch.lifetime = MaxLifetime
           \/ /\ m.active.present /\ m.active.state = "armed"
              /\ After(pending.first, m.active.timer)
      /\ batch.active.present /\ batch.active.pulses # 0 =>
           /\ batch.active.state = "pouring"
           /\ batch.active.timer = IF pending.count = 1 THEN pending.first ELSE pending.last
  BY <1>1, BatchEnds
<1>3. /\ Extends(m, batch)
      /\ batch.active.present /\ batch.active.pulses = 0 => batch = m /\ m.lifetime = MaxLifetime
  BY <1>1, AddBatchExtends
<1>4. GoodMachine(batch) /\ Solvent(batch)
  BY <1>1, <1>3, SolventExtends DEF Solvent
<1>. HIDE DEF batch
<1>5. CASE ~pending.saturated
  <2>1. Drained = batch
    BY <1>1, <1>5 DEF Drained, batch
  <2>2. batch.active.present /\ batch.active.pulses = 0 => m.active.state = "armed"
    BY <1>1, <1>3, GoodFields
  <2>. QED  BY <1>2, <1>3, <1>5, <2>1, <2>2
<1>6. CASE pending.saturated
  <2>1. Drained = s
    BY <1>1, <1>6 DEF Drained, batch
  <2>2. \A e : Ends(batch, s, e) => e = "interrupted"
    BY <1>4, FinalizeEnds DEF MarkSaturated
  <2>3. ~s.active.present
    BY <1>4, FinalizeEnds DEF MarkSaturated
  <2>4. s.lifetime = batch.lifetime
    BY <1>4, GoodFields, FinalizeCounters DEF MarkSaturated
  <2>5. Extends(batch, s)
    <3>1. batch.active.present /\ batch.active.pulses = 0 => batch.lifetime = MaxLifetime
      BY <1>3
    <3>. QED  BY <1>4, <3>1, FinalizeExtends DEF MarkSaturated, TerminalStates
  <2>. HIDE DEF s
  <2>6. \A e \in {"complete", "timed_out"} : Ends(m, s, e) => Ends(m, batch, e)
    BY <1>1, <1>3, <2>2, <2>5, EndsTrans
  <2>. QED  BY <1>2, <2>1, <2>3, <2>4, <2>6
<1>. QED  BY <1>1, <1>5, <1>6

(* The age of the last edge, while the main loop keeps its pace. *)
LEMMA EdgeAge ==
  ASSUME Inv, Punctual, NEW x \in Int, NEW a \in 0..stall, Same(x, clock - a)
  PROVE  Wrap(clock - x) = a
<1>1. clock \in Int /\ stall \in Nat /\ stall <= MaxStall /\ a \in Int
  BY DEF Inv, TypeOK, Times, Punctual
<1>2. Same(clock - x, clock - (clock - a)) /\ clock - (clock - a) = a
  BY <1>1, SameArith
<1>. QED  BY <1>1, <1>2, WrapIs, Timers

(* The batch leaves an event whose stamp is as old as QuietAfterDrain. *)
LEMMA DrainTimed ==
  ASSUME Timely
  PROVE  EventTimed(Drained.active, clock, QuietAfterDrain, stall,
                    Drained.lifetime = MaxLifetime)
<1>1. Audited /\ Inv /\ Punctual
  BY DEF Timely, Audited
<1>2. CASE pending.count = 0
  BY <1>1, <1>2 DEF Punctual, Drained, QuietAfterDrain
<1>3. CASE pending.count # 0
  <2>1. pending.count \in Nat /\ pending.last \in Int /\ clock \in Int
    BY <1>1 DEF Inv, TypeOK, Pending, Times
  <2>2. PICK a \in 0..stall, b \in 0..stall : BatchAged(a, b)
    BY <1>1, <1>3, <2>1 DEF Punctual
  <2>3. QuietAfterDrain = b /\ b <= FlowGap + stall
    <3>1. Wrap(clock - pending.last) = b
      BY <1>1, <2>1, <2>2, EdgeAge DEF BatchAged
    <3>. QED  BY <1>1, <1>3, <3>1, Timers DEF QuietAfterDrain, Inv, TypeOK
  <2>4. Drained.active.present =>
          \/ Drained.active.state = "pouring" /\ Drained.active.timer = pending.last
          \/ Drained = m /\ m.active.state = "armed" /\ m.lifetime = MaxLifetime
    BY <1>1, <1>3, <2>2, DrainedEnds DEF BatchAged
  <2>. QED  BY <2>2, <2>3, <2>4 DEF EventTimed, BatchAged
<1>. QED  BY <1>2, <1>3

(* An event ends on time, whether the batch ends it or the tick after it.  *)
Silent == IF pending.count = 0 THEN quiet >= FlowGap + Settling
          ELSE \/ QuietUntil(pending.first) > FlowGap + Settling
               \/ QuietAfterDrain >= FlowGap + Settling
Expired == \E ttl \in Ttls :
             IF pending.count = 0 THEN quiet >= ttl ELSE QuietUntil(pending.first) > ttl

(* An event the first edge of the batch is too late for is over. *)
LEMMA FirstIsLate ==
  ASSUME Timely, pending.count # 0, m.active.present,
         After(pending.first, m.active.timer)
  PROVE  /\ m.active.state = "settling" => QuietUntil(pending.first) > FlowGap + Settling
         /\ m.active.state = "armed" /\ m.lifetime # MaxLifetime => Expired
<1>1. Inv /\ Punctual
  BY DEF Timely, Audited
<1>2. /\ pending.count \in Nat /\ pending.first \in Int /\ clock \in Int /\ quiet \in Nat
      /\ stall \in Nat /\ stall <= MaxStall /\ m.active.timer \in Int
  BY <1>1, GoodFields DEF Inv, TypeOK, Pending, Times, Punctual
<1>3. PICK a \in 0..stall, b \in 0..stall : BatchAged(a, b)
  BY <1>1, <1>2 DEF Punctual
<1>4. a \in Int /\ a <= quiet /\ Same(pending.first, clock - a) /\ quiet \in Int
  BY <1>2, <1>3 DEF BatchAged
<1>5. QuietUntil(pending.first) = quiet - a
  <2>1. Wrap(clock - pending.first) = a
    BY <1>1, <1>2, <1>4, EdgeAge
  <2>. QED  BY <2>1 DEF QuietUntil
<1>6. ASSUME NEW D \in Nat, Same(m.active.timer, clock - quiet + D),
             quiet <= D + stall, 2 * D < ClockModulus
      PROVE  quiet - a > D
  <2>1. quiet - a - D <= MaxStall
    BY <1>2, <1>4, <1>6, Timers
  <2>2. After(pending.first, m.active.timer) <=> quiet - a > D
    BY <1>2, <1>4, <1>6, <2>1, StampAge
  <2>. QED  BY <2>2
<1>7. EventTimed(m.active, clock, quiet, stall, m.lifetime = MaxLifetime)
  BY <1>1 DEF Punctual
<1>8. CASE m.active.state = "settling"
  <2>. DEFINE D == FlowGap + Settling
  <2>1. D \in Nat /\ 2 * D < ClockModulus
    BY Timers
  <2>2. Same(m.active.timer, clock - quiet + D) /\ quiet <= D + stall
    BY <1>7, <1>8 DEF EventTimed
  <2>. HIDE DEF D
  <2>3. quiet - a > D
    BY <1>6, <2>1, <2>2
  <2>. QED  BY <1>5, <1>8, <2>3 DEF D
<1>9. CASE m.active.state = "armed" /\ m.lifetime # MaxLifetime
  <2>1. PICK ttl \in Ttls : Same(m.active.timer, clock - quiet + ttl) /\ quiet <= ttl + stall
    BY <1>7, <1>9 DEF EventTimed
  <2>2. quiet - a > ttl
    BY <1>6, <2>1, Timers
  <2>. QED  BY <1>5, <1>9, <2>2 DEF Expired
<1>. QED  BY <1>8, <1>9

LEMMA EndsOnTime ==
  ASSUME Timely, NEW status
  PROVE  LET t == Tick(Drained, clock)
         IN  Ends(m, Drained, status) \/ Ends(Drained, t, status) =>
               /\ status = "complete" => Silent
               /\ status = "timed_out" /\ Drained.lifetime < MaxLifetime => Expired
<1>. DEFINE d == Drained
            t == Tick(d, clock)
<1>1. Audited /\ Inv /\ Punctual /\ Solvent(m) /\ GoodMachine(m)
  BY DEF Timely, Audited, Solvent
<1>2. Extends(m, d) /\ GoodMachine(d)
  BY <1>1, DrainedExtends DEF Extends
<1>3. /\ m.lifetime \in 0..MaxLifetime /\ d.lifetime \in 0..MaxLifetime
      /\ m.lifetime <= d.lifetime
  BY <1>1, <1>2, HeldIsNat DEF Extends, Pays
<1>4. ASSUME Ends(m, d, status), status \in {"complete", "timed_out"}
      PROVE  /\ status = "complete" => Silent
             /\ status = "timed_out" /\ d.lifetime < MaxLifetime => Expired
  <2>1. pending.count # 0
    <3>1. Added(m, m) = {}
      BY <1>1, HeldIsNat DEF Added
    <3>. QED  BY <1>4, <3>1 DEF Drained, Ends
  <2>2. pending.count = 1 /\ ~pending.saturated => pending.first = pending.last
    BY <1>1, <2>1 DEF Punctual, BatchAged, Inv, TypeOK, Pending
  <2>3. /\ status = "complete" =>
             /\ m.active.present /\ m.active.state = "settling"
             /\ After(pending.first, m.active.timer)
        /\ status = "timed_out" =>
             \/ d.lifetime = MaxLifetime
             \/ /\ m.active.present /\ m.active.state = "armed"
                /\ After(pending.first, m.active.timer)
    BY <1>1, <1>4, <2>1, <2>2, DrainedEnds
  <2>. HIDE DEF d
  <2>4. status = "complete" => Silent
    BY <2>1, <2>3, FirstIsLate DEF Silent
  <2>5. status = "timed_out" /\ d.lifetime < MaxLifetime => Expired
    BY <1>3, <2>1, <2>3, FirstIsLate
  <2>. QED  BY <2>4, <2>5
<1>5. ASSUME Ends(d, t, status), status \in {"complete", "timed_out"}
      PROVE  /\ status = "complete" => Silent
             /\ status = "timed_out" /\ d.lifetime < MaxLifetime => Expired
  <2>1. /\ QuietAfterDrain \in Nat /\ clock \in Int /\ stall \in Nat /\ stall <= MaxStall
    BY <1>1, DrainedGood DEF Inv, TypeOK, Times, Punctual
  <2>. DEFINE full == d.lifetime = MaxLifetime
  <2>2. EventTimed(d.active, clock, QuietAfterDrain, stall, full)
    BY DrainTimed
  <2>3. /\ status = "complete" => QuietAfterDrain >= FlowGap + Settling
        /\ status = "timed_out" => full \/ \E ttl \in Ttls :
             Same(d.active.timer, clock - QuietAfterDrain + ttl) /\ QuietAfterDrain >= ttl
    <3>1. full \in BOOLEAN
      OBVIOUS
    <3>. HIDE DEF d, full
    <3>. QED  BY <1>2, <1>5, <2>1, <2>2, <3>1, TickTimed
  <2>4. status = "complete" => Silent
    BY <2>3 DEF Silent, QuietAfterDrain
  <2>5. ASSUME status = "timed_out", d.lifetime < MaxLifetime PROVE Expired
    <3>1. d.active.present /\ d.active.state = "armed"
      BY <1>2, <1>5, <2>1, <2>5, TickEnds
    <3>2. pending.count = 0
      <4>. SUFFICES ASSUME pending.count # 0 PROVE FALSE
        OBVIOUS
      <4>1. pending.count = 1 /\ ~pending.saturated => pending.first = pending.last
        BY <1>1 DEF Punctual, BatchAged, Inv, TypeOK, Pending
      <4>2. \/ d.active.state = "pouring"
            \/ d = m /\ m.lifetime = MaxLifetime
        BY <1>1, <3>1, <4>1, DrainedEnds
      <4>. QED  BY <1>3, <2>5, <3>1, <4>2
    <3>3. QuietAfterDrain = quiet
      BY <3>2 DEF QuietAfterDrain
    <3>. HIDE DEF d
    <3>. QED  BY <1>3, <2>3, <2>5, <3>2, <3>3 DEF Expired
  <2>. QED  BY <2>4, <2>5
<1>. QED  BY <1>4, <1>5

LEMMA TimedLater ==
  ASSUME NEW a, NEW now, NEW q, NEW late \in Nat, NEW saturated,
         EventTimed(a, now, q, 0, saturated), q \in Nat
  PROVE  EventTimed(a, now, q, late, saturated)
BY Timers DEF EventTimed

(* The machine after the batch and the tick, and what a command makes of it. *)
LEMMA TickedTimed ==
  ASSUME Timely
  PROVE  LET t == Tick(Drained, clock)
         IN  /\ EventTimed(t.active, clock, QuietAfterDrain, 0, t.lifetime = MaxLifetime)
             /\ GoodMachine(t) /\ t.lifetime = Drained.lifetime
<1>. DEFINE d == Drained
            t == Tick(d, clock)
            full == d.lifetime = MaxLifetime
<1>1. Inv /\ Punctual
  BY DEF Timely, Audited
<1>2. /\ QuietAfterDrain \in Nat /\ clock \in Int /\ stall \in Nat /\ stall <= MaxStall
      /\ GoodMachine(d)
  BY <1>1, DrainedGood DEF Inv, TypeOK, Times, Punctual
<1>3. EventTimed(d.active, clock, QuietAfterDrain, stall, full)
  BY DrainTimed
<1>4. full \in BOOLEAN
  OBVIOUS
<1>. HIDE DEF d
<1>5. GoodMachine(t) /\ t.lifetime = d.lifetime
  BY <1>2, TickGood
<1>. HIDE DEF full
<1>6. EventTimed(t.active, clock, QuietAfterDrain, 0, full)
  BY <1>2, <1>3, <1>4, TickTimed
<1>. QED  BY <1>5, <1>6 DEF full, d

LEMMA InitTimely == Init => Timely
<1>. SUFFICES ASSUME Init PROVE Timely
  OBVIOUS
<1>1. Audited
  BY InitAudited
<1>2. Punctual
  BY Timers DEF Init, Punctual, EventTimed, NewMachine, NoActive, NoPending
<1>. QED  BY <1>1, <1>2 DEF Timely

LEMMA PulseIsrTimely ==
  ASSUME Timely, PulseIsr
  PROVE  Punctual'
<1>1. Inv /\ Punctual
  BY DEF Timely, Audited
<1>2. /\ m' = m /\ clock' = clock /\ stall' = stall /\ quiet' = quiet
      /\ pending.count \in Nat /\ stall \in Nat /\ quiet \in Nat /\ clock \in Int
      /\ pending \in Pending /\ pending.first \in Int /\ pending.last \in Int
  BY <1>1 DEF PulseIsr, Inv, TypeOK, Pending, Times
<1>3. Same(clock, clock - 0)
  <2>1. Same(clock, clock) /\ clock - 0 = clock
    BY <1>2, SameWrap
  <2>. QED  BY <2>1
<1>4. 0 \in 0..stall
  BY <1>2
<1>5. pending'.last = clock
  BY <1>2 DEF PulseIsr, Pending
<1>6. \E a \in 0..stall : \E b \in 0..stall : BatchAged(a, b)'
  <2>1. CASE pending.count = 0
    <3>1. pending'.first = clock
      BY <1>2, <2>1, PendingAssumption DEF PulseIsr, Pending
    <3>2. BatchAged(0, 0)'
      BY <1>2, <1>3, <1>5, <3>1 DEF BatchAged
    <3>. QED  BY <1>4, <3>2
  <2>2. CASE pending.count # 0
    <3>1. PICK a \in 0..stall, b \in 0..stall : BatchAged(a, b)
      BY <1>1, <1>2, <2>2 DEF Punctual
    <3>2. /\ pending'.first = pending.first
          /\ ~(pending'.count = 1 /\ ~pending'.saturated)
      <4>1. CASE pending.count = MaxPending
        BY <1>2, <2>2, <4>1 DEF PulseIsr, Pending
      <4>2. CASE pending.count # MaxPending
        BY <1>2, <2>2, <4>2 DEF PulseIsr, Pending
      <4>. QED  BY <4>1, <4>2
    <3>3. BatchAged(a, 0)'
      BY <1>2, <1>3, <1>5, <3>1, <3>2 DEF BatchAged
    <3>. QED  BY <1>4, <3>3
  <2>. QED  BY <2>1, <2>2
<1>. QED  BY <1>1, <1>2, <1>6 DEF Punctual

(* Everything is one older. *)
LEMMA ClockTickTimely ==
  ASSUME Timely, ClockTick
  PROVE  Punctual'
<1>1. Inv /\ Punctual
  BY DEF Timely, Audited
<1>2. /\ m' = m /\ pending' = pending /\ stall' = stall + 1 /\ stall < MaxStall
      /\ clock' = Wrap(clock + 1)
      /\ quiet' = IF m.active.present /\ quiet < ClockModulus THEN quiet + 1 ELSE quiet
      /\ pending.count \in Nat /\ stall \in Nat /\ quiet \in Nat /\ clock \in Int
      /\ pending.first \in Int /\ pending.last \in Int
  BY <1>1 DEF ClockTick, Inv, TypeOK, Pending, Times
<1>3. m.active.present => m.active.timer \in Int
  BY <1>1, GoodFields DEF Inv
<1>4. clock' \in Int /\ Same(clock', clock + 1)
  BY <1>2, SameWrap
<1>5. ASSUME NEW x \in Int, NEW c \in Int, Same(x, clock + c)
      PROVE  Same(x, clock' + (c - 1))
  <2>. DEFINE y == clock + 1
              k == c - 1
  <2>1. y \in Int /\ k \in Int /\ y + k = clock + c /\ clock' + k \in Int
    BY <1>2, <1>4
  <2>2. Same(clock', y)
    BY <1>4
  <2>. HIDE DEF y, k
  <2>3. Same(y + k, clock' + k)
    BY <1>4, <2>1, <2>2, SameArith
  <2>4. Same(x, y + k)
    BY <1>5, <2>1
  <2>5. Same(x, clock' + k)
    BY <2>1, <2>3, <2>4, SameTrans
  <2>. QED  BY <2>5 DEF k
<1>6. EventTimed(m.active, clock', quiet', stall', m.lifetime = MaxLifetime)
  <2>. SUFFICES ASSUME m.active.present,
                       ~(m.active.state = "armed" /\ m.lifetime = MaxLifetime)
                PROVE  EventTimed(m.active, clock', quiet', stall', m.lifetime = MaxLifetime)
    BY DEF EventTimed
  <2>1. EventTimed(m.active, clock, quiet, stall, m.lifetime = MaxLifetime)
    BY <1>1 DEF Punctual
  <2>2. quiet' = quiet + 1 /\ stall' = stall + 1 /\ FlowGap + Settling \in Nat
    <3>1. quiet < ClockModulus
      BY <1>2, <2>1, Timers DEF EventTimed
    <3>. QED  BY <1>2, <3>1, Timers
  <2>3. ASSUME NEW D \in Nat, Same(m.active.timer, clock - quiet + D)
        PROVE  Same(m.active.timer, clock' - quiet' + D)
    <3>. DEFINE c == D - quiet
    <3>1. c \in Int /\ clock - quiet + D = clock + c /\ clock' - quiet' + D = clock' + (c - 1)
      BY <1>2, <1>4, <2>2
    <3>. HIDE DEF c
    <3>. QED  BY <1>3, <1>5, <2>3, <3>1
  <2>4. Same(m.active.timer, clock - quiet) => Same(m.active.timer, clock' - quiet')
    <3>. DEFINE c == -quiet
    <3>1. c \in Int /\ clock - quiet = clock + c /\ clock' - quiet' = clock' + (c - 1)
      BY <1>2, <1>4, <2>2
    <3>. HIDE DEF c
    <3>. QED  BY <1>3, <1>5, <3>1
  <2>5. CASE m.active.state = "armed"
    <3>1. ASSUME NEW ttl \in Ttls, Same(m.active.timer, clock - quiet + ttl),
                 quiet <= ttl + stall
          PROVE  Same(m.active.timer, clock' - quiet' + ttl) /\ quiet' <= ttl + stall'
      BY <1>2, <2>3, <2>2, <3>1, Timers
    <3>. QED  BY <2>1, <2>5, <3>1 DEF EventTimed
  <2>6. CASE m.active.state = "pouring"
    <3>1. Same(m.active.timer, clock - quiet) /\ quiet <= FlowGap + stall
      BY <2>1, <2>6 DEF EventTimed
    <3>2. quiet' <= FlowGap + stall'
      BY <1>2, <2>2, <3>1, Timers
    <3>. QED  BY <2>4, <2>6, <3>1, <3>2 DEF EventTimed
  <2>7. CASE m.active.state = "settling"
    <3>1. /\ Same(m.active.timer, clock - quiet + (FlowGap + Settling))
          /\ quiet <= FlowGap + Settling + stall
      BY <2>1, <2>7 DEF EventTimed
    <3>2. quiet' <= FlowGap + Settling + stall'
      BY <1>2, <2>2, <3>1, Timers
    <3>. QED  BY <2>3, <2>2, <2>7, <3>1, <3>2 DEF EventTimed
  <2>. QED  BY <2>1, <2>5, <2>6, <2>7 DEF EventTimed
<1>7. pending.count > 0 => \E a \in 0..stall' : \E b \in 0..stall' : BatchAged(a, b)'
  <2>. SUFFICES ASSUME pending.count > 0
                PROVE  \E a \in 0..stall' : \E b \in 0..stall' : BatchAged(a, b)'
    OBVIOUS
  <2>1. PICK a \in 0..stall, b \in 0..stall : BatchAged(a, b)
    BY <1>1 DEF Punctual
  <2>2. /\ a \in Int /\ b \in Int /\ a + 1 \in 0..stall' /\ b + 1 \in 0..stall'
        /\ b + 1 <= a + 1 /\ (m.active.present => a + 1 <= quiet')
    <3>1. a \in Int /\ b \in Int /\ a + 1 \in 0..stall' /\ b + 1 \in 0..stall'
      BY <1>2
    <3>2. b <= a /\ (m.active.present => a <= quiet)
      BY <2>1 DEF BatchAged
    <3>3. a + 1 <= ClockModulus /\ ClockModulus \in Int
      BY <1>2, Timers
    <3>4. m.active.present => a + 1 <= quiet'
      BY <1>2, <3>1, <3>2, <3>3
    <3>. QED  BY <3>1, <3>2, <3>4
  <2>3. ASSUME NEW x \in Int, NEW e \in Int, Same(x, clock - e)
        PROVE  Same(x, clock' - (e + 1))
    <3>. DEFINE c == -e
    <3>1. c \in Int /\ clock - e = clock + c /\ clock' - (e + 1) = clock' + (c - 1)
      BY <1>2, <1>4
    <3>. HIDE DEF c
    <3>. QED  BY <1>5, <2>3, <3>1
  <2>4. BatchAged(a + 1, b + 1)'
    BY <1>2, <2>1, <2>2, <2>3 DEF BatchAged
  <2>. QED  BY <2>2, <2>4
<1>8. stall' <= MaxStall
  BY <1>2, Timers
<1>. QED  BY <1>2, <1>6, <1>7, <1>8 DEF Punctual

LEMMA NextTimely == Timely /\ [Next]_vars => Timely'
<1>. SUFFICES ASSUME Timely, [Next]_vars PROVE Timely'
  OBVIOUS
<1>. DEFINE d == Drained
            t == Tick(d, clock)
<1>1. Audited' /\ Inv /\ Punctual /\ Audited
  BY NextAudited DEF Timely, Audited
<1>2. /\ QuietAfterDrain \in Nat /\ clock \in Int /\ stall \in Nat /\ stall <= MaxStall
      /\ GoodMachine(d) /\ 0 \in Nat
  BY <1>1, DrainedGood DEF Inv, TypeOK, Times, Punctual
<1>3. /\ EventTimed(t.active, clock, QuietAfterDrain, 0, t.lifetime = MaxLifetime)
      /\ GoodMachine(t)
  BY TickedTimed
<1>4. EventTimed(d.active, clock, QuietAfterDrain, stall, d.lifetime = MaxLifetime)
  BY DrainTimed
<1>. HIDE DEF d, t
<1>5. EventTimed(t.active, clock, QuietAfterDrain, stall, t.lifetime = MaxLifetime)
  BY <1>2, <1>3, TimedLater
<1>6. NoPending.count = 0
  BY DEF NoPending
<1>7. ASSUME clock' = clock, stall' = stall \/ stall' = 0, pending' = NoPending,
             EventTimed(m'.active, clock, quiet', stall', m'.lifetime = MaxLifetime)
      PROVE  Punctual'
  BY <1>2, <1>6, <1>7, Timers DEF Punctual
<1>. SUFFICES Punctual'
  BY <1>1 DEF Timely
<1>8. CASE PulseIsr
  BY <1>8, PulseIsrTimely
<1>9. CASE ClockTick
  BY <1>9, ClockTickTimely
<1>10. CASE TickLinearized
  BY <1>3, <1>7, <1>10 DEF TickLinearized, t, d
<1>11. CASE DrainPulses \/ HandleResults
  BY <1>4, <1>7, <1>11 DEF DrainPulses, HandleResults, d
<1>12. ASSUME NEW seq \in 1..MaxSeq, NEW sid \in Sids, NEW ttl \in Ttls,
              HandleArm(seq, sid, ttl)
       PROVE  Punctual'
  <2>1. /\ m' = Arm(t, seq, sid, clock, ttl) /\ clock' = clock /\ stall' = stall
        /\ pending' = NoPending
        /\ quiet' = IF ArmReply(t, seq, sid) = "ok" THEN 0 ELSE QuietAfterDrain
    BY <1>12 DEF HandleArm, t, d
  <2>2. CASE ArmReply(t, seq, sid) # "ok"
    BY <1>5, <1>7, <2>1, <2>2 DEF Arm
  <2>3. CASE ArmReply(t, seq, sid) = "ok"
    <3>1. t \in Machine
      BY <1>3, GoodFields
    <3>2. m'.active.state = "armed" /\ m'.active.timer = Wrap(clock + ttl)
      BY <2>1, <2>3, <3>1 DEF Arm, Machine
    <3>3. Same(Wrap(clock + ttl), clock + ttl)
      BY <1>2, SameWrap, Timers
    <3>4. clock - 0 + ttl = clock + ttl /\ 0 <= ttl + stall
      BY <1>2, Timers
    <3>5. EventTimed(m'.active, clock, 0, stall, m'.lifetime = MaxLifetime)
      BY <3>2, <3>3, <3>4 DEF EventTimed
    <3>. QED  BY <1>7, <2>1, <2>3, <3>5
  <2>. QED  BY <2>2, <2>3
<1>13. ASSUME NEW seq \in 1..MaxSeq, NEW sid \in Sids, HandleCancel(seq, sid)
       PROVE  Punctual'
  <2>1. /\ m' = Cancel(t, seq, sid) /\ clock' = clock /\ stall' = stall
        /\ pending' = NoPending /\ quiet' = QuietAfterDrain
    BY <1>13 DEF HandleCancel, t, d
  <2>2. \/ m' = t
        \/ ~m'.active.present
    <3>1. t \in Machine /\ ~Finalize(t, "interrupted").active.present
      BY <1>3, GoodFields, FinalizeEnds
    <3>. QED  BY <2>1, <3>1 DEF Cancel, Machine, NoActive
  <2>3. EventTimed(m'.active, clock, quiet', stall', m'.lifetime = MaxLifetime)
    BY <1>5, <2>1, <2>2 DEF EventTimed
  <2>. QED  BY <1>7, <2>1, <2>3
<1>14. ASSUME NEW seq \in 1..MaxSeq, HandleAck(seq) PROVE Punctual'
  <2>1. /\ m' = Acknowledge(d, seq) /\ clock' = clock /\ stall' = stall
        /\ pending' = NoPending /\ quiet' = QuietAfterDrain
    BY <1>14 DEF HandleAck, d
  <2>2. d \in Machine
    BY <1>2, GoodFields
  <2>3. m'.active = d.active /\ m'.lifetime = d.lifetime
    BY <2>1, <2>2 DEF Acknowledge, Machine
  <2>. QED  BY <1>4, <1>7, <2>1, <2>3
<1>15. CASE Reset
  <2>1. EventTimed(NoActive, 0, 0, 0, FALSE) /\ NewMachine.active = NoActive
    BY DEF EventTimed, NoActive, NewMachine
  <2>. QED  BY <1>6, <1>15, <2>1, Timers
  DEF Reset, Punctual, EventTimed, NoActive, NewMachine
<1>16. CASE UNCHANGED vars
  BY <1>1, <1>16 DEF vars, Punctual, BatchAged
<1>. QED
  BY <1>8, <1>9, <1>10, <1>11, <1>12, <1>13, <1>14, <1>15, <1>16 DEF Next, Command

(* A result a step added was added by the batch or by the tick. *)
LEMMA ClosedEnds ==
  ASSUME NEW mm, Extends(m, mm), GoodMachine(m), NEW status,
         m'.results \in Seq(Result),
         \A i \in 1..Len(m'.results) : m'.results[i].status = status =>
            \E j \in 1..Len(mm.results) : mm.results[j] = m'.results[i],
         Closed(status)
  PROVE  Ends(m, mm, status)
<1>1. PICK i \in 1..Len(m'.results) :
        /\ m'.results[i].status = status
        /\ \A j \in 1..Len(m.results) : m.results[j].seq # m'.results[i].seq
  BY DEF Closed
<1>2. PICK j \in 1..Len(mm.results) : mm.results[j] = m'.results[i]
  BY <1>1
<1>3. Len(m.results) \in Nat /\ Len(mm.results) \in Nat /\ Len(m.results) <= Len(mm.results)
      /\ \A k \in 1..Len(m.results) : mm.results[k] = m.results[k]
  BY HeldIsNat DEF Extends, Longer
<1>4. ~(j <= Len(m.results))
  <2>. SUFFICES ASSUME j <= Len(m.results) PROVE FALSE
    OBVIOUS
  <2>1. j \in 1..Len(m.results)
    BY <1>2, <1>3
  <2>2. m.results[j].seq = m'.results[i].seq
    BY <1>2, <1>3, <2>1, Zenon
  <2>. QED  BY <1>1, <2>1, <2>2, Zenon
<1>5. j \in Added(m, mm)
  BY <1>2, <1>3, <1>4 DEF Added
<1>. QED  BY <1>1, <1>2, <1>5 DEF Ends

LEMMA NextOnTime ==
  ASSUME Timely, [Next]_vars
  PROVE  CompletesOnlyAfterSilence /\ TimesOutOnlyWithoutEdges
<1>. DEFINE d == Drained
            t == Tick(d, clock)
<1>1. /\ Audited /\ Inv /\ Solvent(m) /\ GoodMachine(m) /\ GoodMachine(m')
      /\ m'.results \in Seq(Result)
  <2>1. Audited /\ Audited'
    BY NextAudited DEF Timely
  <2>. QED  BY <2>1, GoodFields DEF Audited, Inv
<1>2. Extends(m, d) /\ Extends(m, t) /\ Extends(d, t) /\ Solvent(d) /\ GoodMachine(d)
      /\ GoodMachine(t) /\ t.lifetime = d.lifetime
  <2>1. Extends(m, d) /\ Extends(m, t)
    BY <1>1, DrainedExtends, TickedExtends
  <2>2. clock \in Int
    BY <1>1 DEF Inv, TypeOK, Times
  <2>. HIDE DEF d
  <2>3. Solvent(d) /\ GoodMachine(d)
    BY <1>1, <2>1, SolventExtends DEF Solvent
  <2>4. Extends(d, t) /\ GoodMachine(t) /\ t.lifetime = d.lifetime
    BY <2>2, <2>3, TickExtends, TickGood
  <2>. QED  BY <2>1, <2>3, <2>4
<1>3. \A status : Ends(m, d, status) \/ Ends(d, t, status) =>
         /\ status = "complete" => Silent
         /\ status = "timed_out" /\ d.lifetime < MaxLifetime => Expired
  BY EndsOnTime
<1>. HIDE DEF d, t
<1>4. \A status : Ends(m, t, status) => Ends(m, d, status) \/ Ends(d, t, status)
  BY <1>1, <1>2, EndsTrans
<1>. DEFINE From(mm) == \A status \in {"complete", "timed_out"} :
              \A i \in 1..Len(m'.results) : m'.results[i].status = status =>
                 \E j \in 1..Len(mm.results) : mm.results[j] = m'.results[i]
<1>5. ASSUME m'.lifetime = d.lifetime, From(d) \/ From(t)
      PROVE  CompletesOnlyAfterSilence /\ TimesOutOnlyWithoutEdges
  <2>1. \A status \in {"complete", "timed_out"} :
          Closed(status) => Ends(m, d, status) \/ Ends(d, t, status)
    <3>1. CASE From(d)
      <4>. SUFFICES ASSUME NEW status \in {"complete", "timed_out"}, Closed(status)
                    PROVE  Ends(m, d, status)
        OBVIOUS
      <4>1. \A i \in 1..Len(m'.results) : m'.results[i].status = status =>
               \E j \in 1..Len(d.results) : d.results[j] = m'.results[i]
        BY <3>1
      <4>. QED  BY <1>1, <1>2, <4>1, ClosedEnds
    <3>2. CASE From(t)
      <4>. SUFFICES ASSUME NEW status \in {"complete", "timed_out"}, Closed(status)
                    PROVE  Ends(m, t, status)
        BY <1>4
      <4>1. \A i \in 1..Len(m'.results) : m'.results[i].status = status =>
               \E j \in 1..Len(t.results) : t.results[j] = m'.results[i]
        BY <3>2
      <4>. QED  BY <1>1, <1>2, <4>1, ClosedEnds
    <3>. QED  BY <1>5, <3>1, <3>2
  <2>2. Closed("complete") => Silent
    BY <1>3, <2>1
  <2>3. Closed("timed_out") /\ m'.lifetime < MaxLifetime => Expired
    BY <1>3, <1>5, <2>1
  <2>4. CompletesOnlyAfterSilence
    BY <2>2 DEF CompletesOnlyAfterSilence, Silent
  <2>5. TimesOutOnlyWithoutEdges
    BY <2>3 DEF TimesOutOnlyWithoutEdges, Expired
  <2>. QED  BY <2>4, <2>5
<1>6. CASE m' = m
  <2>1. \A status : ~Closed(status)
    BY <1>6 DEF Closed
  <2>. QED  BY <2>1 DEF CompletesOnlyAfterSilence, TimesOutOnlyWithoutEdges
<1>7. CASE PulseIsr \/ ClockTick \/ UNCHANGED vars
  BY <1>6, <1>7 DEF PulseIsr, ClockTick, vars
<1>8. CASE TickLinearized
  <2>1. m' = t
    BY <1>8 DEF TickLinearized, t, d
  <2>. QED  BY <1>2, <1>5, <2>1
<1>9. CASE DrainPulses \/ HandleResults
  <2>1. m' = d
    BY <1>9 DEF DrainPulses, HandleResults, d
  <2>. QED  BY <1>5, <2>1
<1>10. ASSUME NEW seq \in 1..MaxSeq, NEW sid \in Sids, NEW ttl \in Ttls,
              HandleArm(seq, sid, ttl)
       PROVE  CompletesOnlyAfterSilence /\ TimesOutOnlyWithoutEdges
  <2>1. m' = Arm(t, seq, sid, clock, ttl) /\ t \in Machine
    BY <1>2, <1>10, GoodFields DEF HandleArm, t, d
  <2>2. m'.results = t.results /\ m'.lifetime = t.lifetime
    BY <2>1 DEF Arm, Machine
  <2>3. From(t)
    BY <2>2
  <2>. QED  BY <1>2, <1>5, <2>2, <2>3
<1>11. ASSUME NEW seq \in 1..MaxSeq, NEW sid \in Sids, HandleCancel(seq, sid)
       PROVE  CompletesOnlyAfterSilence /\ TimesOutOnlyWithoutEdges
  <2>1. m' = Cancel(t, seq, sid) /\ t \in Machine
    BY <1>2, <1>11, GoodFields DEF HandleCancel, t, d
  <2>2. \/ m'.results = t.results /\ m'.lifetime = t.lifetime
        \/ m' = Finalize(t, "interrupted") /\ t.active.pulses # 0
    BY <2>1 DEF Cancel, Machine
  <2>3. CASE m'.results = t.results /\ m'.lifetime = t.lifetime
    BY <1>2, <1>5, <2>3
  <2>4. CASE m' = Finalize(t, "interrupted") /\ t.active.pulses # 0
    <3>1. m'.lifetime = t.lifetime
      BY <2>1, <2>4, FinalizeCounters
    <3>2. Len(t.results) \in Nat /\ t.results \in Seq(Result)
      BY <1>2, HeldIsNat, GoodFields
    <3>3. \A e : Ends(t, m', e) => e = "interrupted"
      BY <1>2, <2>4, FinalizeEnds
    <3>4. \A i \in 1..Len(t.results) : m'.results[i] = t.results[i]
      <4>1. Extends(t, m')
        BY <1>2, <2>4, SolventExtends, FinalizeExtends DEF TerminalStates
      <4>. QED  BY <4>1 DEF Extends, Longer
    <3>5. From(t)
      <4>. SUFFICES ASSUME NEW status \in {"complete", "timed_out"},
                           NEW i \in 1..Len(m'.results), m'.results[i].status = status
                    PROVE  i \in 1..Len(t.results)
        BY <3>4
      <4>1. i \notin Added(t, m')
        BY <3>3 DEF Ends
      <4>. QED  BY <1>1, <3>2, <4>1 DEF Added
    <3>. QED  BY <1>2, <1>5, <3>1, <3>5
  <2>. QED  BY <2>2, <2>3, <2>4
<1>12. ASSUME NEW seq \in 1..MaxSeq, HandleAck(seq)
       PROVE  CompletesOnlyAfterSilence /\ TimesOutOnlyWithoutEdges
  <2>1. PICK i \in 1..Len(m.results) : m.results[i].seq = seq
    BY <1>12 DEF HandleAck
  <2>2. i \in 1..Len(d.results) /\ d.results[i] = m.results[i]
    <3>1. Len(m.results) \in Nat /\ Len(d.results) \in Nat
      BY <1>1, <1>2, HeldIsNat
    <3>. QED  BY <1>2, <2>1, <3>1 DEF Extends, Longer
  <2>3. m' = Acknowledge(d, d.results[i].seq)
    BY <1>12, <2>1, <2>2 DEF HandleAck, d
  <2>4. m'.results = Without(d.results, i) /\ m'.lifetime = d.lifetime
    BY <1>2, <2>2, <2>3, AcknowledgeRemoves
  <2>5. /\ Len(m'.results) = Len(d.results) - 1 /\ Len(d.results) \in Nat
        /\ \A j \in 1..Len(m'.results) : m'.results[j] = d.results[IF j < i THEN j ELSE j + 1]
    <3>1. d.results \in Seq(Result)
      BY <1>2, GoodFields
    <3>2. Len(d.results) \in Nat
      BY <3>1
    <3>. DEFINE w == Without(d.results, i)
    <3>3. /\ Len(w) = Len(d.results) - 1
          /\ \A j \in 1..Len(w) : w[j] = d.results[IF j < i THEN j ELSE j + 1]
      BY <2>2, <3>1, WithoutResult, Zenon
    <3>4. m'.results = w
      BY <2>4
    <3>. HIDE DEF w
    <3>. QED  BY <3>2, <3>3, <3>4
  <2>6. From(d)
    <3>. SUFFICES ASSUME NEW j \in 1..Len(m'.results)
                  PROVE  \E k \in 1..Len(d.results) : d.results[k] = m'.results[j]
      OBVIOUS
    <3>. DEFINE k == IF j < i THEN j ELSE j + 1
    <3>1. k \in 1..Len(d.results)
      BY <2>2, <2>5
    <3>2. d.results[k] = m'.results[j]
      BY <2>5
    <3>. QED  BY <3>1, <3>2
  <2>. QED  BY <1>5, <2>4, <2>6
<1>13. CASE Reset
  <2>1. Len(m'.results) = 0
    BY <1>13 DEF Reset, NewMachine
  <2>2. \A status : ~Closed(status)
    BY <2>1 DEF Closed
  <2>. QED  BY <2>2 DEF CompletesOnlyAfterSilence, TimesOutOnlyWithoutEdges
<1>. QED
  BY <1>7, <1>8, <1>9, <1>10, <1>11, <1>12, <1>13 DEF Next, Command

(* The sequence of a retained result is not the open event's. *)
Retired(mm, seq) == \E i \in 1..Len(mm.results) : mm.results[i].seq = seq

LEMMA RetiredIsClosed ==
  ASSUME NEW mm, GoodMachine(mm), NEW seq, Retired(mm, seq)
  PROVE  mm.active.seq # seq
<1>1. PICK i \in 1..Len(mm.results) : mm.results[i].seq = seq
  BY DEF Retired
<1>2. seq \in 1..(mm.next - 1) /\ mm.next \in Nat
  BY <1>1, HeldIsNat DEF GoodMachine, SequencesOrdered
<1>3. CASE mm.active.present
  <2>1. mm.active.seq \in 1..(mm.next - 1) /\ seq < mm.active.seq
    BY <1>1, <1>3 DEF GoodMachine, SequencesOrdered
  <2>. QED  BY <1>2, <2>1
<1>4. CASE ~mm.active.present
  <2>1. mm.active.seq = 0
    BY <1>4, GoodFields DEF NoActive
  <2>. QED  BY <1>2, <2>1
<1>. QED  BY <1>3, <1>4

LEMMA RetiredStays ==
  ASSUME NEW m1, GoodMachine(m1), NEW m2, Extends(m1, m2), NEW seq, Retired(m1, seq)
  PROVE  Retired(m2, seq)
<1>1. PICK i \in 1..Len(m1.results) : m1.results[i].seq = seq
  BY DEF Retired
<1>2. /\ Len(m1.results) \in Nat /\ Len(m2.results) \in Nat
      /\ Len(m1.results) <= Len(m2.results)
      /\ \A k \in 1..Len(m1.results) : m2.results[k] = m1.results[k]
  BY HeldIsNat DEF Extends, Longer
<1>3. i \in 1..Len(m2.results) /\ m2.results[i].seq = seq
  BY <1>1, <1>2
<1>. QED  BY <1>3 DEF Retired

(* An edge after the settle deadline retires the event. *)
LEMMA LateEdgeRetires ==
  ASSUME NEW mm, Solvent(mm), NEW count \in Nat \ {0}, NEW captured \in Int,
         mm.active.present, mm.active.state = "settling",
         After(captured, mm.active.timer)
  PROVE  Retired(AddPulses(mm, count, captured), mm.active.seq)
<1>. DEFINE t == TickIfLate(mm, captured)
            r == AddPulses(mm, count, captured)
            e == [seq |-> mm.active.seq, sid |-> mm.active.sid, status |-> "complete",
                  pulses |-> mm.active.pulses, life |-> mm.lifetime]
<1>1. GoodMachine(mm) /\ mm \in Machine /\ ~Full(mm) /\ mm.results \in Seq(Result)
  BY GoodFields, HeldIsNat DEF Solvent, Full
<1>2. t = Finalize(mm, "complete")
  <2>1. t = Tick(mm, captured) /\ Due(captured, mm.active.timer)
    BY DEF TickIfLate, After
  <2>2. Settle(mm, captured) = mm
    BY DEF Settle
  <2>. QED  BY <2>1, <2>2 DEF Tick
<1>3. t.results = Append(mm.results, e)
  BY <1>1, <1>2 DEF Finalize, Machine
<1>4. GoodMachine(t)
  BY <1>1, TickIfLateGood
<1>5. Interrupts(t.results, r.results)
  BY PulsesEnds
<1>6. t.results \in Seq(Result)
  BY <1>4, GoodFields
<1>. DEFINE n == Len(mm.results) + 1
<1>. HIDE DEF t, r
<1>7. n \in 1..Len(t.results) /\ t.results[n] = e /\ Len(t.results) \in Nat
  <2>1. \A S : mm.results \in Seq(S) /\ e \in S =>
          n \in 1..Len(Append(mm.results, e)) /\ Append(mm.results, e)[n] = e
    OBVIOUS
  <2>2. mm.results \in Seq(Result \cup {e}) /\ e \in Result \cup {e}
    BY <1>1
  <2>. QED  BY <1>3, <1>6, <2>1, <2>2
<1>8. n \in 1..Len(r.results) /\ r.results[n] = e
  <2>1. CASE r.results = t.results
    BY <1>7, <2>1
  <2>2. ASSUME NEW x, r.results = Append(t.results, x)
        PROVE  n \in 1..Len(r.results) /\ r.results[n] = e
    <3>1. t.results \in Seq(Result \cup {x}) /\ x \in Result \cup {x}
      BY <1>6
    <3>. QED  BY <1>7, <2>2, <3>1
  <2>. QED  BY <1>5, <2>1, <2>2 DEF Interrupts
<1>9. e.seq = mm.active.seq
  OBVIOUS
<1>. HIDE DEF e, n
<1>. QED  BY <1>8, <1>9 DEF Retired, r

(* A batch that begins after the settle deadline ends the settling event.  *)
LEMMA LateBatchCloses ==
  ASSUME Audited, pending.count # 0, m.active.present, m.active.state = "settling",
         After(pending.first, m.active.timer)
  PROVE  Drained.active.seq # m.active.seq
<1>. DEFINE one == AddPulses(m, 1, pending.first)
            two == AddPulses(one, pending.count - 1, pending.last)
            batch == AddBatch(m, pending.count, pending.first, pending.last)
            seq == m.active.seq
<1>1. /\ Solvent(m) /\ GoodMachine(m)
      /\ pending.count \in Nat \ {0} /\ pending.count <= MaxResultPulses
      /\ pending.first \in Int /\ pending.last \in Int
      /\ seq \in Nat \ {0}
  <2>1. /\ Solvent(m) /\ GoodMachine(m)
        /\ pending.count \in Nat \ {0} /\ pending.count <= MaxResultPulses
        /\ pending.first \in Int /\ pending.last \in Int
    BY PendingAssumption DEF Audited, Inv, TypeOK, Pending, Times, Solvent
  <2>2. m.active.seq \in 1..(m.next - 1) /\ m.next \in Nat
    BY <2>1, HeldIsNat DEF GoodMachine, SequencesOrdered
  <2>. QED  BY <2>1, <2>2
<1>2. Retired(one, seq)
  <2>1. 1 \in Nat \ {0}
    OBVIOUS
  <2>. QED  BY <1>1, <2>1, LateEdgeRetires
<1>3. Extends(m, one) /\ Solvent(one) /\ GoodMachine(one)
  <2>1. 1 \in Nat \ {0} /\ 1 <= MaxResultPulses
    OBVIOUS
  <2>2. Extends(m, one)
    BY <1>1, <2>1, AddPulsesExtends
  <2>. QED  BY <1>1, <2>2, SolventExtends DEF Extends
<1>. HIDE DEF one
<1>4. Retired(batch, seq) /\ GoodMachine(batch)
  <2>1. CASE pending.count = 1
    BY <1>2, <1>3, <2>1 DEF AddBatch, one
  <2>2. CASE pending.count # 1
    <3>1. pending.count - 1 \in Nat \ {0} /\ pending.count - 1 <= MaxResultPulses
      BY <1>1, <2>2
    <3>2. Extends(one, two)
      BY <1>1, <1>3, <3>1, AddPulsesExtends
    <3>. HIDE DEF two
    <3>3. Retired(two, seq) /\ GoodMachine(two)
      BY <1>2, <1>3, <3>2, RetiredStays DEF Extends
    <3>. QED  BY <2>2, <3>3 DEF AddBatch, two, one
  <2>. QED  BY <2>1, <2>2
<1>5. batch.active.seq # seq
  BY <1>4, RetiredIsClosed
<1>6. Drained = batch \/ Drained = MarkSaturated(batch)
  BY <1>1 DEF Drained
<1>. HIDE DEF batch
<1>7. MarkSaturated(batch).active = batch.active \/ MarkSaturated(batch).active = NoActive
  BY <1>4, GoodFields DEF MarkSaturated, Finalize, Machine
<1>. QED  BY <1>1, <1>5, <1>6, <1>7 DEF NoActive

(* Every handler leaves the event of the batch, a new one or none. *)
LEMMA NextSeparates ==
  ASSUME MaxStall <= Settling, Timely, [Next]_vars,
         m.active.present, m.active.state # "armed",
         pending.count > 0, pending'.count = 0,
         QuietUntil(pending.first) > FlowGap + Settling
  PROVE  m'.active.seq # m.active.seq
<1>. DEFINE d == Drained
            t == Tick(d, clock)
            seq == m.active.seq
<1>1. Audited /\ Inv /\ Punctual /\ Solvent(m) /\ GoodMachine(m)
  BY DEF Timely, Audited, Solvent
<1>2. /\ pending.count \in Nat \ {0} /\ pending.first \in Int /\ clock \in Int /\ quiet \in Int
      /\ stall \in Nat /\ stall <= MaxStall /\ m.active.timer \in Int
      /\ m.active.state \in {"pouring", "settling"}
  BY <1>1, GoodFields DEF Inv, TypeOK, Pending, Times, Punctual
<1>3. PICK a \in 0..stall, b \in 0..stall : BatchAged(a, b)
  BY <1>1, <1>2 DEF Punctual
<1>4. a \in Int /\ 0 <= a /\ a <= quiet /\ Same(pending.first, clock - a)
  BY <1>2, <1>3 DEF BatchAged
<1>5. quiet - a > FlowGap + Settling
  <2>1. Wrap(clock - pending.first) = a
    BY <1>1, <1>2, <1>4, EdgeAge
  <2>. QED  BY <2>1 DEF QuietUntil
<1>6. EventTimed(m.active, clock, quiet, stall, m.lifetime = MaxLifetime)
  BY <1>1 DEF Punctual
<1>7. m.active.state = "settling"
  <2>. SUFFICES ASSUME m.active.state = "pouring" PROVE FALSE
    BY <1>2
  <2>1. quiet <= FlowGap + stall
    BY <1>6 DEF EventTimed
  <2>. QED  BY <1>2, <1>4, <1>5, <2>1, Timers
<1>8. After(pending.first, m.active.timer)
  <2>. DEFINE D == FlowGap + Settling
  <2>1. D \in Nat /\ 2 * D < ClockModulus
    BY Timers
  <2>2. Same(m.active.timer, clock - quiet + D) /\ quiet <= D + stall
    BY <1>6, <1>7 DEF EventTimed
  <2>3. quiet - a > D
    BY <1>5
  <2>. HIDE DEF D
  <2>4. quiet - a - D <= MaxStall
    BY <1>2, <1>4, <2>1, <2>2, Timers
  <2>. QED  BY <1>2, <1>4, <2>1, <2>2, <2>3, <2>4, StampAge
<1>9. d.active.seq # seq
  BY <1>1, <1>2, <1>7, <1>8, LateBatchCloses
<1>10. Extends(m, d) /\ Extends(m, t) /\ GoodMachine(d) /\ GoodMachine(t) /\ t \in Machine
  <2>1. Extends(m, d) /\ Extends(m, t)
    BY <1>1, DrainedExtends, TickedExtends
  <2>. HIDE DEF d, t
  <2>2. GoodMachine(d) /\ GoodMachine(t)
    BY <2>1 DEF Extends
  <2>. QED  BY <2>1, <2>2, GoodFields
<1>11. seq \in 1..(m.next - 1) /\ m.next \in Nat
  BY <1>1, HeldIsNat DEF GoodMachine, SequencesOrdered
<1>12. t.active.seq # seq
  <2>. HIDE DEF d, t
  <2>1. t.active.present => t.active.seq = d.active.seq
    BY <1>2, <1>10, TickEnds DEF t
  <2>2. ~t.active.present => t.active = NoActive
    BY <1>10, GoodFields
  <2>. QED  BY <1>9, <1>11, <2>1, <2>2 DEF NoActive
<1>. HIDE DEF d, t
<1>13. CASE PulseIsr
  <2>1. pending'.count # 0
    BY <1>1, <1>2, <1>13, PendingAssumption DEF PulseIsr, Inv, TypeOK, Pending
  <2>. QED  BY <2>1
<1>14. CASE ClockTick \/ UNCHANGED vars
  BY <1>2, <1>14 DEF ClockTick, vars
<1>15. CASE TickLinearized
  BY <1>12, <1>15 DEF TickLinearized, t, d
<1>16. CASE DrainPulses \/ HandleResults
  BY <1>9, <1>16 DEF DrainPulses, HandleResults, d
<1>17. ASSUME NEW q \in 1..MaxSeq, NEW sid \in Sids, NEW ttl \in Ttls,
              HandleArm(q, sid, ttl)
       PROVE  m'.active.seq # seq
  <2>1. m' = Arm(t, q, sid, clock, ttl)
    BY <1>17 DEF HandleArm, t, d
  <2>2. m'.active = t.active \/ m'.active.seq = t.next
    BY <1>10, <2>1 DEF Arm, Machine
  <2>3. m.next <= t.next /\ t.next \in Nat
    BY <1>10, HeldIsNat DEF Extends, Follows
  <2>. QED  BY <1>11, <1>12, <2>2, <2>3
<1>18. ASSUME NEW q \in 1..MaxSeq, NEW sid \in Sids, HandleCancel(q, sid)
       PROVE  m'.active.seq # seq
  <2>1. m' = Cancel(t, q, sid)
    BY <1>18 DEF HandleCancel, t, d
  <2>2. m'.active = t.active \/ m'.active = NoActive
    BY <1>10, <2>1 DEF Cancel, Finalize, Machine
  <2>. QED  BY <1>11, <1>12, <2>2 DEF NoActive
<1>19. ASSUME NEW q \in 1..MaxSeq, HandleAck(q) PROVE m'.active.seq # seq
  <2>1. m' = Acknowledge(d, q) /\ d \in Machine
    BY <1>10, <1>19, GoodFields DEF HandleAck, d
  <2>2. m'.active = d.active
    BY <2>1 DEF Acknowledge, Machine
  <2>. QED  BY <1>9, <2>2
<1>20. CASE Reset
  BY <1>11, <1>20 DEF Reset, NewMachine, NoActive
<1>. QED
  BY <1>13, <1>14, <1>15, <1>16, <1>17, <1>18, <1>19, <1>20 DEF Next, Command

-------------------------------------------------------------------------------
(***************************************************************************)
(* The theorems.                                                           *)
(***************************************************************************)

(* The machine stays good across every interleaving of edges, ticks,       *)
(* requests and resets.                                                    *)
THEOREM FirmwareInvariant == Spec => []Inv
BY InitInv, NextInv, PTL DEF Spec

(* Type correctness of the flow controller. *)
THEOREM TypeCorrect == Spec => []TypeOK
<1>1. Inv => TypeOK
  BY DEF Inv
<1> QED BY <1>1, FirmwareInvariant, PTL

(* state_, active_.state and the pulse count of the open event agree in    *)
(* every state (session_machine.cpp).                                      *)
THEOREM CoherentAlways == Spec => []Coherent
<1>1. Inv => Coherent
  BY DEF Inv, GoodMachine, Coherent
<1> QED BY <1>1, FirmwareInvariant, PTL

(* The result store never fills up under an open event, so finalize() can  *)
(* always retain it, for every kResultCapacity.                            *)
THEOREM RoomToFinalize == Spec => []AlwaysRoomToFinalize
<1>1. Inv => AlwaysRoomToFinalize
  BY DEF Inv, GoodMachine, AlwaysRoomToFinalize
<1> QED BY <1>1, FirmwareInvariant, PTL

(* Event sequences are unique and retained in order, up to and at the      *)
(* exhaustion of the sequence space.                                       *)
THEOREM SequencesInOrder == Spec => []OrderedSequences
<1>1. Inv => OrderedSequences
  BY DEF Inv, GoodMachine, OrderedSequences
<1> QED BY <1>1, FirmwareInvariant, PTL

(* No pulse of the lifetime counter is reported by two events, for every   *)
(* width of the counters and at every saturation.                          *)
THEOREM PulsesReportedOnce == Spec => []NoPulseReportedTwice
<1>1. Inv => NoPulseReportedTwice
  BY DEF Inv, GoodMachine, NoPulseReportedTwice
<1> QED BY <1>1, FirmwareInvariant, PTL

(* A timed-out event has no pulses and a complete one has some: what       *)
(* DeviceClient checks of every result it parses holds of every result     *)
(* the firmware makes.                                                     *)
THEOREM TimeoutsAlwaysEmpty == Spec => []TimeoutsAreEmpty
<1>1. Inv => TimeoutsAreEmpty
  BY DEF Inv, GoodMachine, TimeoutsAreEmpty
<1> QED BY <1>1, FirmwareInvariant, PTL

(* Every pulse the lifetime counter accepted is in an acknowledged result, *)
(* a retained one, the open event or the recovery counter, for every       *)
(* capacity, width and interleaving of edges and commands.                 *)
THEOREM PulsesAlwaysConserved == Spec => []PulsesConserved
<1>1. Audited => PulsesConserved
  BY DEF Audited, Balanced, PulsesConserved, Accounted
<1>2. Spec => []Audited
  BY InitAudited, NextAudited, PTL DEF Spec
<1>. QED  BY <1>1, <1>2, PTL

(* The controller keeps what EventStore promises, in every step: an open   *)
(* event is never dropped, a result leaves only when the host acknowledges *)
(* it, sequences are used once, and no pulse is invented or lost but to a  *)
(* counter at its end (session_machine.cpp, main.cpp).                     *)
THEOREM FirmwareIsEventStore == Spec => ImplementsEventStore
<1>1. Spec => []Audited
  BY InitAudited, NextAudited, PTL DEF Spec
<1>2. Audited /\ [Next]_vars => [Store!Next]_(Store!vars)
  BY NextStore
<1>. QED  BY <1>1, <1>2, InitStore, PTL DEF Spec, ImplementsEventStore, Store!Spec

(* An event ends when its time is up and never before: no batch, no order  *)
(* of edges, ticks and commands and no rollover of millis() ends a pour    *)
(* early or takes a session from an edge captured in time                  *)
(* (session_machine.cpp add_pulses and tick).                              *)
THEOREM EventsAlwaysEndOnTime == Spec => EventsEndOnTime
<1>1. Timely /\ [Next]_vars => CompletesOnlyAfterSilence /\ TimesOutOnlyWithoutEdges
  BY NextOnTime
<1>2. Spec => []Timely
  BY InitTimely, NextTimely, PTL DEF Spec
<1>3. Spec => [][CompletesOnlyAfterSilence /\ TimesOutOnlyWithoutEdges]_vars
  BY <1>1, <1>2, PTL DEF Spec
<1>. QED  BY <1>3 DEF EventsEndOnTime

(* Two pours further apart than gap and settling time are two events, if   *)
(* the main loop ticks at least once in a settling time.                   *)
THEOREM PoursAlwaysSeparate == MaxStall <= Settling => (Spec => SeparatePoursStaySeparate)
<1>. SUFFICES ASSUME MaxStall <= Settling PROVE Spec => SeparatePoursStaySeparate
  OBVIOUS
<1>. DEFINE Separates ==
              (/\ m.active.present /\ m.active.state # "armed"
               /\ pending.count > 0 /\ pending'.count = 0
               /\ QuietUntil(pending.first) > FlowGap + Settling)
              => (m'.active.seq # m.active.seq)
<1>1. Timely /\ [Next]_vars => Separates
  BY NextSeparates
<1>2. Spec => []Timely
  BY InitTimely, NextTimely, PTL DEF Spec
<1>3. Spec => [][Separates]_vars
  <2>. HIDE DEF Separates
  <2>. QED  BY <1>1, <1>2, PTL DEF Spec
<1>. QED  BY <1>3 DEF SeparatePoursStaySeparate

-------------------------------------------------------------------------------
(***************************************************************************)
(* The boot identity: it never repeats, for every width of the counter and *)
(* wherever power fails.                                                   *)
(***************************************************************************)
Records == [{0, 1} -> BootRecord]

(* A record whose crc is old: whatever its counter is torn into, it is not *)
(* valid, or it is the record it was before.                               *)
Clean(records, i) ==
  /\ records[i].crc < NextBoot(records)
  /\ records[i].crc # 0 => Destination(records[i].crc) = i

(* Every record is clean, or has the next counter in its place already,    *)
(* and one whose magic is not written yet is empty.                        *)
Tidy(records) ==
  \A i \in {0, 1} :
    /\ \/ Clean(records, i)
       \/ i = Destination(NextBoot(records)) /\ records[i].counter = NextBoot(records)
    /\ records[i].magic \/ (records[i].counter = 0 /\ records[i].crc = 0)

InPlace(records) ==
  \A i \in {0, 1} : Valid(records[i]) => Destination(records[i].counter) = i

(* What setup() has done at each stage. *)
SetupProgress ==
  pc \in Writing =>
    /\ boot = NextBoot(eeprom) \/ (pc = "crc" /\ boot = Previous(eeprom))
    /\ announced < boot \/ announced = MaxBoot
    /\ pc # "magic" => eeprom[Destination(boot)].magic
    /\ pc = "crc" => eeprom[Destination(boot)].counter = boot

(* The inductive invariant. *)
SetupInv ==
  /\ SetupTypeOK
  /\ InPlace(eeprom)
  /\ Tidy(eeprom)
  /\ announced <= Previous(eeprom)
  /\ SetupProgress

-------------------------------------------------------------------------------
(* A counter belongs to one of the two records, the next one to the other. *)
LEMMA DestinationAlternates ==
  \A c \in Nat : Destination(c) \in {0, 1} /\ Destination(c + 1) = 1 - Destination(c)
BY DEF Destination

(* Previous is the highest counter of a valid record. *)
LEMMA PreviousFacts ==
  ASSUME NEW e \in Records
  PROVE  /\ Previous(e) \in Counters
         /\ \A i \in {0, 1} : Valid(e[i]) => e[i].counter <= Previous(e)
         /\ Previous(e) # 0 => \E i \in {0, 1} : Valid(e[i]) /\ e[i].counter = Previous(e)
BY MaxBootAssumption DEF Records, Previous, Valid, BootRecord, Counters

(* Only one number is the highest counter of a valid record. *)
LEMMA PreviousUnique ==
  ASSUME NEW e \in Records, NEW p \in Counters,
         \A i \in {0, 1} : Valid(e[i]) => e[i].counter <= p,
         p # 0 => \E i \in {0, 1} : Valid(e[i]) /\ e[i].counter = p
  PROVE  Previous(e) = p
BY PreviousFacts, MaxBootAssumption DEF Records, BootRecord, Counters, Valid

LEMMA NextBootFacts ==
  ASSUME NEW e \in Records
  PROVE  /\ NextBoot(e) \in Counters \ {0}
         /\ Previous(e) <= NextBoot(e)
         /\ Previous(e) = MaxBoot => NextBoot(e) = MaxBoot
         /\ Previous(e) # MaxBoot => NextBoot(e) = Previous(e) + 1
BY PreviousFacts, MaxBootAssumption DEF NextBoot, Counters

(* The highest counter has its place, the next one is written elsewhere.   *)
LEMMA HighestInPlace ==
  ASSUME NEW e \in Records, InPlace(e), Previous(e) # 0
  PROVE  /\ Destination(Previous(e)) \in {0, 1}
         /\ Valid(e[Destination(Previous(e))])
         /\ e[Destination(Previous(e))].counter = Previous(e)
BY PreviousFacts, DestinationAlternates DEF InPlace, Counters

LEMMA NextPlace ==
  ASSUME NEW e \in Records
  PROVE  Destination(NextBoot(e)) \in {0, 1}
BY NextBootFacts, DestinationAlternates, MaxBootAssumption DEF Counters

(* A write that leaves the record of the next counter invalid, or valid    *)
(* with an older counter that belongs there, changes nothing.              *)
LEMMA OlderWrite ==
  ASSUME NEW e \in Records, InPlace(e), Previous(e) # MaxBoot,
         NEW d \in {0, 1}, d = Destination(NextBoot(e)),
         NEW r \in BootRecord,
         Valid(r) => r.counter < NextBoot(e) /\ Destination(r.counter) = d
  PROVE  LET f == [e EXCEPT ![d] = r]
         IN  f \in Records /\ Previous(f) = Previous(e) /\ InPlace(f)
<1> DEFINE f == [e EXCEPT ![d] = r]
           p == Previous(e)
<1>1. f \in Records /\ f[d] = r /\ f[1 - d] = e[1 - d] /\ {0, 1} = {d, 1 - d}
  BY DEF Records
<1>2. p \in Counters /\ NextBoot(e) = p + 1
  BY PreviousFacts, NextBootFacts
<1>3. p # 0 => Valid(f[1 - d]) /\ f[1 - d].counter = p
  <2> SUFFICES ASSUME p # 0 PROVE Valid(f[1 - d]) /\ f[1 - d].counter = p
    OBVIOUS
  <2>1. Destination(p + 1) = 1 - Destination(p) /\ Destination(p) \in {0, 1}
    BY <1>2, DestinationAlternates DEF Counters
  <2>2. Destination(p) = 1 - d
    BY <2>1, <1>2
  <2> QED
    BY <2>2, <1>1, HighestInPlace
<1>4. \A i \in {0, 1} : Valid(f[i]) => f[i].counter <= p
  <2>1. Valid(r) => r.counter <= p
    BY <1>2 DEF BootRecord, Counters
  <2>2. Valid(e[1 - d]) => e[1 - d].counter <= p
    BY PreviousFacts
  <2> QED
    BY <1>1, <2>1, <2>2
<1>5. Previous(f) = p
  <2>1. p # 0 => \E i \in {0, 1} : Valid(f[i]) /\ f[i].counter = p
    BY <1>3
  <2> HIDE DEF f, p
  <2> QED
    BY <1>1, <1>2, <1>4, <2>1, PreviousUnique
<1>6. InPlace(f)
  BY <1>1 DEF InPlace
<1> QED
  BY <1>1, <1>5, <1>6

(* Completing the record of the next counter makes it the highest.         *)
LEMMA NextWrite ==
  ASSUME NEW e \in Records, InPlace(e),
         NEW d \in {0, 1}, d = Destination(NextBoot(e)),
         NEW r \in BootRecord, Valid(r), r.counter = NextBoot(e)
  PROVE  LET f == [e EXCEPT ![d] = r]
         IN  f \in Records /\ Previous(f) = NextBoot(e) /\ InPlace(f)
<1> DEFINE f == [e EXCEPT ![d] = r]
           n == NextBoot(e)
<1>1. f \in Records /\ f[d] = r /\ f[1 - d] = e[1 - d] /\ {0, 1} = {d, 1 - d}
  BY DEF Records
<1>2. n \in Counters /\ Previous(e) \in Counters /\ Previous(e) <= n
  BY PreviousFacts, NextBootFacts
<1>3. \A i \in {0, 1} : Valid(f[i]) => f[i].counter <= n
  <2>1. Valid(e[1 - d]) => e[1 - d].counter <= Previous(e)
    BY PreviousFacts
  <2>2. e[1 - d].counter \in Counters
    BY DEF Records, BootRecord
  <2> QED
    BY <1>1, <1>2, <2>1, <2>2 DEF Counters
<1>4. Previous(f) = n
  <2>1. \E i \in {0, 1} : Valid(f[i]) /\ f[i].counter = n
    BY <1>1
  <2> HIDE DEF f, n
  <2> QED
    BY <1>1, <1>2, <1>3, <2>1, PreviousUnique
<1>5. InPlace(f)
  BY <1>1 DEF InPlace
<1> QED
  BY <1>1, <1>4, <1>5

(* With the counter used up, its record is complete already.               *)
LEMMA Saturated ==
  ASSUME NEW e \in Records, InPlace(e), Previous(e) = MaxBoot
  PROVE  LET d == Destination(NextBoot(e))
         IN  e[d].magic /\ e[d].counter = NextBoot(e) /\ e[d].crc = NextBoot(e)
BY HighestInPlace, NextBootFacts, MaxBootAssumption DEF Valid
-------------------------------------------------------------------------------
(***************************************************************************)
(* The steps.  Each writes the record of the next counter, or nothing new. *)
(***************************************************************************)

(* Nothing that SetupInv says of the records depends on more than Previous and  *)
(* the record that changed.                                                *)
LEMMA TidyAfterWrite ==
  ASSUME NEW e \in Records, Tidy(e), NEW d \in {0, 1}, d = Destination(NextBoot(e)),
         NEW r \in BootRecord, NEW f \in Records, f = [e EXCEPT ![d] = r],
         Previous(f) = Previous(e),
         r.crc = e[d].crc \/ r.counter = NextBoot(e),
         r.counter = NextBoot(e) \/ e[d].counter # NextBoot(e) \/ r.counter = e[d].counter,
         r.magic \/ (r.counter = 0 /\ r.crc = 0)
  PROVE  Tidy(f)
<1>1. NextBoot(f) = NextBoot(e)
  BY DEF NextBoot
<1>2. f[d] = r /\ f[1 - d] = e[1 - d] /\ {0, 1} = {d, 1 - d}
  BY DEF Records
<1>3. \/ Clean(f, d)
      \/ r.counter = NextBoot(f)
  BY <1>1, <1>2 DEF Tidy, Clean
<1>4. Clean(f, 1 - d)
  BY <1>1, <1>2 DEF Tidy, Clean
<1> QED
  BY <1>1, <1>2, <1>3, <1>4 DEF Tidy

LEMMA WriteMagicInv ==
  ASSUME SetupInv, WriteMagic PROVE SetupInv'
<1> DEFINE d == Destination(boot)
           r == [eeprom[d] EXCEPT !.magic = TRUE]
<1>1. eeprom \in Records /\ boot = NextBoot(eeprom) /\ boot \in Counters /\ d \in {0, 1}
  BY NextPlace DEF SetupInv, SetupTypeOK, Records, SetupProgress, WriteMagic, Writing
<1>2. r \in BootRecord /\ eeprom' = [eeprom EXCEPT ![d] = r] /\ eeprom'[d] = r
  BY <1>1 DEF WriteMagic, Records, BootRecord
<1>3. /\ eeprom' \in Records
      /\ Previous(eeprom') = Previous(eeprom)
      /\ InPlace(eeprom')
  <2>1. CASE eeprom[d].magic
    <3>1. eeprom' = eeprom
      BY <2>1, <1>1, <1>2 DEF Records, BootRecord
    <3> QED
      BY <3>1, <1>1 DEF SetupInv
  <2>2. CASE ~eeprom[d].magic
    <3>1. r.counter = 0
      BY <2>2, <1>1 DEF SetupInv, Tidy, Records, BootRecord
    <3>2. ~Valid(r)
      BY <3>1 DEF Valid
    <3>3. Previous(eeprom) # MaxBoot
      BY <2>2, <1>1, Saturated DEF SetupInv
    <3> QED
      BY <1>1, <1>2, <3>2, <3>3, OlderWrite, ZenonT(60) DEF SetupInv
  <2> QED
    BY <2>1, <2>2
<1>4. Tidy(eeprom')
  <2>1. r.magic /\ r.crc = eeprom[d].crc /\ r.counter = eeprom[d].counter
    BY <1>1 DEF Records, BootRecord
  <2> HIDE DEF r, d
  <2> QED
    BY <1>1, <1>2, <1>3, <2>1, TidyAfterWrite DEF SetupInv, d
<1>5. NextBoot(eeprom') = NextBoot(eeprom)
  BY <1>3 DEF NextBoot
<1>6. SetupProgress'
  <2>1. /\ pc = "magic" /\ pc' = "counter" /\ boot' = boot /\ announced' = announced
        /\ eeprom'[d].magic
    BY <1>1, <1>2 DEF WriteMagic, Records, BootRecord
  <2>2. announced < boot \/ announced = MaxBoot
    BY <2>1 DEF SetupInv, SetupProgress, Writing
  <2> QED
    BY <1>1, <1>5, <2>1, <2>2 DEF SetupProgress
<1>7. SetupTypeOK'
  BY <1>3 DEF SetupInv, SetupTypeOK, Records, WriteMagic, Stages, Writing
<1>8. announced' <= Previous(eeprom')
  BY <1>3 DEF SetupInv, WriteMagic
<1> QED
  BY <1>3, <1>4, <1>6, <1>7, <1>8 DEF SetupInv

LEMMA TearCounterInv ==
  ASSUME SetupInv, TearCounter \/ WriteCounter PROVE SetupInv'
<1> DEFINE d == Destination(boot)
<1>1. eeprom \in Records /\ boot = NextBoot(eeprom) /\ boot \in Counters \ {0} /\ d \in {0, 1}
  BY NextPlace, NextBootFacts
  DEF SetupInv, SetupTypeOK, Records, SetupProgress, TearCounter, WriteCounter, Writing
<1>2. PICK c \in Torn(eeprom[d].counter, boot) :
        /\ eeprom' = [eeprom EXCEPT ![d].counter = c]
        /\ WriteCounter => c = boot
  BY <1>1 DEF TearCounter, WriteCounter, Torn
<1>3. c \in Counters /\ (eeprom[d].counter = boot => c = boot)
  BY <1>1 DEF Torn
<1> DEFINE r == [eeprom[d] EXCEPT !.counter = c]
<1>4. /\ r \in BootRecord /\ eeprom' = [eeprom EXCEPT ![d] = r] /\ eeprom'[d] = r
      /\ r.magic /\ r.counter = c /\ r.crc = eeprom[d].crc
  BY <1>1, <1>2, <1>3
  DEF Records, BootRecord, SetupInv, SetupProgress, TearCounter, WriteCounter, Writing
<1>5. /\ eeprom' \in Records
      /\ Previous(eeprom') = Previous(eeprom)
      /\ InPlace(eeprom')
  <2>1. CASE eeprom[d].counter = boot
    <3>1. eeprom' = eeprom
      BY <2>1, <1>1, <1>2, <1>3 DEF Records, BootRecord
    <3> QED
      BY <3>1, <1>1 DEF SetupInv
  <2>2. CASE eeprom[d].counter # boot
    <3>1. Clean(eeprom, d)
      BY <2>2, <1>1 DEF SetupInv, Tidy
    <3>2. Valid(r) => r.counter < NextBoot(eeprom) /\ Destination(r.counter) = d
      BY <3>1, <1>4 DEF Clean, Valid, BootRecord, Counters
    <3>3. Previous(eeprom) # MaxBoot
      BY <2>2, <1>1, Saturated DEF SetupInv
    <3> HIDE DEF r
    <3> QED
      BY <1>1, <1>4, <3>2, <3>3, OlderWrite, ZenonT(60) DEF SetupInv
  <2> QED
    BY <2>1, <2>2
<1>6. Tidy(eeprom')
  <2> HIDE DEF r, d
  <2> QED
    BY <1>1, <1>3, <1>4, <1>5, TidyAfterWrite DEF SetupInv, d
<1>7. NextBoot(eeprom') = NextBoot(eeprom)
  BY <1>5 DEF NextBoot
<1>8. SetupProgress'
  BY <1>1, <1>2, <1>4, <1>7, ZenonT(60)
  DEF SetupInv, SetupProgress, TearCounter, WriteCounter, Writing
<1> QED
  BY <1>1, <1>5, <1>6, <1>8
  DEF SetupInv, SetupTypeOK, Records, TearCounter, WriteCounter, Stages, Writing

(* Only these two may complete a record. *)
LEMMA TearCrcInv ==
  ASSUME SetupInv, TearCrc \/ WriteCrc
  PROVE  SetupInv' /\ (WriteCrc => announced' > announced \/ announced = MaxBoot)
<1> DEFINE d == Destination(boot)
<1>1. eeprom \in Records /\ boot \in Counters \ {0} /\ d \in {0, 1}
  BY DestinationAlternates
  DEF SetupInv, SetupTypeOK, Records, TearCrc, WriteCrc, Counters
<1>2. PICK c \in Torn(eeprom[d].crc, boot) :
        /\ eeprom' = [eeprom EXCEPT ![d].crc = c]
        /\ WriteCrc => c = boot
  BY <1>1 DEF TearCrc, WriteCrc, Torn
<1>3. c \in Counters /\ (eeprom[d].crc = boot => c = boot)
  BY <1>1 DEF Torn
<1> DEFINE r == [eeprom[d] EXCEPT !.crc = c]
<1>4. /\ r \in BootRecord /\ eeprom' = [eeprom EXCEPT ![d] = r] /\ eeprom'[d] = r
      /\ r.magic /\ r.counter = boot /\ r.crc = c
  BY <1>1, <1>2, <1>3
  DEF Records, BootRecord, SetupInv, SetupProgress, TearCrc, WriteCrc, Writing
<1>5. boot = NextBoot(eeprom) \/ boot = Previous(eeprom)
  BY DEF SetupInv, SetupProgress, TearCrc, WriteCrc, Writing
<1>6. announced < boot \/ announced = MaxBoot
  BY DEF SetupInv, SetupProgress, TearCrc, WriteCrc, Writing
<1>7. CASE eeprom[d].crc = boot
  <2>1. eeprom' = eeprom
    BY <1>7, <1>1, <1>2, <1>3 DEF Records, BootRecord
  <2>2. Valid(eeprom[d]) /\ eeprom[d].counter = boot
    BY <1>7, <1>1, <1>4, <2>1 DEF Valid, Counters
  <2>3. boot <= Previous(eeprom)
    BY <2>2, <1>1, PreviousFacts
  <2>4. SetupInv'
    BY <2>1, <2>3
    DEF SetupInv, SetupTypeOK, SetupProgress, TearCrc, WriteCrc, Stages, Writing
  <2> QED
    BY <2>4, <1>1, <1>6 DEF SetupInv, SetupTypeOK, WriteCrc, Counters
<1>8. CASE eeprom[d].crc # boot
  <2>1. Previous(eeprom) # MaxBoot /\ Previous(eeprom) # boot
    <3>1. Previous(eeprom) # boot
      BY <1>8, <1>1, HighestInPlace DEF SetupInv, Valid
    <3>2. Previous(eeprom) # MaxBoot
      BY <3>1, <1>5, <1>1, NextBootFacts
    <3> QED
      BY <3>1, <3>2
  <2>2. boot = NextBoot(eeprom) /\ NextBoot(eeprom) = Previous(eeprom) + 1
        /\ Previous(eeprom) \in Counters
    BY <2>1, <1>1, <1>5, NextBootFacts, PreviousFacts
  <2>3. CASE c # boot
    <3>1. ~Valid(r)
      BY <2>3, <1>4 DEF Valid
    <3>2. /\ eeprom' \in Records
          /\ Previous(eeprom') = Previous(eeprom)
          /\ InPlace(eeprom')
      <4> HIDE DEF r
      <4> QED
        BY <1>1, <1>4, <2>1, <2>2, <3>1, OlderWrite, ZenonT(60) DEF SetupInv
    <3>3. Tidy(eeprom')
      <4> HIDE DEF r, d
      <4> QED
        BY <1>1, <1>4, <2>2, <3>2, TidyAfterWrite DEF SetupInv, d
    <3>4. SetupProgress'
      BY <1>1, <1>4, <2>2, <3>2, <2>3, <1>2
      DEF SetupInv, SetupProgress, NextBoot, TearCrc, WriteCrc, Writing
    <3> QED
      BY <3>2, <3>3, <3>4, <2>3, <1>2
      DEF SetupInv, SetupTypeOK, Records, TearCrc, WriteCrc, Stages, Writing
  <2>4. CASE c = boot
    <3>1. Valid(r)
      BY <2>4, <1>1, <1>4 DEF Valid, Counters
    <3>2. /\ eeprom' \in Records
          /\ Previous(eeprom') = boot
          /\ InPlace(eeprom')
      <4> HIDE DEF r
      <4> QED
        BY <1>1, <1>4, <2>2, <3>1, NextWrite DEF SetupInv
    <3>3. /\ NextBoot(eeprom') \in Counters
          /\ boot # MaxBoot => NextBoot(eeprom') = boot + 1
          /\ boot = MaxBoot => NextBoot(eeprom') = boot
      BY <3>2, <1>1, MaxBootAssumption DEF NextBoot, Counters
    <3>4. Tidy(eeprom')
      <4>1. eeprom'[1 - d] = eeprom[1 - d] /\ {0, 1} = {d, 1 - d}
        BY <1>1, <1>4 DEF Records
      <4>2. Clean(eeprom, 1 - d)
        BY <1>1, <2>2 DEF SetupInv, Tidy
      <4>3. Clean(eeprom', 1 - d)
        BY <4>1, <4>2, <2>2, <3>3, <1>1 DEF Clean, Records, BootRecord, Counters
      <4>4. Clean(eeprom', d) \/ (d = Destination(NextBoot(eeprom'))
                                   /\ eeprom'[d].counter = NextBoot(eeprom'))
        <5>1. eeprom'[d].counter = boot /\ eeprom'[d].crc = boot
          BY <1>4, <2>4
        <5>2. CASE boot = MaxBoot
          BY <5>1, <5>2, <3>3
        <5>3. CASE boot # MaxBoot
          BY <5>1, <5>3, <3>3, <1>1 DEF Clean, Counters
        <5> QED
          BY <5>2, <5>3
      <4>5. eeprom[1 - d].magic \/ (eeprom[1 - d].counter = 0 /\ eeprom[1 - d].crc = 0)
        BY <1>1 DEF SetupInv, Tidy
      <4> QED
        BY <4>1, <4>3, <4>4, <4>5, <1>4 DEF Tidy
    <3>5. SetupProgress'
      BY <1>1, <1>4, <3>2, <2>4, <1>6
      DEF SetupInv, SetupProgress, TearCrc, WriteCrc, Writing
    <3>6. announced' <= boot
      BY <1>1, <2>2 DEF SetupInv, SetupTypeOK, TearCrc, WriteCrc, Counters
    <3>7. SetupInv'
      BY <3>2, <3>4, <3>5, <3>6
      DEF SetupInv, SetupTypeOK, Records, TearCrc, WriteCrc, Stages, Writing
    <3> QED
      BY <3>7, <1>1, <1>6 DEF SetupInv, SetupTypeOK, WriteCrc, Counters
  <2> QED
    BY <2>3, <2>4, <1>2
<1> QED
  BY <1>7, <1>8

LEMMA PowerOnInv ==
  ASSUME SetupInv, PowerOn PROVE SetupInv'
<1>1. eeprom \in Records
  BY DEF SetupInv, SetupTypeOK, Records
<1>2. /\ boot' = NextBoot(eeprom) /\ boot' \in Counters \ {0}
      /\ announced < boot' \/ announced = MaxBoot
  BY <1>1, NextBootFacts, PreviousFacts, MaxBootAssumption
  DEF SetupInv, SetupTypeOK, PowerOn, Counters
<1> QED
  BY <1>1, <1>2
  DEF SetupInv, SetupTypeOK, SetupProgress, PowerOn, Stages, Writing, NextBoot, Previous,
                    InPlace, Tidy, Clean

-------------------------------------------------------------------------------
(* The invariant holds at first and every step keeps it. *)
LEMMA SetupInitInv == SetupInit => SetupInv
<1> SUFFICES ASSUME SetupInit PROVE SetupInv
  OBVIOUS
<1>1. SetupTypeOK
  BY MaxBootAssumption
  DEF SetupInit, SetupTypeOK, BootRecord, Counters, Erased, Stages, Writing
<1>2. eeprom \in Records /\ ~Valid(eeprom[0]) /\ ~Valid(eeprom[1])
  BY <1>1 DEF SetupInit, SetupTypeOK, Records, Valid, Erased
<1>3. Previous(eeprom) = 0 /\ NextBoot(eeprom) = 1
  BY <1>2, MaxBootAssumption DEF Previous, NextBoot
<1> QED
  BY <1>1, <1>2, <1>3
  DEF SetupInit, SetupInv, InPlace, Tidy, Clean, Erased, SetupProgress, Writing

LEMMA SetupNextInv == SetupInv /\ [SetupNext]_setupVars => SetupInv'
<1> SUFFICES ASSUME SetupInv, [SetupNext]_setupVars PROVE SetupInv'
  OBVIOUS
<1>1. CASE PowerOn
  BY <1>1, PowerOnInv
<1>2. CASE WriteMagic
  BY <1>2, WriteMagicInv
<1>3. CASE TearCounter \/ WriteCounter
  BY <1>3, TearCounterInv
<1>4. CASE TearCrc \/ WriteCrc
  BY <1>4, TearCrcInv
<1>5. CASE PowerLoss
  BY <1>5
  DEF PowerLoss, SetupInv, SetupTypeOK, SetupProgress, Stages, Writing, NextBoot, Previous,
              InPlace, Tidy, Clean
<1>6. CASE UNCHANGED setupVars
  BY <1>6
  DEF setupVars, SetupInv, SetupTypeOK, SetupProgress, Stages, Writing, NextBoot, Previous,
              InPlace, Tidy, Clean
<1> QED
  BY <1>1, <1>2, <1>3, <1>4, <1>5, <1>6 DEF SetupNext

THEOREM BootIdentityInvariant == SetupSpec => []SetupInv
<1> QED
  BY SetupInitInv, SetupNextInv, PTL DEF SetupSpec

(* Wherever power fails, every announced identity is remembered by a valid *)
(* record that the next write leaves alone.                                *)
THEOREM AnnouncedIsRemembered == SetupSpec => []Remembered
<1>1. SetupInv => Remembered
  <2> SUFFICES ASSUME SetupInv PROVE Remembered
    OBVIOUS
  <2>1. eeprom \in Records /\ boot \in Counters
    BY DEF SetupInv, SetupTypeOK, Records
  <2>2. pc \in Writing => boot = MaxBoot \/ Previous(eeprom) \in {boot - 1, boot}
    BY <2>1, PreviousFacts, NextBootFacts DEF SetupInv, SetupProgress, Counters
  <2> QED
    BY <2>2 DEF SetupInv, InPlace, Remembered
<1> QED
  BY <1>1, BootIdentityInvariant, PTL

(* Every boot announces a higher identity than all boots before it, until  *)
(* the 32-bit counter is used up.                                          *)
THEOREM IdentitiesIncrease == SetupSpec => BootsDiffer
<1>1. SetupInv /\ [SetupNext]_setupVars =>
        [(pc = "crc" /\ pc' = "running") => announced' > announced \/ announced = MaxBoot]_setupVars
  <2> SUFFICES ASSUME SetupInv, SetupNext, pc = "crc", pc' = "running"
               PROVE  announced' > announced \/ announced = MaxBoot
    OBVIOUS
  <2>1. WriteCrc
    BY DEF SetupNext, PowerOn, WriteMagic, TearCounter, WriteCounter, TearCrc, PowerLoss
  <2> QED
    BY <2>1, TearCrcInv
<1> QED
  BY <1>1, BootIdentityInvariant, PTL DEF SetupSpec, BootsDiffer
===============================================================================
