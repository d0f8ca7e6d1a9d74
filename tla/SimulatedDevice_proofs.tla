------------------------ MODULE SimulatedDevice_proofs ------------------------
(***************************************************************************)
(* The simulated controller keeps its promises for every capacity, counter *)
(* width and timer setting, and for any number of resets.                  *)
(*                                                                         *)
(* Every call of DeviceSessionMachine is a few elementary changes: the     *)
(* open event is closed, goes on, or is opened, or pulses are counted      *)
(* outside any event.  Each of them keeps Good and satisfies Extends,      *)
(* which says what EventStore allows one step to do; Extends is transitive *)
(* and so holds for a whole call, and for a batch of calls.                *)
(***************************************************************************)
EXTENDS SimulatedDevice, FiniteSetTheorems, FunctionTheorems, WellFoundedInduction, TLAPS

-------------------------------------------------------------------------------
(* The invariant *)

Result == [seq : 1..MaxSeq, sid : Sids \cup {NoSid}, status : Terminal,
           pulses : 0..MaxResultPulses]
OpenEvent == [seq : 1..MaxSeq, sid : Sids \cup {NoSid}, state : Live,
              pulses : 0..MaxResultPulses, left : Int]
Device == [state : Live \cup Terminal \cup {"idle"},
           active : OpenEvent \cup {NoActive},
           results : SUBSET Result,
           next : 1..(MaxSeq + 1),
           lifetime : 0..MaxLifetime,
           recovery : Nat]

(* The results are numbered below next, each once, and timed out without a *)
(* pulse or not at all.                                                    *)
GoodResults(m) ==
  /\ IsFiniteSet(m.results) /\ Cardinality(m.results) <= Capacity
  /\ \A r \in m.results : r.seq < m.next /\ (r.status = "timed_out" <=> r.pulses = 0)
  /\ \A r, q \in m.results : r.seq = q.seq => r = q

(* The open event is the latest, and a result slot is kept free for it.    *)
GoodActive(m) ==
  m.active # NoActive =>
    /\ m.active.seq = m.next - 1
    /\ \A r \in m.results : r.seq # m.active.seq
    /\ Cardinality(m.results) < Capacity
    /\ m.active.state = "armed" <=> m.active.pulses = 0
    /\ m.active.state = "armed" => m.active.sid \in Sids

Good(m) == m \in Device /\ GoodResults(m) /\ GoodActive(m)

(* A frame of this boot is about a result, never about the open event. *)
Told(frames, m) ==
  /\ frames \subseteq (1..boot) \X Nat
  /\ \A f \in frames : f[1] = boot => f[2] \in 1..(m.next - 1) \ {m.active.seq}

(* What the deadline leaves open has been waited for. *)
Timed(m, quiet) ==
  \/ quiet >= IdleCap
  \/ /\ m.active.state = "armed" => m.active.left + quiet >= Ttl
     /\ m.active.state = "pouring" => m.active.left + quiet >= FlowGap
     /\ m.active.state = "settling" => m.active.left + quiet >= FlowGap + Settling

Sent == read \cup wire.incoming \cup wire.delayed

Inv ==
  /\ Good(d)
  /\ boot \in Nat \ {0} /\ idle \in Nat
  /\ Told(Sent, d)
  /\ Timed(d, idle)

-------------------------------------------------------------------------------
(***************************************************************************)
(* EventStore adds the pulses of a set of events, in any order.            *)
(***************************************************************************)
Below == {ss \in Nat \X Nat : ss[1] < ss[2]}

LEMMA Induct ==
  ASSUME NEW S, 0 \in S, \A n \in Nat : n \in S => n + 1 \in S
  PROVE  Nat \subseteq S
<1>. DEFINE T == Nat \ S
<1>. SUFFICES ASSUME T # {} PROVE FALSE
  OBVIOUS
<1>1. IsWellFoundedOn(Below, Nat)
  BY NatLessThanWellFounded DEF OpToRel, Below
<1>2. T \in SUBSET Nat /\ T # {}
  OBVIOUS
<1>. HIDE DEF T
<1>3. PICK n \in T : \A k \in T : <<k, n>> \notin Below
  BY <1>1, <1>2, WFMin
<1>4. n \in Nat /\ n \notin S
  BY <1>3 DEF T
<1>5. n - 1 \in Nat /\ n = (n - 1) + 1
  <2>1. n # 0
    BY <1>4
  <2>. QED  BY <2>1, <1>4
<1>6. <<n - 1, n>> \in Below
  BY <1>4, <1>5 DEF Below
<1>7. n - 1 \in S
  BY <1>3, <1>5, <1>6 DEF T
<1>8. (n - 1) + 1 \in S
  BY <1>5, <1>7
<1>. QED  BY <1>4, <1>5, <1>8

Some(s) == CHOOSE x \in s : TRUE

Adds(S, g) == g = [s \in SUBSET S |-> IF s = {} THEN 0 ELSE Some(s).pulses + g[s \ {Some(s)}]]

LEMMA SomeIsIn == ASSUME NEW s, s # {} PROVE Some(s) \in s
BY DEF Some

LEMMA OneLess ==
  ASSUME NEW s, IsFiniteSet(s), NEW x \in s, NEW n \in Nat, Cardinality(s) = n + 1
  PROVE  IsFiniteSet(s \ {x}) /\ Cardinality(s \ {x}) = n
<1>1. Cardinality(s \ {x}) = (n + 1) - 1 /\ IsFiniteSet(s \ {x})
  BY FS_RemoveElement
<1>. QED  BY <1>1

LEMMA AddsExists ==
  ASSUME NEW S, IsFiniteSet(S)
  PROVE  \E g : Adds(S, g)
<1>. DEFINE upto(n, g) ==
              \A s \in SUBSET S : Cardinality(s) <= n =>
                g[s] = IF s = {} THEN 0 ELSE Some(s).pulses + g[s \ {Some(s)}]
            N == {n \in Nat : \E g : upto(n, g)}
<1>1. \A s \in SUBSET S : IsFiniteSet(s) /\ Cardinality(s) \in Nat
  BY FS_Subset, FS_CardinalityType
<1>2. 0 \in N
  <2>1. \A s \in SUBSET S : Cardinality(s) <= 0 => s = {}
    BY <1>1, FS_EmptySet
  <2>2. upto(0, [s \in SUBSET S |-> 0])
    BY <2>1
  <2>. QED  BY <2>2
<1>3. ASSUME NEW n \in Nat, n \in N PROVE n + 1 \in N
  <2>1. PICK g : upto(n, g)
    BY <1>3
  <2>. DEFINE more == [s \in SUBSET S |-> IF s = {} THEN 0 ELSE Some(s).pulses + g[s \ {Some(s)}]]
  <2>2. \A s \in SUBSET S : Cardinality(s) <= n => more[s] = g[s]
    BY <2>1
  <2>3. ASSUME NEW s \in SUBSET S, Cardinality(s) <= n + 1
        PROVE  more[s] = IF s = {} THEN 0 ELSE Some(s).pulses + more[s \ {Some(s)}]
    <3>1. CASE s = {}
      BY <3>1
    <3>2. CASE s # {}
      <4>1. Some(s) \in s /\ s \ {Some(s)} \in SUBSET S
        BY <3>2, SomeIsIn
      <4>2. Cardinality(s \ {Some(s)}) = Cardinality(s) - 1
        BY <1>1, <4>1, FS_RemoveElement
      <4>3. Cardinality(s \ {Some(s)}) <= n
        BY <1>1, <2>3, <4>2
      <4>4. more[s \ {Some(s)}] = g[s \ {Some(s)}]
        BY <2>2, <4>1, <4>3
      <4>. QED  BY <3>2, <4>4
    <3>. QED  BY <3>1, <3>2
  <2>4. upto(n + 1, more)
    <3>. HIDE DEF more
    <3>. QED  BY <2>3
  <2>. HIDE DEF upto, more
  <2>. QED  BY <2>4
<1>4. Nat \subseteq N
  <2>. HIDE DEF N
  <2>. QED  BY <1>2, <1>3, Induct
<1>5. S \in SUBSET S /\ Cardinality(S) \in N
  BY <1>1, <1>4
<1>6. PICK g : upto(Cardinality(S), g)
  BY <1>5
<1>7. \A s \in SUBSET S : Cardinality(s) <= Cardinality(S)
  BY FS_Subset
<1>. DEFINE f == [s \in SUBSET S |-> IF s = {} THEN 0 ELSE Some(s).pulses + g[s \ {Some(s)}]]
<1>8. \A s \in SUBSET S : f[s] = g[s]
  BY <1>6, <1>7
<1>9. \A s \in SUBSET S : s \ {Some(s)} \in SUBSET S
  OBVIOUS
<1>10. f = [s \in SUBSET S |-> IF s = {} THEN 0 ELSE Some(s).pulses + f[s \ {Some(s)}]]
  BY <1>8, <1>9
<1>. QED  BY <1>10 DEF Adds

(* Any element may be added first. *)
LEMMA AddsAny ==
  ASSUME NEW S, IsFiniteSet(S), \A e \in S : e.pulses \in Nat, NEW g, Adds(S, g),
         NEW s \in SUBSET S
  PROVE  g[s] \in Nat /\ \A e \in s : g[s] = e.pulses + g[s \ {e}]
<1>. DEFINE good(t) == g[t] \in Nat /\ \A e \in t : g[t] = e.pulses + g[t \ {e}]
            N == {n \in Nat : \A t \in SUBSET S : Cardinality(t) <= n => good(t)}
<1>1. \A t \in SUBSET S : IsFiniteSet(t) /\ Cardinality(t) \in Nat
  BY FS_Subset, FS_CardinalityType
<1>2. \A t \in SUBSET S : g[t] = IF t = {} THEN 0 ELSE Some(t).pulses + g[t \ {Some(t)}]
  BY DEF Adds
<1>3. 0 \in N
  <2>1. \A t \in SUBSET S : Cardinality(t) <= 0 => t = {}
    BY <1>1, FS_EmptySet
  <2>2. good({})
    <3>1. {} \in SUBSET S
      OBVIOUS
    <3>2. g[{}] = 0
      BY <1>2, <3>1
    <3>. QED  BY <3>2
  <2>. HIDE DEF good
  <2>. QED  BY <2>1, <2>2
<1>4. ASSUME NEW n \in Nat, n \in N PROVE n + 1 \in N
  <2>0. \A t \in SUBSET S : Cardinality(t) <= n => good(t)
    BY <1>4
  <2>. HIDE DEF good
  <2>. SUFFICES ASSUME NEW t \in SUBSET S, Cardinality(t) = n + 1 PROVE good(t)
    BY <1>1, <2>0
  <2>. USE DEF good
  <2>1. \A x \in t : /\ t \ {x} \in SUBSET S /\ good(t \ {x})
                    /\ \A y \in t \ {x} : g[(t \ {x}) \ {y}] \in Nat
    <3>. HIDE DEF good
    <3>. SUFFICES ASSUME NEW x \in t
                  PROVE  /\ t \ {x} \in SUBSET S /\ good(t \ {x})
                         /\ \A y \in t \ {x} : g[(t \ {x}) \ {y}] \in Nat
      OBVIOUS
    <3>1. t \ {x} \in SUBSET S /\ Cardinality(t \ {x}) <= n
      <4>1. Cardinality(t \ {x}) = n
        BY <1>1, OneLess
      <4>. QED  BY <4>1
    <3>2. ASSUME NEW y \in t \ {x}
          PROVE  (t \ {x}) \ {y} \in SUBSET S /\ Cardinality((t \ {x}) \ {y}) <= n
      <4>1. Cardinality((t \ {x}) \ {y}) <= Cardinality(t \ {x})
        BY <1>1, <3>1, FS_Subset
      <4>2. Cardinality((t \ {x}) \ {y}) \in Nat /\ Cardinality(t \ {x}) \in Nat
        BY <1>1, <3>1
      <4>. QED  BY <3>1, <4>1, <4>2
    <3>. QED  BY <2>0, <3>1, <3>2 DEF good
  <2>2. t # {}
    <3>1. n + 1 # 0
      OBVIOUS
    <3>. QED  BY <3>1, FS_EmptySet
  <2>. DEFINE x == Some(t)
  <2>3. x \in t /\ x.pulses \in Nat /\ g[t] = x.pulses + g[t \ {x}]
    BY <1>2, <2>2, SomeIsIn
  <2>. HIDE DEF x
  <2>4. g[t \ {x}] \in Nat
    BY <2>1, <2>3
  <2>5. ASSUME NEW e \in t PROVE g[t] = e.pulses + g[t \ {e}]
    <3>1. CASE e = x
      BY <2>3, <3>1
    <3>2. CASE e # x
      <4>1. e \in t \ {x} /\ x \in t \ {e} /\ (t \ {x}) \ {e} = (t \ {e}) \ {x}
        BY <2>3, <3>2
      <4>2. g[t \ {x}] = e.pulses + g[(t \ {x}) \ {e}]
        BY <2>1, <2>3, <4>1
      <4>3. g[t \ {e}] = x.pulses + g[(t \ {e}) \ {x}]
        BY <2>1, <4>1
      <4>4. e.pulses \in Nat
        OBVIOUS
      <4>5. g[(t \ {e}) \ {x}] \in Nat
        BY <2>1, <4>1
      <4>. DEFINE p == g[t \ {x}]
                  q == g[t \ {e}]
                  w == g[(t \ {e}) \ {x}]
      <4>6. p = e.pulses + w /\ q = x.pulses + w /\ g[t] = x.pulses + p
        BY <2>3, <4>1, <4>2, <4>3, Zenon
      <4>7. w \in Nat
        BY <4>5
      <4>. HIDE DEF p, q, w
      <4>8. x.pulses + p = e.pulses + q
        BY <2>3, <4>4, <4>6, <4>7
      <4>. QED  BY <4>6, <4>8 DEF q
    <3>. QED  BY <3>1, <3>2
  <2>6. g[t] \in Nat
    <3>. DEFINE p == g[t \ {x}]
    <3>1. p \in Nat /\ x.pulses \in Nat /\ g[t] = x.pulses + p
      BY <2>3, <2>4
    <3>. HIDE DEF p
    <3>2. x.pulses + p \in Nat
      BY <3>1
    <3>. QED  BY <3>1, <3>2, Zenon
  <2>. QED  BY <2>5, <2>6
<1>5. Nat \subseteq N
  <2>. HIDE DEF N
  <2>. QED  BY <1>3, <1>4, Induct
<1>6. Cardinality(s) \in N
  BY <1>1, <1>5
<1>. QED  BY <1>6

(* Two additions agree on what both add. *)
LEMMA AddsAgree ==
  ASSUME NEW S, IsFiniteSet(S), NEW T, IsFiniteSet(T), NEW g, Adds(S, g), NEW h, Adds(T, h),
         NEW s \in SUBSET (S \cap T)
  PROVE  g[s] = h[s]
<1>. DEFINE N == {n \in Nat : \A t \in SUBSET (S \cap T) : Cardinality(t) = n => g[t] = h[t]}
<1>1. \A t \in SUBSET (S \cap T) : IsFiniteSet(t) /\ Cardinality(t) \in Nat
  <2>1. \A t \in SUBSET (S \cap T) : IsFiniteSet(t)
    BY FS_Subset
  <2>. QED  BY <2>1, FS_CardinalityType
<1>2. \A t \in SUBSET (S \cap T) :
        /\ g[t] = IF t = {} THEN 0 ELSE Some(t).pulses + g[t \ {Some(t)}]
        /\ h[t] = IF t = {} THEN 0 ELSE Some(t).pulses + h[t \ {Some(t)}]
  BY DEF Adds
<1>3. 0 \in N
  <2>1. \A t \in SUBSET (S \cap T) : Cardinality(t) = 0 => t = {}
    BY <1>1, FS_EmptySet
  <2>. QED  BY <1>2, <2>1
<1>4. ASSUME NEW n \in Nat, n \in N PROVE n + 1 \in N
  <2>. SUFFICES ASSUME NEW t \in SUBSET (S \cap T), Cardinality(t) = n + 1 PROVE g[t] = h[t]
    OBVIOUS
  <2>1. t # {}
    <3>1. n + 1 # 0
      OBVIOUS
    <3>. QED  BY <3>1, FS_EmptySet
  <2>2. Some(t) \in t
    BY <2>1, SomeIsIn
  <2>3. t \ {Some(t)} \in SUBSET (S \cap T) /\ Cardinality(t \ {Some(t)}) = n
    BY <1>1, <2>2, OneLess
  <2>4. g[t \ {Some(t)}] = h[t \ {Some(t)}]
    BY <1>4, <2>3
  <2>. QED  BY <1>2, <2>1, <2>4
<1>5. Nat \subseteq N
  <2>. HIDE DEF N
  <2>. QED  BY <1>3, <1>4, Induct
<1>6. Cardinality(s) \in N
  BY <1>1, <1>5
<1>. QED  BY <1>6

LEMMA PulsesAdds ==
  ASSUME NEW S, IsFiniteSet(S)
  PROVE  \E g : Adds(S, g) /\ Store!Pulses(S) = g[S]
<1>1. Store!Pulses(S) = (CHOOSE g : Adds(S, g))[S]
  BY DEF Store!Pulses, Store!MapThenSumSet, Store!MapThenFoldSet, Adds, Some
<1>2. Adds(S, CHOOSE g : Adds(S, g))
  BY AddsExists
<1>. QED  BY <1>1, <1>2

LEMMA PulsesOfNone == Store!Pulses({}) = 0
<1>1. PICK g : Adds({}, g) /\ Store!Pulses({}) = g[{}]
  BY PulsesAdds, FS_EmptySet
<1>2. g[{}] = 0
  BY <1>1 DEF Adds
<1>. QED  BY <1>1, <1>2

LEMMA PulsesIsNat ==
  ASSUME NEW S, IsFiniteSet(S), \A x \in S : x.pulses \in Nat
  PROVE  Store!Pulses(S) \in Nat
<1>1. PICK g : Adds(S, g) /\ Store!Pulses(S) = g[S]
  BY PulsesAdds
<1>2. S \in SUBSET S
  OBVIOUS
<1>. QED  BY <1>1, <1>2, AddsAny

LEMMA PulsesOfOneMore ==
  ASSUME NEW S, IsFiniteSet(S), \A x \in S : x.pulses \in Nat,
         NEW e, e \notin S, e.pulses \in Nat
  PROVE  Store!Pulses(S \cup {e}) = Store!Pulses(S) + e.pulses /\ Store!Pulses(S) \in Nat
<1>. DEFINE T == S \cup {e}
<1>1. IsFiniteSet(T) /\ (\A x \in T : x.pulses \in Nat) /\ S = T \ {e} /\ e \in T
  BY FS_AddElement
<1>. HIDE DEF T
<1>2. PICK g : Adds(S, g) /\ Store!Pulses(S) = g[S]
  BY PulsesAdds
<1>3. PICK h : Adds(T, h) /\ Store!Pulses(T) = h[T]
  BY <1>1, PulsesAdds
<1>4. h[T] = e.pulses + h[S]
  <2>1. T \in SUBSET T
    OBVIOUS
  <2>. QED  BY <1>1, <1>3, <2>1, AddsAny
<1>5. g[S] = h[S]
  <2>1. S \in SUBSET (S \cap T)
    BY <1>1
  <2>. QED  BY <1>1, <1>2, <1>3, <2>1, AddsAgree
<1>6. g[S] \in Nat
  <2>1. S \in SUBSET S
    OBVIOUS
  <2>. QED  BY <1>2, <2>1, AddsAny
<1>. QED  BY <1>2, <1>3, <1>4, <1>5, <1>6 DEF T

-------------------------------------------------------------------------------
LEMMA Bounds ==
  /\ NoSid \notin Sids /\ Capacity \in 1..16 /\ MaxBatch <= MaxResultPulses
  /\ MaxSeq \in Nat /\ MaxSeq >= 1 /\ MaxLifetime \in Nat /\ MaxLifetime >= 1
  /\ MaxResultPulses \in Nat /\ MaxResultPulses >= 1 /\ MaxBatch \in Nat /\ MaxBatch >= 1
  /\ FlowGap \in Nat /\ FlowGap >= 1 /\ Settling \in Nat /\ Settling >= 1
  /\ Ttl \in Nat /\ Ttl >= 1 /\ Interval \in Nat /\ Interval >= 1
  /\ MaxAdvance \in Nat /\ MaxBoot \in Nat
BY SimulatorAssumption

USE Bounds

-------------------------------------------------------------------------------
(* What EventStore allows one step of the machine, which a batch of edges  *)
(* and the timers make of several changes.                                 *)

EventOf(x) == [seq |-> x.seq, sid |-> x.sid, pulses |-> x.pulses]
OpenOf(m) == IF IsLive(m) THEN {EventOf(m.active)} ELSE {}
LeftOf(m1, m2) == {EventOf(r) : r \in m2.results \ m1.results} \cup OpenOf(m2)

Continues(a, e) == e.seq = a.seq /\ e.sid = a.sid /\ e.pulses >= a.pulses

Follows(m1, m2) ==
  /\ m1.results \subseteq m2.results
  /\ m1.next <= m2.next /\ m1.lifetime <= m2.lifetime /\ m1.recovery <= m2.recovery
  /\ IsLive(m1) => \E e \in LeftOf(m1, m2) : e.seq = m1.active.seq
  /\ \A k \in m1.next..(m2.next - 1) : \E e \in LeftOf(m1, m2) : e.seq = k
  /\ \A e \in LeftOf(m1, m2) : e.seq >= m1.next \/ (IsLive(m1) /\ Continues(m1.active, e))

Unattributed(m1, m2) ==
  \A e \in LeftOf(m1, m2) : e.seq >= m1.next => e.sid = NoSid /\ e.pulses > 0

Held(m) == Store!Pulses(m.results) + m.active.pulses + m.recovery

Pays(m1, m2) ==
  /\ Held(m1) <= Held(m2) /\ Held(m2) - Held(m1) <= m2.lifetime - m1.lifetime
  /\ \/ Held(m2) - Held(m1) = m2.lifetime - m1.lifetime
     \/ m2.lifetime = MaxLifetime \/ m2.next > MaxSeq
     \/ \E r \in m2.results \ m1.results : r.pulses = MaxResultPulses

Extends(m1, m2) == Follows(m1, m2) /\ Unattributed(m1, m2) /\ Pays(m1, m2)

LEMMA NoActiveFields ==
  NoActive.seq = 0 /\ NoActive.pulses = 0 /\ NoActive.state = "idle" /\ NoActive.sid = NoSid
BY DEF NoActive

LEMMA GoodFields ==
  ASSUME NEW m, Good(m)
  PROVE  /\ m.results \in SUBSET Result /\ m.next \in 1..(MaxSeq + 1)
         /\ m.lifetime \in 0..MaxLifetime /\ m.recovery \in Nat
         /\ m.active.pulses \in 0..MaxResultPulses /\ m.active.seq \in 0..MaxSeq
         /\ m.active.sid \in Sids \cup {NoSid}
         /\ IsLive(m) => m.active \in OpenEvent
         /\ IsLive(m) <=> m.active.state \in Live
         /\ IsLive(m) <=> m.active.seq >= 1
         /\ ~IsLive(m) => m.active = NoActive
<1>1. /\ m.results \in SUBSET Result /\ m.next \in 1..(MaxSeq + 1)
      /\ m.lifetime \in 0..MaxLifetime /\ m.recovery \in Nat
      /\ m.active \in OpenEvent \cup {NoActive}
  BY DEF Good, Device
<1>2. \A a \in OpenEvent : /\ a.seq \in 1..MaxSeq /\ a.pulses \in 0..MaxResultPulses
                           /\ a.state \in Live /\ a.sid \in Sids \cup {NoSid}
  BY DEF OpenEvent
<1>3. NoActive.state \notin Live
  BY NoActiveFields DEF Live
<1>. QED  BY <1>1, <1>2, <1>3, NoActiveFields DEF IsLive

LEMMA ResultFields ==
  ASSUME NEW m, Good(m), NEW r \in m.results
  PROVE  /\ r.seq \in 1..(m.next - 1) /\ r.pulses \in 0..MaxResultPulses
         /\ r.status \in Terminal /\ r.sid \in Sids \cup {NoSid}
         /\ r.status = "timed_out" <=> r.pulses = 0
<1>1. r \in Result /\ m.next \in 1..(MaxSeq + 1)
  BY GoodFields
<1>2. /\ r.seq \in 1..MaxSeq /\ r.pulses \in 0..MaxResultPulses
      /\ r.status \in Terminal /\ r.sid \in Sids \cup {NoSid}
  BY <1>1 DEF Result
<1>. QED  BY <1>1, <1>2 DEF Good, GoodResults

LEMMA EventFields == \A x : /\ EventOf(x).seq = x.seq /\ EventOf(x).sid = x.sid
                            /\ EventOf(x).pulses = x.pulses
BY DEF EventOf

LEMMA LeftFields ==
  ASSUME NEW m1, NEW m2, Good(m2), NEW e \in LeftOf(m1, m2)
  PROVE  e.seq \in 1..(m2.next - 1) /\ e.pulses \in Nat
<1>1. CASE e \in OpenOf(m2)
  <2>1. IsLive(m2) /\ e = EventOf(m2.active)
    BY <1>1 DEF OpenOf
  <2>2. m2.active.seq = m2.next - 1 /\ m2.active.seq \in 1..MaxSeq /\ m2.active.pulses \in Nat
        /\ m2.next \in 1..(MaxSeq + 1)
    BY <2>1, GoodFields DEF Good, GoodActive, IsLive, OpenEvent
  <2>. QED  BY <2>1, <2>2, EventFields
<1>2. ASSUME NEW r \in m2.results, e = EventOf(r) PROVE e.seq \in 1..(m2.next - 1) /\ e.pulses \in Nat
  BY <1>2, ResultFields, EventFields
<1>. QED  BY <1>1, <1>2 DEF LeftOf

LEMMA HeldIsNat ==
  ASSUME NEW m, Good(m)
  PROVE  Held(m) \in Nat /\ Store!Pulses(m.results) \in Nat
<1>1. IsFiniteSet(m.results) /\ \A x \in m.results : x.pulses \in Nat
  BY ResultFields DEF Good, GoodResults
<1>2. Store!Pulses(m.results) \in Nat
  BY <1>1, PulsesIsNat
<1>. QED  BY <1>2, GoodFields DEF Held

LEMMA ExtendsTrans ==
  ASSUME NEW m1, NEW m2, NEW m3, Good(m1), Good(m2), Good(m3),
         Extends(m1, m2), Extends(m2, m3)
  PROVE  Extends(m1, m3)
<1>1. /\ m1.results \subseteq m2.results /\ m2.results \subseteq m3.results
      /\ m1.next <= m2.next /\ m2.next <= m3.next
  BY DEF Extends, Follows
<1>2. /\ m1.next \in Nat /\ m2.next \in Nat /\ m3.next \in Nat
      /\ m1.lifetime \in 0..MaxLifetime /\ m2.lifetime \in 0..MaxLifetime
      /\ m3.lifetime \in 0..MaxLifetime
      /\ m1.recovery \in Nat /\ m2.recovery \in Nat /\ m3.recovery \in Nat
      /\ m1.active.pulses \in Nat /\ m2.active.pulses \in Nat /\ m1.active.seq \in Nat
      /\ m2.active.seq \in Nat
  BY GoodFields
<1>3. LeftOf(m2, m3) \subseteq LeftOf(m1, m3)
  BY <1>1 DEF LeftOf
<1>4. \A e \in LeftOf(m1, m3) : e \in LeftOf(m2, m3) \/ e \in LeftOf(m1, m2)
  BY DEF LeftOf
<1>5. \A e \in LeftOf(m1, m2) : e \in LeftOf(m1, m3) \/ (IsLive(m2) /\ e = EventOf(m2.active))
  BY <1>1 DEF LeftOf, OpenOf
<1>6. \A e \in LeftOf(m1, m2) \cup LeftOf(m2, m3) : e.seq \in Nat /\ e.pulses \in Nat
  BY LeftFields
<1>7. IsLive(m2) => /\ EventOf(m2.active) \in LeftOf(m1, m2)
                    /\ EventOf(m2.active).seq = m2.active.seq
                    /\ EventOf(m2.active).sid = m2.active.sid
                    /\ EventOf(m2.active).pulses = m2.active.pulses
  BY EventFields DEF LeftOf, OpenOf
<1>8. \A e \in LeftOf(m1, m2) : \E f \in LeftOf(m1, m3) : f.seq = e.seq
  <2>1. IsLive(m2) => \E f \in LeftOf(m2, m3) : f.seq = m2.active.seq
    BY DEF Extends, Follows
  <2>. QED  BY <1>3, <1>5, <1>7, <2>1
<1>9. Follows(m1, m3)
  <2>1. IsLive(m1) => \E e \in LeftOf(m1, m3) : e.seq = m1.active.seq
    BY <1>8 DEF Extends, Follows
  <2>2. ASSUME NEW k \in m1.next..(m3.next - 1)
        PROVE  \E e \in LeftOf(m1, m3) : e.seq = k
    <3>1. CASE k \in m1.next..(m2.next - 1)
      BY <1>8, <3>1 DEF Extends, Follows
    <3>2. CASE k \in m2.next..(m3.next - 1)
      BY <1>3, <3>2 DEF Extends, Follows
    <3>. QED  BY <1>2, <3>1, <3>2
  <2>3. ASSUME NEW e \in LeftOf(m1, m3)
        PROVE  e.seq >= m1.next \/ (IsLive(m1) /\ Continues(m1.active, e))
    <3>1. CASE e \in LeftOf(m1, m2)
      BY <3>1 DEF Extends, Follows
    <3>2. CASE e \in LeftOf(m2, m3) /\ e.seq >= m2.next
      BY <1>1, <1>2, <1>6, <3>2
    <3>3. CASE e \in LeftOf(m2, m3) /\ IsLive(m2) /\ Continues(m2.active, e)
      <4>1. \/ m2.active.seq >= m1.next
            \/ IsLive(m1) /\ Continues(m1.active, EventOf(m2.active))
        BY <1>7, <3>3 DEF Extends, Follows
      <4>2. e.seq = m2.active.seq /\ e.sid = m2.active.sid /\ e.pulses >= m2.active.pulses
            /\ e.pulses \in Nat
        BY <1>6, <3>3 DEF Continues
      <4>. QED  BY <1>2, <1>7, <3>3, <4>1, <4>2 DEF Continues
    <3>4. e \in LeftOf(m2, m3) => e.seq >= m2.next \/ (IsLive(m2) /\ Continues(m2.active, e))
      BY DEF Extends, Follows
    <3>. QED  BY <1>4, <3>1, <3>2, <3>3, <3>4
  <2>4. m1.lifetime <= m3.lifetime /\ m1.recovery <= m3.recovery /\ m1.next <= m3.next
    BY <1>2 DEF Extends, Follows
  <2>. QED  BY <1>1, <2>1, <2>2, <2>3, <2>4 DEF Follows
<1>10. Unattributed(m1, m3)
  <2>. SUFFICES ASSUME NEW e \in LeftOf(m1, m3), e.seq >= m1.next
                PROVE  e.sid = NoSid /\ e.pulses > 0
    BY DEF Unattributed
  <2>1. CASE e \in LeftOf(m1, m2)
    BY <2>1 DEF Extends, Unattributed
  <2>2. CASE e \in LeftOf(m2, m3) /\ e.seq >= m2.next
    BY <2>2 DEF Extends, Unattributed
  <2>3. CASE e \in LeftOf(m2, m3) /\ IsLive(m2) /\ Continues(m2.active, e)
    <3>1. e.seq = m2.active.seq /\ e.sid = m2.active.sid /\ e.pulses >= m2.active.pulses
      BY <2>3 DEF Continues
    <3>2. m2.active.sid = NoSid /\ m2.active.pulses > 0
      BY <1>7, <2>3, <3>1 DEF Extends, Unattributed
    <3>. QED  BY <1>2, <1>6, <2>3, <3>1, <3>2
  <2>4. e \in LeftOf(m2, m3) => e.seq >= m2.next \/ (IsLive(m2) /\ Continues(m2.active, e))
    BY DEF Extends, Follows
  <2>. QED  BY <1>4, <2>1, <2>2, <2>3, <2>4
<1>11. Pays(m1, m3)
  <2>1. Held(m1) \in Nat /\ Held(m2) \in Nat /\ Held(m3) \in Nat
    BY HeldIsNat
  <2>2. /\ Held(m1) <= Held(m2) /\ Held(m2) - Held(m1) <= m2.lifetime - m1.lifetime
        /\ Held(m2) <= Held(m3) /\ Held(m3) - Held(m2) <= m3.lifetime - m2.lifetime
        /\ m2.lifetime <= m3.lifetime
    BY DEF Extends, Pays, Follows
  <2>. DEFINE full(r) == r.pulses = MaxResultPulses
              slack == \/ m3.lifetime = MaxLifetime \/ m3.next > MaxSeq
                       \/ \E r \in m3.results \ m1.results : full(r)
  <2>3. Held(m2) - Held(m1) = m2.lifetime - m1.lifetime \/ slack
    <3>1. (\E r \in m2.results \ m1.results : full(r)) => slack
      BY <1>1
    <3>2. m2.lifetime = MaxLifetime \/ m2.next > MaxSeq => slack
      BY <1>1, <1>2, <2>2
    <3>. QED  BY <3>1, <3>2 DEF Extends, Pays
  <2>4. Held(m3) - Held(m2) = m3.lifetime - m2.lifetime \/ slack
    <3>1. (\E r \in m3.results \ m2.results : full(r)) => slack
      BY <1>1
    <3>. QED  BY <3>1 DEF Extends, Pays
  <2>. HIDE DEF slack
  <2>5. /\ Held(m1) <= Held(m3) /\ Held(m3) - Held(m1) <= m3.lifetime - m1.lifetime
        /\ Held(m3) - Held(m1) = m3.lifetime - m1.lifetime \/ slack
    BY <1>2, <2>1, <2>2, <2>3, <2>4
  <2>. QED  BY <2>5 DEF slack, Pays
<1>. QED  BY <1>9, <1>10, <1>11 DEF Extends

-------------------------------------------------------------------------------
(* The elementary changes of a machine. *)

(* The open event is closed, with the edge that overflows its pulses. *)
LEMMA ClosesExtends ==
  ASSUME NEW m1, Good(m1), IsLive(m1), NEW m2 \in Device,
         NEW p \in m1.active.pulses..MaxResultPulses, NEW status \in Terminal,
         status = "timed_out" <=> p = 0,
         m2.results = m1.results \cup {[seq |-> m1.active.seq, sid |-> m1.active.sid,
                                        status |-> status, pulses |-> p]},
         m2.active = NoActive, m2.next = m1.next, m2.recovery = m1.recovery,
         p - m1.active.pulses <= m2.lifetime - m1.lifetime,
         \/ p - m1.active.pulses = m2.lifetime - m1.lifetime
         \/ m2.lifetime = MaxLifetime \/ p = MaxResultPulses
  PROVE  Good(m2) /\ Extends(m1, m2)
<1>. DEFINE r == [seq |-> m1.active.seq, sid |-> m1.active.sid,
                  status |-> status, pulses |-> p]
<1>1. /\ m1.active \in OpenEvent /\ m1.active.seq = m1.next - 1
      /\ \A q \in m1.results : q.seq # m1.active.seq
      /\ IsFiniteSet(m1.results) /\ Cardinality(m1.results) < Capacity
      /\ \A q \in m1.results : q.seq < m1.next /\ (q.status = "timed_out" <=> q.pulses = 0)
      /\ \A q, s \in m1.results : q.seq = s.seq => q = s
  BY GoodFields DEF Good, GoodActive, GoodResults, IsLive
<1>2. /\ r.seq = m1.active.seq /\ r.sid = m1.active.sid /\ r.status = status /\ r.pulses = p
      /\ m2.results = m1.results \cup {r}
  OBVIOUS
<1>. HIDE DEF r
<1>3. r \notin m1.results
  BY <1>1, <1>2
<1>4. /\ m1.active.pulses \in Nat /\ m1.active.seq \in Nat /\ p \in Nat
      /\ m1.lifetime \in Nat /\ m2.lifetime \in Nat /\ m1.next \in Nat
      /\ m1.recovery \in Nat
  BY GoodFields DEF Device
<1>5. /\ IsFiniteSet(m2.results) /\ Cardinality(m2.results) = Cardinality(m1.results) + 1
      /\ Cardinality(m1.results) \in Nat
  <2>. DEFINE S == m1.results
  <2>1. IsFiniteSet(S) /\ r \notin S /\ m2.results = S \cup {r}
    BY <1>1, <1>2, <1>3
  <2>. HIDE DEF S
  <2>2. IsFiniteSet(S \cup {r}) /\ Cardinality(S \cup {r}) = Cardinality(S) + 1
    BY ONLY <2>1, FS_AddElement
  <2>3. Cardinality(S) \in Nat
    BY ONLY <2>1, FS_CardinalityType
  <2>. QED  BY <2>1, <2>2, <2>3 DEF S
<1>6. ~IsLive(m2) /\ m2.active.pulses = 0
  BY NoActiveFields DEF IsLive
<1>7. Good(m2)
  <2>1. GoodResults(m2)
    <3>1. Cardinality(m2.results) <= Capacity
      BY <1>1, <1>5
    <3>2. \A q \in m2.results : q.seq < m2.next /\ (q.status = "timed_out" <=> q.pulses = 0)
      BY <1>1, <1>2, <1>4
    <3>3. \A q, s \in m2.results : q.seq = s.seq => q = s
      BY <1>1, <1>2
    <3>. QED  BY <1>5, <3>1, <3>2, <3>3 DEF GoodResults
  <2>. QED  BY <1>6, <2>1 DEF Good, GoodActive, IsLive
<1>8. LeftOf(m1, m2) = {EventOf(r)}
  <2>1. m2.results \ m1.results = {r}
    BY <1>2, <1>3
  <2>. QED  BY <1>6, <2>1 DEF LeftOf, OpenOf
<1>9. EventOf(r).seq = m1.active.seq /\ EventOf(r).sid = m1.active.sid /\ EventOf(r).pulses = p
  BY <1>2, EventFields
<1>10. Follows(m1, m2)
  <2>1. m1.next..(m2.next - 1) = {}
    BY <1>4
  <2>2. m1.lifetime <= m2.lifetime
    BY <1>4
  <2>. QED  BY <1>2, <1>4, <1>8, <1>9, <2>1, <2>2 DEF Follows, Continues
<1>11. Unattributed(m1, m2)
  BY <1>1, <1>4, <1>8, <1>9 DEF Unattributed
<1>12. Pays(m1, m2)
  <2>1. /\ Store!Pulses(m2.results) = Store!Pulses(m1.results) + p
        /\ Store!Pulses(m1.results) \in Nat
    <3>1. \A x \in m1.results : x.pulses \in Nat
      BY ResultFields
    <3>. DEFINE S == m1.results
    <3>2. IsFiniteSet(S) /\ r \notin S /\ m2.results = S \cup {r} /\ r.pulses = p /\ p \in Nat
      BY <1>1, <1>2, <1>3, <1>4
    <3>3. \A x \in S : x.pulses \in Nat
      BY <3>1
    <3>. HIDE DEF S
    <3>4. Store!Pulses(S \cup {r}) = Store!Pulses(S) + r.pulses /\ Store!Pulses(S) \in Nat
      BY ONLY <3>2, <3>3, PulsesOfOneMore
    <3>. QED  BY <3>2, <3>4 DEF S
  <2>. DEFINE P == Store!Pulses(m1.results)
  <2>2. Held(m1) = P + m1.active.pulses + m1.recovery /\ Held(m2) = P + p + 0 + m1.recovery
    BY <1>6, <2>1 DEF Held
  <2>3. P \in Nat
    BY <2>1
  <2>. HIDE DEF P
  <2>4. /\ Held(m1) <= Held(m2) /\ Held(m2) - Held(m1) <= m2.lifetime - m1.lifetime
        /\ \/ Held(m2) - Held(m1) = m2.lifetime - m1.lifetime
           \/ m2.lifetime = MaxLifetime \/ p = MaxResultPulses
    BY <1>4, <2>2, <2>3
  <2>. QED  BY <1>2, <1>3, <2>4 DEF Pays
<1>. QED  BY <1>7, <1>10, <1>11, <1>12 DEF Extends

(* The open event goes on, with what is added to it; or none is open. *)
LEMMA GoesOnExtends ==
  ASSUME NEW m1, Good(m1), NEW m2 \in Device,
         m2.results = m1.results, m2.next = m1.next, m2.recovery = m1.recovery,
         IsLive(m2) <=> IsLive(m1),
         m2.active.seq = m1.active.seq, m2.active.sid = m1.active.sid,
         m2.active.pulses >= m1.active.pulses,
         m2.active.state = "armed" => m1.active.state = "armed",
         IsLive(m2) => (m2.active.state = "armed" <=> m2.active.pulses = 0),
         m2.active.pulses - m1.active.pulses <= m2.lifetime - m1.lifetime,
         \/ m2.active.pulses - m1.active.pulses = m2.lifetime - m1.lifetime
         \/ m2.lifetime = MaxLifetime \/ m2.next > MaxSeq
  PROVE  Good(m2) /\ Extends(m1, m2)
<1>1. /\ m1.active.pulses \in Nat /\ m2.active.pulses \in Nat /\ m1.active.seq \in Nat
      /\ m1.lifetime \in Nat /\ m2.lifetime \in Nat /\ m1.next \in Nat /\ m1.recovery \in Nat
  <2>1. m2.active \in OpenEvent \cup {NoActive} /\ m2.lifetime \in Nat
    BY DEF Device
  <2>. QED  BY <2>1, GoodFields, NoActiveFields DEF OpenEvent
<1>2. Good(m2)
  BY DEF Good, GoodResults, GoodActive, IsLive
<1>3. LeftOf(m1, m2) = IF IsLive(m1) THEN {EventOf(m2.active)} ELSE {}
  BY DEF LeftOf, OpenOf
<1>4. /\ EventOf(m2.active).seq = m1.active.seq /\ EventOf(m2.active).sid = m1.active.sid
      /\ EventOf(m2.active).pulses = m2.active.pulses
  BY EventFields
<1>5. Follows(m1, m2)
  <2>1. m1.next..(m2.next - 1) = {} /\ m1.lifetime <= m2.lifetime
    BY <1>1
  <2>. QED  BY <1>1, <1>3, <1>4, <2>1 DEF Follows, Continues
<1>6. Unattributed(m1, m2)
  <2>1. IsLive(m1) => m1.active.seq < m1.next
    BY <1>1 DEF Good, GoodActive, IsLive
  <2>. QED  BY <1>1, <1>3, <1>4, <2>1 DEF Unattributed
<1>7. Pays(m1, m2)
  <2>. DEFINE P == Store!Pulses(m1.results)
  <2>1. P \in Nat
    BY HeldIsNat
  <2>2. Held(m1) = P + m1.active.pulses + m1.recovery
        /\ Held(m2) = P + m2.active.pulses + m1.recovery
    BY DEF Held
  <2>. HIDE DEF P
  <2>. QED  BY <1>1, <2>1, <2>2 DEF Pays
<1>. QED  BY <1>2, <1>5, <1>6, <1>7 DEF Extends

(* An event is opened by pulses. *)
LEMMA OpensExtends ==
  ASSUME NEW m1, Good(m1), ~IsLive(m1), ~Full(m1), NEW m2 \in Device, IsLive(m2),
         NEW count \in 1..MaxResultPulses,
         m2.results = m1.results, m2.next = m1.next + 1, m2.recovery = m1.recovery,
         m2.active.seq = m1.next, m2.active.sid = NoSid, m2.active.state # "armed",
         m2.active.pulses = count, m2.lifetime = m1.lifetime + count
  PROVE  Good(m2) /\ Extends(m1, m2)
<1>1. /\ m1.lifetime \in Nat /\ m2.lifetime \in Nat /\ m1.next \in Nat /\ m1.recovery \in Nat
      /\ m1.active.pulses = 0
  BY GoodFields, NoActiveFields DEF Device
<1>2. Good(m2)
  <2>1. \A r \in m1.results : r.seq \in 1..(m1.next - 1)
    BY ResultFields
  <2>2. Cardinality(m1.results) < Capacity
    <3>1. Cardinality(m1.results) \in Nat
      BY FS_CardinalityType DEF Good, GoodResults
    <3>. QED  BY <3>1 DEF Full
  <2>3. \A r \in m1.results : r.seq # m2.active.seq /\ r.seq < m2.next
    BY <1>1, <2>1
  <2>. QED  BY <1>1, <2>2, <2>3 DEF Good, GoodResults, GoodActive
<1>3. LeftOf(m1, m2) = {EventOf(m2.active)}
  BY DEF LeftOf, OpenOf
<1>4. /\ EventOf(m2.active).seq = m1.next /\ EventOf(m2.active).sid = NoSid
      /\ EventOf(m2.active).pulses = count
  BY EventFields
<1>5. Follows(m1, m2)
  <2>1. \A k \in m1.next..(m2.next - 1) : k = m1.next
    BY <1>1
  <2>. QED  BY <1>1, <1>3, <1>4, <2>1 DEF Follows
<1>6. Unattributed(m1, m2)
  BY <1>3, <1>4 DEF Unattributed
<1>7. Pays(m1, m2)
  <2>. DEFINE P == Store!Pulses(m1.results)
  <2>1. P \in Nat
    BY HeldIsNat
  <2>2. Held(m1) = P + 0 + m1.recovery /\ Held(m2) = P + count + m1.recovery
    BY <1>1 DEF Held
  <2>. HIDE DEF P
  <2>. QED  BY <1>1, <2>1, <2>2 DEF Pays
<1>. QED  BY <1>2, <1>5, <1>6, <1>7 DEF Extends

(* Pulses are counted outside any event, or no more than counted. *)
LEMMA SpillsExtends ==
  ASSUME NEW m1, Good(m1), ~IsLive(m1), NEW m2 \in Device,
         m2.results = m1.results, m2.next = m1.next, m2.active = m1.active,
         NEW count \in Nat, m2.lifetime = m1.lifetime + count,
         \/ m2.recovery = m1.recovery + count
         \/ m2.recovery = m1.recovery /\ m2.next > MaxSeq
  PROVE  Good(m2) /\ Extends(m1, m2)
<1>1. /\ m1.lifetime \in Nat /\ m1.next \in Nat /\ m1.recovery \in Nat /\ m1.active.pulses \in Nat
  BY GoodFields
<1>2. Good(m2)
  BY DEF Good, GoodResults, GoodActive
<1>3. LeftOf(m1, m2) = {}
  BY DEF LeftOf, OpenOf, IsLive
<1>4. Follows(m1, m2)
  <2>1. m1.next..(m2.next - 1) = {} /\ m1.lifetime <= m2.lifetime /\ m1.recovery <= m2.recovery
    BY <1>1
  <2>. QED  BY <1>1, <1>3, <2>1 DEF Follows
<1>5. Unattributed(m1, m2)
  BY <1>3 DEF Unattributed
<1>6. Pays(m1, m2)
  <2>. DEFINE P == Store!Pulses(m1.results)
  <2>1. P \in Nat
    BY HeldIsNat
  <2>2. Held(m1) = P + m1.active.pulses + m1.recovery
        /\ Held(m2) = P + m1.active.pulses + m2.recovery
    BY DEF Held
  <2>. HIDE DEF P
  <2>. QED  BY <1>1, <2>1, <2>2 DEF Pays
<1>. QED  BY <1>2, <1>4, <1>5, <1>6 DEF Extends

-------------------------------------------------------------------------------
(* The calls of DeviceSessionMachine. *)

Keeps(m1, m2) == Good(m2) /\ Extends(m1, m2)

LEMMA KeepsTrans ==
  ASSUME NEW m1, NEW m2, NEW m3, Good(m1), Keeps(m1, m2), Keeps(m2, m3)
  PROVE  Keeps(m1, m3)
BY ExtendsTrans DEF Keeps

LEMMA KeepsSame ==
  ASSUME NEW m, Good(m)
  PROVE  Keeps(m, m)
<1>1. m \in Device /\ m.active.pulses \in Nat /\ m.lifetime \in Nat
  BY GoodFields DEF Good
<1>2. IsLive(m) => (m.active.state = "armed" <=> m.active.pulses = 0)
  BY DEF Good, GoodActive, IsLive
<1>. QED  BY <1>1, <1>2, GoodFields, GoesOnExtends DEF Keeps

LEMMA FinalizeFields ==
  ASSUME NEW m \in Device, m.active \in OpenEvent, NEW status \in Terminal
  PROVE  /\ Finalize(m, status) \in Device
         /\ Finalize(m, status).results
              = m.results \cup {[seq |-> m.active.seq, sid |-> m.active.sid,
                                 status |-> status, pulses |-> m.active.pulses]}
         /\ Finalize(m, status).active = NoActive
         /\ Finalize(m, status).state = status
         /\ Finalize(m, status).next = m.next
         /\ Finalize(m, status).lifetime = m.lifetime
         /\ Finalize(m, status).recovery = m.recovery
<1>1. [seq |-> m.active.seq, sid |-> m.active.sid,
       status |-> status, pulses |-> m.active.pulses] \in Result
  BY DEF OpenEvent, Result
<1>. QED  BY <1>1 DEF Finalize, Device

LEMMA FinalizeKeeps ==
  ASSUME NEW m, Good(m), IsLive(m), NEW status \in Terminal,
         status = "timed_out" <=> m.active.pulses = 0
  PROVE  Keeps(m, Finalize(m, status))
<1>1. m \in Device /\ m.active \in OpenEvent /\ m.active.pulses \in 0..MaxResultPulses
      /\ m.lifetime \in Nat
  BY GoodFields DEF Good
<1>2. m.active.pulses \in m.active.pulses..MaxResultPulses
  BY <1>1
<1>3. m.active.pulses - m.active.pulses = m.lifetime - m.lifetime
  BY <1>1
<1>. DEFINE n == Finalize(m, status)
<1>4. /\ n \in Device /\ n.active = NoActive /\ n.next = m.next /\ n.recovery = m.recovery
      /\ n.lifetime = m.lifetime
      /\ n.results = m.results \cup {[seq |-> m.active.seq, sid |-> m.active.sid,
                                      status |-> status, pulses |-> m.active.pulses]}
  BY <1>1, FinalizeFields
<1>. HIDE DEF n
<1>5. Good(n) /\ Extends(m, n)
  BY <1>1, <1>2, <1>3, <1>4, ClosesExtends
<1>. QED  BY <1>5 DEF n, Keeps

(* The pulses of an event say whether it is armed. *)
LEMMA ArmedIsEmpty ==
  ASSUME NEW m, Good(m), IsLive(m)
  PROVE  m.active.state = "armed" <=> m.active.pulses = 0
BY DEF Good, GoodActive, IsLive

(* The first half of tick(): the flow gap of a pour has passed. *)
Settles(m) ==
  [m EXCEPT !.active.state = "settling", !.active.left = m.active.left + Settling,
            !.state = "settling"]

LEMMA SettlesKeeps ==
  ASSUME NEW m, Good(m), m.active.state = "pouring"
  PROVE  /\ Keeps(m, Settles(m)) /\ IsLive(Settles(m))
         /\ Settles(m).active.state = "settling" /\ Settles(m).results = m.results
         /\ Settles(m).active.left = m.active.left + Settling
         /\ Settles(m).lifetime = m.lifetime
<1>1. IsLive(m) /\ m.active \in OpenEvent /\ m \in Device
  BY GoodFields DEF Live, Good
<1>2. m.active.pulses # 0
  BY <1>1, ArmedIsEmpty
<1>. DEFINE left == m.active.left + Settling
            a == [m.active EXCEPT !.state = "settling", !.left = left]
            n == Settles(m)
<1>0. left \in Int
  BY <1>1 DEF OpenEvent
<1>4. n = [m EXCEPT !.active = a, !.state = "settling"]
  BY <1>1 DEF Settles, Device, OpenEvent
<1>. HIDE DEF left
<1>3. /\ a \in OpenEvent /\ a.state = "settling" /\ a.left = left
      /\ a.seq = m.active.seq /\ a.sid = m.active.sid /\ a.pulses = m.active.pulses
  BY <1>0, <1>1 DEF OpenEvent, Live
<1>. HIDE DEF a, n
<1>5. /\ n \in Device /\ n.active = a /\ n.results = m.results /\ n.next = m.next
      /\ n.recovery = m.recovery /\ n.lifetime = m.lifetime
  BY <1>1, <1>3, <1>4 DEF Device, Live
<1>6. IsLive(n)
  BY <1>3, <1>5, NoActiveFields DEF IsLive
<1>7. m.active.pulses \in Nat /\ m.lifetime \in Nat
  BY GoodFields
<1>8. Good(n) /\ Extends(m, n)
  BY <1>1, <1>2, <1>3, <1>5, <1>6, <1>7, GoesOnExtends
<1>. QED  BY <1>3, <1>5, <1>6, <1>8 DEF n, left, Keeps

(* What a tick does, by the state of the open event. *)
LEMMA TickCases ==
  ASSUME NEW m, Good(m)
  PROVE  \/ /\ m.active.state = "armed" /\ m.active.left <= 0
            /\ Tick(m) = Finalize(m, "timed_out")
         \/ /\ m.active.state = "settling" /\ m.active.left <= 0
            /\ Tick(m) = Finalize(m, "complete")
         \/ /\ m.active.state = "pouring" /\ m.active.left <= 0
            /\ m.active.left + Settling <= 0
            /\ Tick(m) = Finalize(Settles(m), "complete")
         \/ /\ m.active.state = "pouring" /\ m.active.left <= 0
            /\ Tick(m) = Settles(m)
         \/ Tick(m) = m
<1>1. CASE m.active.state = "pouring" /\ m.active.left <= 0
  <2>. DEFINE s == Settles(m)
  <2>1. s.active.state = "settling" /\ s.active.left = m.active.left + Settling
    BY <1>1, SettlesKeeps
  <2>2. Tick(m) = IF s.active.state = "settling" /\ s.active.left <= 0
                  THEN Finalize(s, "complete") ELSE s
    BY <1>1 DEF Tick, Settles
  <2>. HIDE DEF s
  <2>. QED  BY <1>1, <2>1, <2>2 DEF s
<1>2. CASE ~(m.active.state = "pouring" /\ m.active.left <= 0)
  <2>1. Tick(m) = IF m.active.state = "armed" /\ m.active.left <= 0
                  THEN Finalize(m, "timed_out")
                  ELSE IF m.active.state = "settling" /\ m.active.left <= 0
                       THEN Finalize(m, "complete") ELSE m
    BY <1>2, Zenon DEF Tick
  <2>. QED  BY <2>1
<1>. QED  BY <1>1, <1>2

LEMMA TickKeeps ==
  ASSUME NEW m, Good(m)
  PROVE  Keeps(m, Tick(m))
<1>1. m.active.state \in Live => IsLive(m)
  BY GoodFields
<1>2. CASE m.active.state = "armed" /\ Tick(m) = Finalize(m, "timed_out")
  BY <1>1, <1>2, ArmedIsEmpty, FinalizeKeeps DEF Live, Terminal
<1>3. CASE m.active.state = "settling" /\ Tick(m) = Finalize(m, "complete")
  <2>1. m.active.pulses # 0 /\ IsLive(m)
    BY <1>1, <1>3, ArmedIsEmpty DEF Live
  <2>. QED  BY <1>3, <2>1, FinalizeKeeps DEF Terminal
<1>4. CASE m.active.state = "pouring" /\ Tick(m) = Finalize(Settles(m), "complete")
  <2>. DEFINE s == Settles(m)
  <2>1. Keeps(m, s) /\ IsLive(s) /\ s.active.state = "settling"
    BY <1>4, SettlesKeeps
  <2>. HIDE DEF s
  <2>2. Good(s) /\ s.active.pulses # 0
    BY <2>1, ArmedIsEmpty DEF Keeps
  <2>3. Keeps(s, Finalize(s, "complete"))
    BY <2>1, <2>2, FinalizeKeeps DEF Terminal
  <2>4. Keeps(m, Finalize(s, "complete"))
    BY <2>1, <2>2, <2>3, KeepsTrans
  <2>. QED  BY <1>4, <2>4 DEF s
<1>5. CASE m.active.state = "pouring" /\ Tick(m) = Settles(m)
  BY <1>5, SettlesKeeps
<1>6. CASE Tick(m) = m
  BY <1>6, KeepsSame
<1>. QED  BY <1>2, <1>3, <1>4, <1>5, <1>6, TickCases

LEMMA AgeKeeps ==
  ASSUME NEW m, Good(m), NEW time \in Nat
  PROVE  /\ Keeps(m, Age(m, time))
         /\ Age(m, time).results = m.results /\ Age(m, time).lifetime = m.lifetime
         /\ Age(m, time).active.state = m.active.state
         /\ IsLive(Age(m, time)) <=> IsLive(m)
         /\ IsLive(m) => /\ Age(m, time).active.left >= m.active.left - time
                         /\ Age(m, time).active.left \in Int
<1>1. CASE ~IsLive(m)
  BY <1>1, KeepsSame DEF Age
<1>2. CASE IsLive(m)
  <2>1. m.active \in OpenEvent /\ m \in Device
    BY <1>2, GoodFields DEF Good
  <2>. DEFINE left == Most(m.active.left - time, LeftFloor)
              a == [m.active EXCEPT !.left = left]
              n == Age(m, time)
  <2>2. left \in Int /\ left >= m.active.left - time
    BY <2>1 DEF Most, LeftFloor, OpenEvent
  <2>. HIDE DEF left
  <2>3. /\ a \in OpenEvent /\ a.state = m.active.state /\ a.left = left
        /\ a.seq = m.active.seq /\ a.sid = m.active.sid /\ a.pulses = m.active.pulses
    BY <2>1, <2>2 DEF OpenEvent
  <2>4. n = [m EXCEPT !.active = a]
    BY <1>2, <2>1 DEF Age, left, Device, OpenEvent
  <2>. HIDE DEF a, n
  <2>5. /\ n \in Device /\ n.active = a /\ n.results = m.results /\ n.next = m.next
        /\ n.recovery = m.recovery /\ n.lifetime = m.lifetime
    BY <2>1, <2>3, <2>4 DEF Device
  <2>6. IsLive(n)
    BY <2>3, <2>5, <2>1, NoActiveFields DEF IsLive, OpenEvent
  <2>7. m.active.pulses \in Nat /\ m.lifetime \in Nat
    BY GoodFields
  <2>8. m.active.state = "armed" <=> m.active.pulses = 0
    BY <1>2, ArmedIsEmpty
  <2>9. Good(n) /\ Extends(m, n)
    BY <1>2, <2>3, <2>5, <2>6, <2>7, <2>8, GoesOnExtends
  <2>. QED  BY <1>2, <2>2, <2>3, <2>5, <2>6, <2>9 DEF n, Keeps
<1>. QED  BY <1>1, <1>2

(* A terminal state is left for idle. *)
LEMMA IdleKeeps ==
  ASSUME NEW m, Good(m)
  PROVE  LET n == [m EXCEPT !.state = "idle"]
         IN  Keeps(m, n) /\ n.results = m.results /\ n.active = m.active
             /\ n.lifetime = m.lifetime /\ n.next = m.next /\ n.recovery = m.recovery
<1>. DEFINE n == [m EXCEPT !.state = "idle"]
<1>1. m \in Device
  BY DEF Good
<1>2. /\ n \in Device /\ n.active = m.active /\ n.results = m.results /\ n.next = m.next
      /\ n.recovery = m.recovery /\ n.lifetime = m.lifetime
  BY <1>1 DEF Device
<1>. HIDE DEF n
<1>3. m.active.pulses \in Nat /\ m.lifetime \in Nat
  BY GoodFields
<1>4. IsLive(n) <=> IsLive(m)
  BY <1>2 DEF IsLive
<1>5. Good(n) /\ Extends(m, n)
  BY <1>2, <1>3, <1>4, ArmedIsEmpty, GoesOnExtends
<1>. QED  BY <1>2, <1>5 DEF n, Keeps

(* A result that ends by the clock is due to a deadline that has passed. *)
EdgeEnds(m1, m2) ==
  \A r \in m2.results \ m1.results :
    /\ r.status = "timed_out" =>
         m1.active.state = "armed" /\ m1.active.left < 0 /\ m1.lifetime < m2.lifetime
    /\ r.status = "complete" =>
         m1.active.state = "settling" /\ m1.active.left < 0 /\ m1.lifetime < m2.lifetime

LEMMA LateKeeps ==
  ASSUME NEW m, Good(m)
  PROVE  /\ Keeps(m, TickIfLate(m)) /\ TickIfLate(m).lifetime = m.lifetime
         /\ \A r \in TickIfLate(m).results \ m.results :
              /\ r.status = "timed_out" => m.active.state = "armed" /\ m.active.left < 0
              /\ r.status = "complete" => m.active.state = "settling" /\ m.active.left < 0
<1>. DEFINE t == IF m.active.state \in {"armed", "settling"} /\ m.active.left < 0
                 THEN Tick(m) ELSE m
<1>1. Keeps(m, t)
  BY TickKeeps, KeepsSame
<1>2. t.lifetime = m.lifetime
      /\ \A r \in t.results \ m.results :
           /\ r.status = "timed_out" => m.active.state = "armed" /\ m.active.left < 0
           /\ r.status = "complete" => m.active.state = "settling" /\ m.active.left < 0
  <2>1. CASE m.active.state \in {"armed", "settling"} /\ m.active.left < 0
    <3>1. IsLive(m) /\ m \in Device /\ m.active \in OpenEvent
      BY <2>1, GoodFields DEF Live, Good
    <3>2. \A status \in Terminal :
            /\ Finalize(m, status).lifetime = m.lifetime
            /\ \A r \in Finalize(m, status).results \ m.results : r.status = status
      BY <3>1, FinalizeFields
    <3>3. \/ m.active.state = "armed" /\ Tick(m) = Finalize(m, "timed_out")
          \/ m.active.state = "settling" /\ Tick(m) = Finalize(m, "complete")
          \/ Tick(m) = m
      BY <2>1, TickCases
    <3>4. t = Tick(m)
      BY <2>1
    <3>. HIDE DEF t
    <3>. QED  BY <2>1, <3>2, <3>3, <3>4 DEF Terminal
  <2>2. CASE ~(m.active.state \in {"armed", "settling"} /\ m.active.left < 0)
    BY <2>2
  <2>. QED  BY <2>1, <2>2
<1>3. TickIfLate(m) = IF ~IsLive(t) /\ t.state \in Terminal THEN [t EXCEPT !.state = "idle"] ELSE t
  BY DEF TickIfLate
<1>. HIDE DEF t
<1>4. CASE TickIfLate(m) = t
  BY <1>1, <1>2, <1>4
<1>5. CASE TickIfLate(m) = [t EXCEPT !.state = "idle"]
  <2>. DEFINE n == [t EXCEPT !.state = "idle"]
  <2>1. Keeps(t, n) /\ n.results = t.results /\ n.lifetime = t.lifetime
    BY <1>1, IdleKeeps DEF Keeps
  <2>2. TickIfLate(m) = n
    BY <1>5
  <2>. HIDE DEF n
  <2>. QED  BY <1>1, <1>2, <2>1, <2>2, KeepsTrans
<1>. QED  BY <1>3, <1>4, <1>5

(* An edge, once the deadlines are settled: what it leaves open flows. *)
Flows(m) == m.active = NoActive \/ (m.active.state = "pouring" /\ m.active.left = FlowGap)

Counted(m, count) == [m EXCEPT !.lifetime = m.lifetime + count]

LEMMA CountedFields ==
  ASSUME NEW m, Good(m), NEW count \in 1..MaxBatch, m.lifetime + count <= MaxLifetime
  PROVE  /\ Counted(m, count) \in Device
         /\ Counted(m, count).active = m.active /\ Counted(m, count).results = m.results
         /\ Counted(m, count).next = m.next /\ Counted(m, count).recovery = m.recovery
         /\ Counted(m, count).state = m.state
         /\ Counted(m, count).lifetime = m.lifetime + count
<1>1. m \in Device /\ m.lifetime + count \in 0..MaxLifetime
  BY GoodFields DEF Good
<1>. DEFINE l == m.lifetime + count
<1>2. l \in 0..MaxLifetime
  BY <1>1
<1>3. Counted(m, count) = [m EXCEPT !.lifetime = l]
  BY DEF Counted
<1>. HIDE DEF l
<1>4. /\ Counted(m, count) \in Device
      /\ Counted(m, count).active = m.active /\ Counted(m, count).results = m.results
      /\ Counted(m, count).next = m.next /\ Counted(m, count).recovery = m.recovery
      /\ Counted(m, count).state = m.state
      /\ Counted(m, count).lifetime = l
  BY <1>1, <1>2, <1>3 DEF Device
<1>. QED  BY <1>4 DEF l

LEMMA AccumulateKeeps ==
  ASSUME NEW t, Good(t), IsLive(t), NEW count \in 1..MaxBatch, t.lifetime + count <= MaxLifetime
  PROVE  LET n == Accumulate(Counted(t, count), count)
         IN  /\ Keeps(t, n) /\ Flows(n) /\ n.lifetime = t.lifetime + count
             /\ \A r \in n.results \ t.results : r.status = "interrupted"
<1>. DEFINE u == Counted(t, count)
            n == Accumulate(u, count)
<1>1. /\ u \in Device /\ u.active = t.active /\ u.results = t.results /\ u.next = t.next
      /\ u.recovery = t.recovery /\ u.lifetime = t.lifetime + count
  BY CountedFields
<1>2. /\ t.active \in OpenEvent /\ t.active.pulses \in 0..MaxResultPulses /\ t.lifetime \in Nat
  BY GoodFields
<1>. HIDE DEF u
<1>3. CASE u.active.pulses > MaxResultPulses - count
  <2>. DEFINE a == [u.active EXCEPT !.pulses = MaxResultPulses]
              v == [u EXCEPT !.active.pulses = MaxResultPulses]
  <2>1. /\ a \in OpenEvent /\ a.seq = t.active.seq /\ a.sid = t.active.sid
        /\ a.pulses = MaxResultPulses
    BY <1>1, <1>2 DEF OpenEvent
  <2>2. v = [u EXCEPT !.active = a]
    BY <1>1, <1>2 DEF Device, OpenEvent
  <2>. HIDE DEF a, v
  <2>3. /\ v \in Device /\ v.active = a /\ v.results = t.results /\ v.next = t.next
        /\ v.recovery = t.recovery /\ v.lifetime = t.lifetime + count
    BY <1>1, <2>1, <2>2 DEF Device
  <2>4. n = Finalize(v, "interrupted")
    BY <1>3 DEF Accumulate, v
  <2>. HIDE DEF n
  <2>5. /\ n \in Device /\ n.active = NoActive /\ n.next = t.next /\ n.recovery = t.recovery
        /\ n.lifetime = t.lifetime + count
        /\ n.results = t.results \cup {[seq |-> t.active.seq, sid |-> t.active.sid,
                                        status |-> "interrupted", pulses |-> MaxResultPulses]}
    BY <2>1, <2>3, <2>4, FinalizeFields DEF Terminal
  <2>6. MaxResultPulses \in t.active.pulses..MaxResultPulses
    BY <1>2
  <2>7. MaxResultPulses - t.active.pulses <= n.lifetime - t.lifetime
    BY <1>1, <1>2, <1>3, <2>5
  <2>8. "interrupted" \in Terminal /\ MaxResultPulses # 0
    BY DEF Terminal
  <2>9. Good(n) /\ Extends(t, n)
    BY <2>5, <2>6, <2>7, <2>8, ClosesExtends
  <2>. QED  BY <2>5, <2>9 DEF n, u, Keeps, Flows
<1>4. CASE ~(u.active.pulses > MaxResultPulses - count)
  <2>. DEFINE p == u.active.pulses + count
              a == [u.active EXCEPT !.pulses = p, !.left = FlowGap, !.state = "pouring"]
  <2>1. p \in 1..MaxResultPulses /\ p = t.active.pulses + count
    BY <1>1, <1>2, <1>4
  <2>2. n = [u EXCEPT !.active = a, !.state = "pouring"]
    BY <1>1, <1>2, <1>4 DEF Accumulate, Device, OpenEvent
  <2>. HIDE DEF p
  <2>3. /\ a \in OpenEvent /\ a.seq = t.active.seq /\ a.sid = t.active.sid /\ a.pulses = p
        /\ a.state = "pouring" /\ a.left = FlowGap
    <3>1. p \in 0..MaxResultPulses /\ FlowGap \in Int /\ u.active \in OpenEvent
      BY <1>1, <1>2, <2>1
    <3>2. /\ a.seq = u.active.seq /\ a.sid = u.active.sid /\ a.pulses = p
          /\ a.state = "pouring" /\ a.left = FlowGap
      BY ONLY <3>1 DEF OpenEvent
    <3>3. a \in OpenEvent
      BY ONLY <3>1 DEF OpenEvent, Live
    <3>. QED  BY <1>1, <3>2, <3>3
  <2>. HIDE DEF a, n
  <2>4. /\ n \in Device /\ n.active = a /\ n.results = t.results /\ n.next = t.next
        /\ n.recovery = t.recovery /\ n.lifetime = t.lifetime + count
    BY <1>1, <2>2, <2>3 DEF Device, Live
  <2>5. IsLive(n)
    BY <2>3, <2>4, NoActiveFields DEF IsLive
  <2>6. /\ a.pulses >= t.active.pulses /\ a.pulses # 0
        /\ a.pulses - t.active.pulses = n.lifetime - t.lifetime
        /\ a.pulses - t.active.pulses <= n.lifetime - t.lifetime
    BY <1>2, <2>1, <2>3, <2>4
  <2>7. Good(n) /\ Extends(t, n)
    BY <2>3, <2>4, <2>5, <2>6, GoesOnExtends
  <2>. QED  BY <2>3, <2>4, <2>7 DEF n, u, Keeps, Flows
<1>. QED  BY <1>3, <1>4

LEMMA OpenKeeps ==
  ASSUME NEW t, Good(t), ~IsLive(t), NEW count \in 1..MaxBatch, t.lifetime + count <= MaxLifetime
  PROVE  LET n == OpenUnattributed(Counted(t, count), count)
         IN  /\ Keeps(t, n) /\ Flows(n) /\ n.lifetime = t.lifetime + count
             /\ n.results = t.results
<1>. DEFINE u == Counted(t, count)
            n == OpenUnattributed(u, count)
<1>1. /\ u \in Device /\ u.active = t.active /\ u.results = t.results /\ u.next = t.next
      /\ u.recovery = t.recovery /\ u.lifetime = t.lifetime + count
  BY CountedFields
<1>2. t.lifetime \in Nat /\ t.next \in 1..(MaxSeq + 1) /\ t.recovery \in Nat /\ t.active = NoActive
  BY GoodFields
<1>. HIDE DEF u
<1>3. CASE Full(u)
  <2>. DEFINE c == u.recovery + count
  <2>1. c \in Nat
    BY <1>1, <1>2
  <2>2. n = [u EXCEPT !.recovery = c]
    BY <1>3 DEF OpenUnattributed
  <2>. HIDE DEF c, n
  <2>3. /\ n \in Device /\ n.active = t.active /\ n.results = t.results /\ n.next = t.next
        /\ n.recovery = c /\ n.lifetime = t.lifetime + count
    BY <1>1, <2>1, <2>2 DEF Device
  <2>4. Good(n) /\ Extends(t, n)
    <3>1. n.recovery = t.recovery + count
      BY <1>1, <2>3 DEF c
    <3>. QED  BY <2>3, <3>1, SpillsExtends
  <2>. QED  BY <1>2, <2>3, <2>4 DEF n, u, Keeps, Flows
<1>4. CASE ~Full(u) /\ u.next > MaxSeq
  <2>1. n = u
    BY <1>4 DEF OpenUnattributed
  <2>2. Good(u) /\ Extends(t, u)
    BY <1>1, <1>4, SpillsExtends
  <2>. QED  BY <1>1, <1>2, <2>1, <2>2 DEF u, Keeps, Flows
<1>5. CASE ~Full(u) /\ ~(u.next > MaxSeq)
  <2>. DEFINE a == [seq |-> u.next, sid |-> NoSid, state |-> "pouring",
                    pulses |-> count, left |-> FlowGap]
  <2>1. /\ a \in OpenEvent /\ a.seq = t.next /\ a.sid = NoSid /\ a.pulses = count
        /\ a.state = "pouring" /\ a.left = FlowGap
    BY <1>1, <1>2, <1>5 DEF OpenEvent, Live
  <2>2. n = [u EXCEPT !.active = a, !.next = u.next + 1, !.state = "pouring"]
    BY <1>5 DEF OpenUnattributed
  <2>3. u.next + 1 \in 1..(MaxSeq + 1) /\ ~Full(t)
    BY <1>1, <1>2, <1>5 DEF Full
  <2>. DEFINE k == u.next + 1
  <2>4. k \in 1..(MaxSeq + 1) /\ k = t.next + 1
    BY <1>1, <2>3
  <2>5. n = [u EXCEPT !.active = a, !.next = k, !.state = "pouring"]
    BY <2>2
  <2>. HIDE DEF a, n, k
  <2>6. /\ n \in Device /\ n.active = a /\ n.results = t.results /\ n.next = k
        /\ n.recovery = t.recovery /\ n.lifetime = t.lifetime + count
    BY <1>1, <2>1, <2>4, <2>5 DEF Device, Live
  <2>7. IsLive(n) /\ count \in 1..MaxResultPulses
    BY <2>1, <2>6, NoActiveFields DEF IsLive
  <2>8. Good(n) /\ Extends(t, n)
    BY <2>1, <2>3, <2>4, <2>6, <2>7, OpensExtends
  <2>. QED  BY <2>1, <2>6, <2>8 DEF n, u, Keeps, Flows
<1>. QED  BY <1>3, <1>4, <1>5

LEMMA PulseKeeps ==
  ASSUME NEW m, Good(m), NEW count \in 1..MaxBatch
  PROVE  /\ Keeps(m, Pulse(m, count)) /\ EdgeEnds(m, Pulse(m, count))
         /\ Saturates(m, count) => Pulse(m, count).active \in {m.active, NoActive}
         /\ ~Saturates(m, count) => /\ Flows(Pulse(m, count))
                                    /\ Pulse(m, count).lifetime > m.lifetime
<1>0. m \in Device /\ m.lifetime \in 0..MaxLifetime /\ m.active.pulses \in 0..MaxResultPulses
  BY GoodFields DEF Good
<1>1. CASE Saturates(m, count)
  <2>. DEFINE full == [m EXCEPT !.lifetime = MaxLifetime]
  <2>1. /\ full \in Device /\ full.active = m.active /\ full.results = m.results
        /\ full.next = m.next /\ full.recovery = m.recovery /\ full.lifetime = MaxLifetime
    BY <1>0 DEF Device
  <2>2. Pulse(m, count) = IF m.active.pulses > 0 THEN Finalize(full, "interrupted") ELSE full
    BY <1>1 DEF Pulse
  <2>. HIDE DEF full
  <2>3. CASE m.active.pulses > 0
    <3>. DEFINE n == Finalize(full, "interrupted")
    <3>1. IsLive(m) /\ m.active \in OpenEvent
      BY <1>0, <2>3, GoodFields, NoActiveFields
    <3>2. "interrupted" \in Terminal /\ m.active.pulses # 0
      BY <1>0, <2>3 DEF Terminal
    <3>3. /\ n \in Device /\ n.active = NoActive /\ n.next = m.next /\ n.recovery = m.recovery
          /\ n.lifetime = MaxLifetime
          /\ n.results = m.results \cup {[seq |-> m.active.seq, sid |-> m.active.sid,
                                          status |-> "interrupted", pulses |-> m.active.pulses]}
      BY <2>1, <3>1, <3>2, FinalizeFields
    <3>4. Pulse(m, count) = n
      BY <2>2, <2>3
    <3>. HIDE DEF n
    <3>5. /\ m.active.pulses \in m.active.pulses..MaxResultPulses
          /\ m.active.pulses - m.active.pulses <= n.lifetime - m.lifetime
      BY <1>0, <3>3
    <3>6. Good(n) /\ Extends(m, n)
      BY <3>1, <3>2, <3>3, <3>5, ClosesExtends
    <3>7. EdgeEnds(m, n)
      BY <3>3 DEF EdgeEnds
    <3>. QED  BY <1>1, <3>3, <3>4, <3>6, <3>7 DEF Keeps
  <2>4. CASE ~(m.active.pulses > 0)
    <3>1. IsLive(full) <=> IsLive(m)
      BY <2>1 DEF IsLive
    <3>2. m.active.pulses - m.active.pulses <= full.lifetime - m.lifetime
      BY <1>0, <2>1
    <3>3. Good(full) /\ Extends(m, full)
      BY <1>0, <2>1, <3>1, <3>2, ArmedIsEmpty, GoesOnExtends
    <3>. QED  BY <1>1, <2>1, <2>2, <2>4, <3>3 DEF Keeps, EdgeEnds
  <2>. QED  BY <2>3, <2>4
<1>2. CASE ~Saturates(m, count)
  <2>. DEFINE t == TickIfLate(m)
              u == Counted(t, count)
              n == Pulse(m, count)
  <2>1. /\ Keeps(m, t) /\ Good(t) /\ t.lifetime = m.lifetime
        /\ \A r \in t.results \ m.results :
             /\ r.status = "timed_out" => m.active.state = "armed" /\ m.active.left < 0
             /\ r.status = "complete" => m.active.state = "settling" /\ m.active.left < 0
    BY LateKeeps DEF Keeps
  <2>2. n = IF IsLive(u) THEN Accumulate(u, count) ELSE OpenUnattributed(u, count)
    BY <1>2, Zenon DEF Pulse, Counted
  <2>. HIDE DEF t, n
  <2>3. t.lifetime + count <= MaxLifetime
    BY <1>0, <1>2, <2>1 DEF Saturates
  <2>4. u.active = t.active
    BY <2>1, <2>3, CountedFields
  <2>5. /\ Keeps(t, n) /\ Flows(n) /\ n.lifetime = t.lifetime + count
        /\ \A r \in n.results \ t.results : r.status = "interrupted"
    <3>1. CASE IsLive(t)
      <4>1. n = Accumulate(u, count)
        BY <2>2, <2>4, <3>1 DEF IsLive
      <4>. QED  BY <2>1, <2>3, <3>1, <4>1, AccumulateKeeps
    <3>2. CASE ~IsLive(t)
      <4>1. n = OpenUnattributed(u, count)
        BY <2>2, <2>4, <3>2 DEF IsLive
      <4>. QED  BY <2>1, <2>3, <3>2, <4>1, OpenKeeps
    <3>. QED  BY <3>1, <3>2
  <2>. HIDE DEF u
  <2>6. Keeps(m, n)
    BY <2>1, <2>5, KeepsTrans
  <2>7. n.lifetime > m.lifetime /\ m.lifetime < n.lifetime
    BY <1>0, <2>1, <2>5
  <2>8. EdgeEnds(m, n)
    <3>1. \A r \in n.results \ m.results : r \in t.results \ m.results \/ r.status = "interrupted"
      BY <2>5
    <3>. QED  BY <2>1, <2>7, <3>1 DEF EdgeEnds
  <2>. QED  BY <1>2, <2>5, <2>6, <2>7, <2>8 DEF n
<1>. QED  BY <1>1, <1>2

(* The accepted ARM. *)
LEMMA ArmOpens ==
  ASSUME NEW t, Good(t), CanArm(t, t.next), NEW sid \in Sids
  PROVE  LET n == [t EXCEPT !.active = [seq |-> t.next, sid |-> sid, state |-> "armed",
                                        pulses |-> 0, left |-> Ttl],
                            !.next = t.next + 1,
                            !.state = "armed"]
         IN  /\ Good(n) /\ IsLive(n) /\ n.results = t.results /\ n.next = t.next + 1
             /\ n.lifetime = t.lifetime /\ n.recovery = t.recovery
             /\ n.active.seq = t.next /\ n.active.sid = sid /\ n.active.pulses = 0
             /\ n.active.state = "armed" /\ n.active.left = Ttl
<1>. DEFINE a == [seq |-> t.next, sid |-> sid, state |-> "armed", pulses |-> 0, left |-> Ttl]
            k == t.next + 1
            n == [t EXCEPT !.active = a, !.next = k, !.state = "armed"]
<1>1. /\ ~IsLive(t) /\ ~Full(t) /\ t.next \in 1..MaxSeq /\ k \in 1..(MaxSeq + 1)
      /\ t \in Device
  BY GoodFields DEF CanArm, Good
<1>2. /\ a \in OpenEvent /\ a.seq = t.next /\ a.sid = sid /\ a.state = "armed"
      /\ a.pulses = 0 /\ a.left = Ttl
  BY <1>1 DEF OpenEvent, Live
<1>. HIDE DEF k
<1>3. k = t.next + 1
  BY DEF k
<1>. HIDE DEF a
<1>4. /\ n \in Device /\ n.active = a /\ n.next = k /\ n.results = t.results
      /\ n.lifetime = t.lifetime /\ n.recovery = t.recovery
  BY <1>1, <1>2 DEF Device, Live
<1>5. IsLive(n)
  BY <1>2, <1>4, NoActiveFields DEF IsLive
<1>. HIDE DEF n
<1>6. \A r \in t.results : r.seq \in 1..(t.next - 1)
  BY ResultFields
<1>7. Cardinality(t.results) < Capacity
  <2>1. Cardinality(t.results) \in Nat
    BY FS_CardinalityType DEF Good, GoodResults
  <2>. QED  BY <1>1, <2>1 DEF Full
<1>8. \A r \in n.results : r.seq < n.next /\ r.seq # n.active.seq
  BY <1>1, <1>2, <1>3, <1>4, <1>6
<1>9. n.active.seq = n.next - 1
  BY <1>1, <1>2, <1>3, <1>4
<1>10. GoodResults(n)
  BY <1>4, <1>8 DEF Good, GoodResults
<1>11. GoodActive(n)
  BY <1>2, <1>4, <1>7, <1>8, <1>9 DEF GoodActive
<1>. QED  BY <1>2, <1>3, <1>4, <1>5, <1>10, <1>11 DEF n, a, k, Good

(* The open session is forgotten. *)
Forgotten(t) == [t EXCEPT !.active = NoActive, !.state = "idle"]

LEMMA ForgottenGood ==
  ASSUME NEW t, Good(t)
  PROVE  /\ Good(Forgotten(t)) /\ Forgotten(t).active = NoActive
         /\ Forgotten(t).results = t.results /\ Forgotten(t).next = t.next
         /\ Forgotten(t).lifetime = t.lifetime /\ Forgotten(t).recovery = t.recovery
<1>1. t \in Device
  BY DEF Good
<1>2. /\ Forgotten(t) \in Device /\ Forgotten(t).active = NoActive
      /\ Forgotten(t).results = t.results /\ Forgotten(t).next = t.next
      /\ Forgotten(t).lifetime = t.lifetime /\ Forgotten(t).recovery = t.recovery
  BY <1>1 DEF Forgotten, Device
<1>3. GoodResults(Forgotten(t))
  BY <1>2 DEF Good, GoodResults
<1>. QED  BY <1>2, <1>3 DEF Good, GoodActive

LEMMA AcknowledgeFields ==
  ASSUME NEW t, Good(t), NEW seq
  PROVE  LET n == Acknowledge(t, seq)
         IN  /\ Good(n) /\ n.active = t.active /\ n.next = t.next
             /\ n.results = {r \in t.results : r.seq # seq}
             /\ n.lifetime = t.lifetime /\ n.recovery = t.recovery
<1>. DEFINE n == Acknowledge(t, seq)
            R == {r \in t.results : r.seq # seq}
<1>1. t \in Device
  BY DEF Good
<1>2. /\ n \in Device /\ n.active = t.active /\ n.next = t.next /\ n.results = R
      /\ n.lifetime = t.lifetime /\ n.recovery = t.recovery
  BY <1>1 DEF Acknowledge, Device, Terminal
<1>. HIDE DEF n
<1>3. IsFiniteSet(R) /\ Cardinality(R) <= Cardinality(t.results)
      /\ Cardinality(R) \in Nat /\ Cardinality(t.results) \in Nat
  <2>1. IsFiniteSet(t.results) /\ R \in SUBSET t.results
    BY DEF Good, GoodResults
  <2>. HIDE DEF R
  <2>2. IsFiniteSet(R) /\ Cardinality(R) <= Cardinality(t.results)
    BY ONLY <2>1, FS_Subset
  <2>. QED  BY ONLY <2>1, <2>2, FS_CardinalityType
<1>4. GoodResults(n)
  BY <1>2, <1>3 DEF Good, GoodResults
<1>5. GoodActive(n)
  BY <1>2, <1>3 DEF Good, GoodActive
<1>. QED  BY <1>2, <1>4, <1>5 DEF n, Good

-------------------------------------------------------------------------------
(* The deadlines *)

LEMMA IdleCapBounds ==
  IdleCap \in Nat /\ IdleCap > Ttl /\ IdleCap > FlowGap + Settling
BY DEF IdleCap, Most

LEMMA FlowsTimed ==
  ASSUME NEW m, Flows(m)
  PROVE  \A q \in Nat : Timed(m, q)
BY NoActiveFields DEF Flows, Timed

LEMMA NoneTimed ==
  ASSUME NEW m, m.active = NoActive
  PROVE  \A q \in Nat : Timed(m, q)
BY FlowsTimed DEF Flows

LEMMA TickTimed ==
  ASSUME NEW m, Good(m), NEW q \in Nat, Timed(m, q)
  PROVE  /\ Timed(Tick(m), q) /\ Tick(m).lifetime = m.lifetime
         /\ \A r \in Tick(m).results \ m.results :
              /\ r.status = "timed_out" => q >= Ttl
              /\ r.status = "complete" => q >= FlowGap + Settling
<1>1. m.active.state \in Live => IsLive(m) /\ m \in Device /\ m.active \in OpenEvent
                                 /\ m.active.left \in Int
  BY GoodFields DEF Good, OpenEvent
<1>2. CASE /\ m.active.state = "armed" /\ m.active.left <= 0
           /\ Tick(m) = Finalize(m, "timed_out")
  <2>1. q >= Ttl
    BY <1>1, <1>2, IdleCapBounds DEF Timed, Live
  <2>2. /\ Tick(m).active = NoActive /\ Tick(m).lifetime = m.lifetime
        /\ \A r \in Tick(m).results \ m.results : r.status = "timed_out"
    BY <1>1, <1>2, FinalizeFields DEF Live, Terminal
  <2>. QED  BY <2>1, <2>2, NoneTimed
<1>3. CASE /\ m.active.state = "settling" /\ m.active.left <= 0
           /\ Tick(m) = Finalize(m, "complete")
  <2>1. q >= FlowGap + Settling
    BY <1>1, <1>3, IdleCapBounds DEF Timed, Live
  <2>2. /\ Tick(m).active = NoActive /\ Tick(m).lifetime = m.lifetime
        /\ \A r \in Tick(m).results \ m.results : r.status = "complete"
    BY <1>1, <1>3, FinalizeFields DEF Live, Terminal
  <2>. QED  BY <2>1, <2>2, NoneTimed
<1>4. CASE /\ m.active.state = "pouring" /\ m.active.left <= 0
           /\ m.active.left + Settling <= 0
           /\ Tick(m) = Finalize(Settles(m), "complete")
  <2>1. q >= FlowGap + Settling
    BY <1>1, <1>4, IdleCapBounds DEF Timed, Live
  <2>. DEFINE s == Settles(m)
  <2>2. Good(s) /\ IsLive(s) /\ s.results = m.results /\ s.lifetime = m.lifetime
    BY <1>4, SettlesKeeps DEF Keeps
  <2>. HIDE DEF s
  <2>3. s \in Device /\ s.active \in OpenEvent
    BY <2>2, GoodFields DEF Good
  <2>4. /\ Finalize(s, "complete").active = NoActive
        /\ Finalize(s, "complete").lifetime = s.lifetime
        /\ \A r \in Finalize(s, "complete").results \ s.results : r.status = "complete"
    BY <2>3, FinalizeFields DEF Terminal
  <2>5. Tick(m) = Finalize(s, "complete")
    BY <1>4 DEF s
  <2>. QED  BY <2>1, <2>2, <2>4, <2>5, NoneTimed
<1>5. CASE m.active.state = "pouring" /\ m.active.left <= 0 /\ Tick(m) = Settles(m)
  <2>1. /\ Tick(m).active.state = "settling" /\ Tick(m).results = m.results
        /\ Tick(m).active.left = m.active.left + Settling /\ Tick(m).lifetime = m.lifetime
    BY <1>5, SettlesKeeps
  <2>2. q >= IdleCap \/ m.active.left + q >= FlowGap
    BY <1>5 DEF Timed
  <2>3. m.active.left \in Int
    BY <1>1, <1>5 DEF Live
  <2>4. q >= IdleCap \/ Tick(m).active.left + q >= FlowGap + Settling
    BY <2>1, <2>2, <2>3
  <2>. QED  BY <2>1, <2>4 DEF Timed
<1>6. CASE Tick(m) = m
  BY <1>6
<1>. QED  BY <1>2, <1>3, <1>4, <1>5, <1>6, TickCases

LEMMA AgeTimed ==
  ASSUME NEW m, Good(m), NEW q \in Nat, Timed(m, q), NEW time \in Nat
  PROVE  /\ Timed(Age(m, time), Least(q + time, IdleCap))
         /\ Least(q + time, IdleCap) \in Nat
<1>1. /\ Age(m, time).active.state = m.active.state
      /\ IsLive(m) => /\ Age(m, time).active.left >= m.active.left - time
                      /\ Age(m, time).active.left \in Int
  BY AgeKeeps
<1>2. IsLive(m) => m.active.left \in Int
  BY GoodFields DEF OpenEvent
<1>3. CASE q + time >= IdleCap
  <2>1. Least(q + time, IdleCap) = IdleCap
    BY <1>3, IdleCapBounds DEF Least
  <2>. QED  BY <2>1, IdleCapBounds DEF Timed
<1>4. CASE ~(q + time >= IdleCap)
  <2>1. Least(q + time, IdleCap) = q + time /\ ~(q >= IdleCap)
    BY <1>4, IdleCapBounds DEF Least
  <2>2. CASE IsLive(m)
    <3>. DEFINE a == Age(m, time).active
    <3>1. /\ m.active.state = "armed" => m.active.left + q >= Ttl
          /\ m.active.state = "pouring" => m.active.left + q >= FlowGap
          /\ m.active.state = "settling" => m.active.left + q >= FlowGap + Settling
      BY <2>1 DEF Timed
    <3>2. a.state = m.active.state /\ a.left >= m.active.left - time /\ a.left \in Int
          /\ m.active.left \in Int
      BY <1>1, <1>2, <2>2
    <3>. HIDE DEF a
    <3>3. a.left + (q + time) >= m.active.left + q
      BY <3>2
    <3>4. /\ a.state = "armed" => a.left + (q + time) >= Ttl
          /\ a.state = "pouring" => a.left + (q + time) >= FlowGap
          /\ a.state = "settling" => a.left + (q + time) >= FlowGap + Settling
      BY <3>1, <3>2, <3>3
    <3>. QED  BY <2>1, <3>4 DEF Timed, a
  <2>3. CASE ~IsLive(m)
    <3>1. m.active.state = "idle"
      BY <2>3, GoodFields, NoActiveFields
    <3>. QED  BY <1>1, <2>1, <3>1 DEF Timed
  <2>. QED  BY <2>1, <2>2, <2>3
<1>. QED  BY <1>3, <1>4

-------------------------------------------------------------------------------
(* Edges with an interval *)

Edge(before) ==
  LET aged == Age(before.m, Interval)
  IN  IF before.raised THEN before
      ELSE [m |-> Pulse(aged, 1), raised |-> Raises(aged, 1),
            quiet |-> IF Saturates(aged, 1)
                      THEN Least(before.quiet + Interval, IdleCap) ELSE 0]

Batch == [m |-> d, raised |-> FALSE, quiet |-> idle]

SpacedTo(n, f) == f = [i \in 0..n |-> IF i = 0 THEN Batch ELSE Edge(f[i - 1])]

LEMMA SpacedToExists ==
  ASSUME NEW n \in Nat
  PROVE  \E f : SpacedTo(n, f)
<1>. DEFINE S == {k \in Nat : \E f : SpacedTo(k, f)}
<1>1. 0 \in S
  <2>1. SpacedTo(0, [i \in 0..0 |-> Batch])
    BY DEF SpacedTo
  <2>. QED  BY <2>1
<1>2. ASSUME NEW k \in Nat, k \in S PROVE k + 1 \in S
  <2>1. PICK f : SpacedTo(k, f)
    BY <1>2
  <2>. DEFINE longer == [i \in 0..k + 1 |-> IF i = k + 1 THEN Edge(f[k]) ELSE f[i]]
  <2>2. \A i \in 0..k + 1 : longer[i] = IF i = 0 THEN Batch ELSE Edge(longer[i - 1])
    <3>. TAKE i \in 0..k + 1
    <3>1. CASE i = 0
      BY <3>1, <2>1 DEF SpacedTo
    <3>2. CASE i = k + 1
      BY <3>2
    <3>3. CASE i \in 1..k
      BY <3>3, <2>1 DEF SpacedTo
    <3>. QED  BY <3>1, <3>2, <3>3
  <2>3. SpacedTo(k + 1, longer)
    BY <2>2 DEF SpacedTo
  <2>. QED  BY <2>3
<1>3. Nat \subseteq S
  <2>. HIDE DEF S
  <2>. QED  BY <1>1, <1>2, Induct
<1>. QED  BY <1>3

LEMMA SpacedIs ==
  /\ Spaced[0] = Batch
  /\ \A n \in Nat : n + 1 <= MaxBatch => Spaced[n + 1] = Edge(Spaced[n])
<1>1. Spaced = CHOOSE f : SpacedTo(MaxBatch, f)
  BY Zenon DEF Spaced, SpacedTo, Batch, Edge
<1>2. SpacedTo(MaxBatch, Spaced)
  BY <1>1, SpacedToExists
<1>3. \A i \in 0..MaxBatch : Spaced[i] = IF i = 0 THEN Batch ELSE Edge(Spaced[i - 1])
  BY <1>2 DEF SpacedTo
<1>. HIDE DEF Batch
<1>4. ASSUME NEW n \in Nat, n + 1 <= MaxBatch PROVE Spaced[n + 1] = Edge(Spaced[n])
  <2>1. n + 1 \in 0..MaxBatch /\ n + 1 # 0 /\ (n + 1) - 1 = n
    BY <1>4
  <2>. QED  BY <1>3, <2>1
<1>5. 0 \in 0..MaxBatch
  OBVIOUS
<1>. QED  BY <1>3, <1>4, <1>5

(* What an event that ends by the clock in a batch says of its beginning.  *)
BatchEnds(m) ==
  \A r \in m.results \ d.results :
    /\ r.status = "timed_out" =>
         d.active.state = "armed" /\ d.active.left - Interval < 0 /\ d.lifetime < m.lifetime
    /\ r.status = "complete" =>
         d.active.state = "settling" /\ d.active.left - Interval < 0 /\ d.lifetime < m.lifetime

BatchKeeps(n, s) ==
  /\ Keeps(d, s.m) /\ s.quiet \in Nat /\ Timed(s.m, s.quiet) /\ BatchEnds(s.m)
  /\ n = 0 => s.m = d
  /\ n # 0 /\ ~s.raised => s.m.active.state \notin {"armed", "settling"}

LEMMA EdgeStep ==
  ASSUME Good(d), NEW n \in Nat, NEW s, BatchKeeps(n, s)
  PROVE  BatchKeeps(n + 1, Edge(s))
<1>1. CASE s.raised
  <2>1. n # 0 \/ n = 0
    OBVIOUS
  <2>2. Edge(s) = s /\ n + 1 # 0
    BY <1>1 DEF Edge
  <2>. QED  BY <1>1, <2>2 DEF BatchKeeps
<1>2. CASE ~s.raised
  <2>. DEFINE aged == Age(s.m, Interval)
              p == Pulse(aged, 1)
              e == Edge(s)
  <2>1. /\ Good(s.m) /\ Keeps(d, s.m) /\ s.quiet \in Nat /\ Timed(s.m, s.quiet)
        /\ BatchEnds(s.m)
    BY DEF BatchKeeps, Keeps
  <2>2. /\ Keeps(s.m, aged) /\ aged.results = s.m.results /\ aged.lifetime = s.m.lifetime
        /\ aged.active.state = s.m.active.state
        /\ IsLive(s.m) => aged.active.left >= s.m.active.left - Interval /\ aged.active.left \in Int
    BY <2>1, AgeKeeps
  <2>3. /\ Timed(aged, Least(s.quiet + Interval, IdleCap))
        /\ Least(s.quiet + Interval, IdleCap) \in Nat
    BY <2>1, AgeTimed
  <2>4. /\ e.m = p /\ e.raised = Raises(aged, 1)
        /\ e.quiet = IF Saturates(aged, 1) THEN Least(s.quiet + Interval, IdleCap) ELSE 0
    BY <1>2 DEF Edge
  <2>. HIDE DEF aged, e
  <2>5. 1 \in 1..MaxBatch /\ Good(aged)
    BY <2>2 DEF Keeps
  <2>6. /\ Keeps(aged, p) /\ EdgeEnds(aged, p)
        /\ Saturates(aged, 1) => p.active \in {aged.active, NoActive}
        /\ ~Saturates(aged, 1) => Flows(p) /\ p.lifetime > aged.lifetime
    BY <2>5, PulseKeeps
  <2>. HIDE DEF p
  <2>7. Keeps(d, p)
    BY <2>1, <2>2, <2>6, <2>5, KeepsTrans
  <2>8. e.quiet \in Nat /\ Timed(e.m, e.quiet)
    <3>1. CASE Saturates(aged, 1)
      <4>1. e.quiet = Least(s.quiet + Interval, IdleCap)
        BY <2>4, <3>1
      <4>2. CASE p.active = aged.active
        BY <2>3, <2>4, <4>1, <4>2 DEF Timed
      <4>3. CASE p.active = NoActive
        BY <2>3, <2>4, <4>1, <4>3, NoneTimed
      <4>. QED  BY <2>6, <3>1, <4>2, <4>3
    <3>2. CASE ~Saturates(aged, 1)
      BY <2>4, <2>6, <3>2, FlowsTimed
    <3>. QED  BY <3>1, <3>2
  <2>9. ~e.raised => p.active.state \notin {"armed", "settling"}
    <3>1. Saturates(aged, 1) => e.raised
      BY <2>4 DEF Raises
    <3>2. Flows(p) => p.active.state \notin {"armed", "settling"}
      BY NoActiveFields DEF Flows
    <3>. QED  BY <2>6, <3>1, <3>2
  <2>10. BatchEnds(p)
    <3>. SUFFICES ASSUME NEW r \in p.results \ d.results
                  PROVE  /\ r.status = "timed_out" =>
                              /\ d.active.state = "armed" /\ d.active.left - Interval < 0
                              /\ d.lifetime < p.lifetime
                         /\ r.status = "complete" =>
                              /\ d.active.state = "settling" /\ d.active.left - Interval < 0
                              /\ d.lifetime < p.lifetime
      BY DEF BatchEnds
    <3>1. /\ d.lifetime \in Nat /\ s.m.lifetime \in Nat /\ aged.lifetime \in Nat
          /\ p.lifetime \in Nat
          /\ aged.lifetime <= p.lifetime /\ d.lifetime <= s.m.lifetime
      BY <2>1, <2>5, <2>6, <2>7, GoodFields DEF Keeps, Extends, Follows
    <3>2. CASE r \in s.m.results
      BY <2>1, <2>2, <3>1, <3>2 DEF BatchEnds
    <3>3. CASE r \notin s.m.results /\ n # 0
      <4>1. aged.active.state \notin {"armed", "settling"}
        BY <1>2, <2>2, <3>3 DEF BatchKeeps
      <4>. QED  BY <2>2, <2>6, <3>3, <4>1 DEF EdgeEnds
    <3>4. CASE r \notin s.m.results /\ n = 0
      <4>1. s.m = d
        BY <3>4 DEF BatchKeeps
      <4>2. r \in p.results \ aged.results
        BY <2>2, <3>4
      <4>3. aged.active.state \in Live /\ aged.active.left < 0 => d.active.left - Interval < 0
        <5>. SUFFICES ASSUME aged.active.state \in Live, aged.active.left < 0
                      PROVE  d.active.left - Interval < 0
          OBVIOUS
        <5>1. IsLive(d) /\ d.active \in OpenEvent
          BY <2>2, <4>1, GoodFields
        <5>2. d.active.left \in Int
          BY <5>1 DEF OpenEvent
        <5>. QED  BY <2>2, <4>1, <5>1, <5>2
      <4>. QED  BY <2>2, <2>6, <4>1, <4>2, <4>3 DEF EdgeEnds, Live
    <3>. QED  BY <3>2, <3>3, <3>4
  <2>11. n + 1 # 0
    OBVIOUS
  <2>. QED  BY <2>4, <2>7, <2>8, <2>9, <2>10, <2>11 DEF e, BatchKeeps
<1>. QED  BY <1>1, <1>2

LEMMA SpacedKeeps ==
  ASSUME Good(d), idle \in Nat, Timed(d, idle), NEW count \in 1..MaxBatch
  PROVE  BatchKeeps(count, Spaced[count])
<1>. DEFINE S == {n \in Nat : n <= MaxBatch => BatchKeeps(n, Spaced[n])}
<1>1. 0 \in S
  <2>1. Batch.m = d /\ Batch.quiet = idle
    BY DEF Batch
  <2>2. BatchKeeps(0, Batch)
    BY <2>1, KeepsSame DEF BatchKeeps, BatchEnds
  <2>. QED  BY <2>2, SpacedIs
<1>2. ASSUME NEW n \in Nat, n \in S PROVE n + 1 \in S
  <2>. SUFFICES ASSUME n + 1 <= MaxBatch PROVE BatchKeeps(n + 1, Spaced[n + 1])
    OBVIOUS
  <2>1. BatchKeeps(n, Spaced[n])
    BY <1>2
  <2>. QED  BY <2>1, SpacedIs, EdgeStep
<1>3. Nat \subseteq S
  <2>. HIDE DEF S
  <2>. QED  BY <1>1, <1>2, Induct
<1>. QED  BY <1>3

-------------------------------------------------------------------------------
(* A step of the machine as a step of EventStore. *)

Image(F) == {EventOf(r) : r \in F}

LEMMA ImagePulses ==
  ASSUME NEW S, IsFiniteSet(S), NEW F, IsFiniteSet(F), F \cap S = {},
         \A x \in S \cup F : x.pulses \in Nat,
         \A x, y \in F : x.seq = y.seq => x = y
  PROVE  /\ IsFiniteSet(Image(F))
         /\ Store!Pulses(S \cup F) = Store!Pulses(S) + Store!Pulses(Image(F))
<1>. DEFINE good(G) == /\ IsFiniteSet(Image(G))
                       /\ Store!Pulses(S \cup G) = Store!Pulses(S) + Store!Pulses(Image(G))
            N == {n \in Nat : \A G \in SUBSET F : Cardinality(G) = n => good(G)}
<1>1. \A G \in SUBSET F : IsFiniteSet(G) /\ Cardinality(G) \in Nat
  BY FS_Subset, FS_CardinalityType
<1>2. Store!Pulses(S) \in Nat
  BY PulsesIsNat
<1>3. 0 \in N
  <2>1. \A G \in SUBSET F : Cardinality(G) = 0 => G = {}
    BY <1>1, FS_EmptySet
  <2>2. good({})
    <3>1. Image({}) = {} /\ S \cup {} = S
      BY DEF Image
    <3>. DEFINE P == Store!Pulses(S)
    <3>2. P = P + 0
      BY <1>2
    <3>. HIDE DEF P
    <3>. QED  BY <3>1, <3>2, FS_EmptySet, PulsesOfNone DEF P
  <2>. HIDE DEF good
  <2>. QED  BY <2>1, <2>2
<1>4. ASSUME NEW n \in Nat, n \in N PROVE n + 1 \in N
  <2>0. \A G \in SUBSET F : Cardinality(G) = n => good(G)
    BY <1>4
  <2>. HIDE DEF good
  <2>. SUFFICES ASSUME NEW G \in SUBSET F, Cardinality(G) = n + 1 PROVE good(G)
    OBVIOUS
  <2>1. G # {}
    <3>1. n + 1 # 0
      OBVIOUS
    <3>. QED  BY <3>1, FS_EmptySet
  <2>2. PICK x \in G : TRUE
    BY <2>1
  <2>. DEFINE H == G \ {x}
              e == EventOf(x)
  <2>3. H \in SUBSET F /\ IsFiniteSet(H) /\ Cardinality(H) = n
    BY <1>1, OneLess
  <2>4. good(H)
    BY <2>0, <2>3
  <2>5. IsFiniteSet(Image(H)) /\ Store!Pulses(S \cup H) = Store!Pulses(S) + Store!Pulses(Image(H))
    BY <2>4 DEF good
  <2>6. e.seq = x.seq /\ e.pulses = x.pulses /\ x.pulses \in Nat
    BY EventFields
  <2>7. S \cup G = (S \cup H) \cup {x} /\ x \notin S \cup H
    BY <2>3
  <2>8. Image(G) = Image(H) \cup {e}
    BY DEF Image
  <2>9. e \notin Image(H)
    BY <2>6, EventFields DEF Image
  <2>10. \A y \in Image(H) : y.pulses \in Nat
    BY EventFields DEF Image
  <2>. HIDE DEF H, e
  <2>11. IsFiniteSet(S \cup H) /\ \A y \in S \cup H : y.pulses \in Nat
    BY <2>3, FS_Union
  <2>12. Store!Pulses((S \cup H) \cup {x}) = Store!Pulses(S \cup H) + x.pulses
    BY ONLY <2>6, <2>7, <2>11, PulsesOfOneMore
  <2>13. /\ Store!Pulses(Image(H) \cup {e}) = Store!Pulses(Image(H)) + x.pulses
         /\ Store!Pulses(Image(H)) \in Nat
    BY ONLY <2>5, <2>6, <2>9, <2>10, PulsesOfOneMore
  <2>14. IsFiniteSet(Image(G))
    BY ONLY <2>5, <2>8, FS_AddElement
  <2>15. Store!Pulses(S \cup G) = Store!Pulses(S) + Store!Pulses(Image(G))
    <3>. DEFINE P == Store!Pulses(S)
                Q == Store!Pulses(Image(H))
    <3>1. P \in Nat /\ Q \in Nat /\ x.pulses \in Nat
      BY <1>2, <2>6, <2>13
    <3>2. Store!Pulses(S \cup G) = (P + Q) + x.pulses
      BY ONLY <2>5, <2>7, <2>12, Zenon
    <3>3. Store!Pulses(Image(G)) = Q + x.pulses
      BY ONLY <2>8, <2>13, Zenon
    <3>. HIDE DEF P, Q
    <3>4. (P + Q) + x.pulses = P + (Q + x.pulses)
      BY <3>1
    <3>. QED  BY <3>2, <3>3, <3>4, Zenon DEF P
  <2>. QED  BY <2>14, <2>15 DEF good
<1>5. Nat \subseteq N
  <2>. HIDE DEF N
  <2>. QED  BY <1>3, <1>4, Induct
<1>6. Cardinality(F) \in N /\ F \in SUBSET F
  BY <1>1, <1>5
<1>7. good(F)
  <2>. HIDE DEF good
  <2>. QED  BY <1>6
<1>. QED  BY <1>7

(* Every sequence is of one event. *)
LEMMA OneOfEachSeq ==
  ASSUME NEW m1, NEW m2, Good(m2), NEW e \in LeftOf(m1, m2), NEW f \in LeftOf(m1, m2),
         e.seq = f.seq
  PROVE  e = f
<1>1. \A r \in m2.results : IsLive(m2) => r.seq # m2.active.seq
  BY DEF Good, GoodActive, IsLive
<1>2. \A r, q \in m2.results : r.seq = q.seq => r = q
  BY DEF Good, GoodResults
<1>. QED  BY <1>1, <1>2, EventFields DEF LeftOf, OpenOf

LEMMA LeftPulses ==
  ASSUME NEW m1, Good(m1), NEW m2, Good(m2), m1.results \subseteq m2.results
  PROVE  /\ IsFiniteSet(LeftOf(m1, m2))
         /\ Store!Pulses(LeftOf(m1, m2)) \in Nat
         /\ Store!Pulses(LeftOf(m1, m2)) - m1.active.pulses + m2.recovery - m1.recovery
              = Held(m2) - Held(m1)
<1>. DEFINE S == m1.results
            F == m2.results \ m1.results
            E == Image(F)
            e == EventOf(m2.active)
            P1 == Store!Pulses(m1.results)
            P2 == Store!Pulses(m2.results)
            PE == Store!Pulses(E)
            L == LeftOf(m1, m2)
<1>1. /\ IsFiniteSet(S) /\ IsFiniteSet(m2.results)
      /\ \A x, y \in m2.results : x.seq = y.seq => x = y
      /\ IsLive(m2) => \A x \in m2.results : x.seq # m2.active.seq
  BY DEF Good, GoodResults, GoodActive, IsLive
<1>2. \A x \in m2.results : x.pulses \in Nat
  BY ResultFields
<1>3. m2.results = S \cup F /\ F \cap S = {} /\ F \in SUBSET m2.results
  OBVIOUS
<1>. HIDE DEF S, F
<1>4. IsFiniteSet(F)
  BY ONLY <1>1, <1>3, FS_Subset
<1>5. IsFiniteSet(E) /\ Store!Pulses(S \cup F) = Store!Pulses(S) + Store!Pulses(E)
  <2>1. \A x \in S \cup F : x.pulses \in Nat
    BY <1>2, <1>3
  <2>2. \A x, y \in F : x.seq = y.seq => x = y
    BY <1>1, <1>3
  <2>. QED  BY ONLY <1>1, <1>3, <1>4, <2>1, <2>2, ImagePulses
<1>6. P2 = P1 + PE
  BY ONLY <1>3, <1>5, Zenon DEF S
<1>7. \A x \in E : x.pulses \in Nat
  BY <1>2, <1>3, EventFields DEF Image
<1>. HIDE DEF E
<1>8. PE \in Nat
  BY ONLY <1>5, <1>7, PulsesIsNat
<1>9. L = E \cup OpenOf(m2)
  BY DEF LeftOf, E, F, Image
<1>. HIDE DEF L, PE
<1>10. /\ IsFiniteSet(L) /\ Store!Pulses(L) = PE + m2.active.pulses
  <2>1. CASE ~IsLive(m2)
    <3>1. L = E /\ m2.active.pulses = 0
      BY <1>9, <2>1, GoodFields, NoActiveFields DEF OpenOf
    <3>2. PE + 0 = PE
      BY <1>8
    <3>. QED  BY <1>5, <3>1, <3>2, Zenon DEF PE
  <2>2. CASE IsLive(m2)
    <3>1. L = E \cup {e}
      BY <1>9, <2>2 DEF OpenOf
    <3>2. e \notin E
      BY <1>1, <1>3, <2>2, EventFields DEF E, Image
    <3>3. e.pulses = m2.active.pulses /\ e.pulses \in Nat
      BY GoodFields, EventFields
    <3>. HIDE DEF e
    <3>4. Store!Pulses(E \cup {e}) = Store!Pulses(E) + e.pulses
      BY ONLY <1>5, <1>7, <3>2, <3>3, PulsesOfOneMore
    <3>5. IsFiniteSet(E \cup {e})
      BY ONLY <1>5, FS_AddElement
    <3>. QED  BY <3>1, <3>3, <3>4, <3>5, Zenon DEF PE
  <2>. QED  BY <2>1, <2>2
<1>11. /\ P1 \in Nat /\ m1.active.pulses \in Nat /\ m2.active.pulses \in Nat
       /\ m1.recovery \in Nat /\ m2.recovery \in Nat
  BY HeldIsNat, GoodFields
<1>12. Held(m1) = P1 + m1.active.pulses + m1.recovery
       /\ Held(m2) = P2 + m2.active.pulses + m2.recovery
  BY DEF Held
<1>. HIDE DEF P1, P2
<1>. DEFINE PL == Store!Pulses(L)
<1>13. PL = PE + m2.active.pulses
  BY <1>10
<1>. HIDE DEF PL
<1>14. PL \in Nat /\ PL - m1.active.pulses + m2.recovery - m1.recovery = Held(m2) - Held(m1)
  BY <1>6, <1>8, <1>11, <1>12, <1>13
<1>. QED  BY <1>10, <1>14 DEF PL, L

LEMMA AsManySequences ==
  ASSUME NEW L, IsFiniteSet(L), \A e, f \in L : e.seq = f.seq => e = f
  PROVE  Cardinality({e.seq : e \in L}) = Cardinality(L)
<1>. DEFINE S == {e.seq : e \in L}
            g == [e \in L |-> e.seq]
<1>1. g \in Bijection(L, S)
  <2>1. g \in [L -> S]
    OBVIOUS
  <2>2. \A e, f \in L : g[e] = g[f] => e = f
    OBVIOUS
  <2>3. \A s \in S : \E e \in L : g[e] = s
    OBVIOUS
  <2>. QED  BY <2>1, <2>2, <2>3, Fun_IsBij
<1>. QED  BY <1>1, FS_Bijection DEF ExistsBijection

LEMMA SameCardinality == \A S : Store!Cardinality(S) = Cardinality(S)
BY DEF Store!Cardinality, Cardinality

LEMMA OpenIsEvent ==
  ASSUME NEW m, Good(m)
  PROVE  /\ (EventOf(m.active) = Store!NoEvent) <=> ~IsLive(m)
         /\ EventOf(m.active).seq = m.active.seq /\ EventOf(m.active).sid = m.active.sid
         /\ EventOf(m.active).pulses = m.active.pulses
<1>1. Store!NoEvent.seq = 0 /\ EventOf(NoActive) = Store!NoEvent
  BY DEF Store!NoEvent, EventOf, NoActive
<1>2. IsLive(m) <=> m.active.seq >= 1
  BY GoodFields
<1>3. ~IsLive(m) => m.active = NoActive
  BY GoodFields
<1>. QED  BY <1>1, <1>2, <1>3, EventFields

(* t is the machine before an acknowledgement removes gone, and else d'. *)
LEMMA StoreProgress ==
  ASSUME Good(d), Good(d'), NEW t, Good(t), Follows(d, t), Pays(d, t),
         d'.active = t.active, d'.next = t.next, d'.lifetime = t.lifetime,
         d'.recovery = t.recovery,
         NEW gone \in SUBSET d.results, d'.results = t.results \ gone,
         NEW armed,
         \A e \in LeftOf(d, t) : e.seq >= d.next => e \in armed \/ (e.sid = NoSid /\ e.pulses > 0)
  PROVE  Store!Progress(gone, armed)
<1>. DEFINE L == LeftOf(d, t)
            New1 == t.results \ d.results
<1>1. d.results \subseteq t.results
  BY DEF Follows
<1>2. Store!Fresh = New1 /\ d.results \ d'.results = gone
  BY <1>1 DEF Store!Fresh
<1>3. Store!Opened = OpenOf(t)
  <2>1. (EventOf(t.active) = Store!NoEvent) <=> ~IsLive(t)
    BY OpenIsEvent
  <2>2. [seq |-> d'.active.seq, sid |-> d'.active.sid, pulses |-> d'.active.pulses] = EventOf(t.active)
    BY DEF EventOf
  <2>. QED  BY <2>1, <2>2 DEF Store!Opened, OpenOf
<1>4. Store!Left = L
  <2>1. \A r : Store!Event(r) = EventOf(r)
    BY DEF Store!Event, EventOf
  <2>. QED  BY <1>2, <1>3, <2>1 DEF Store!Left, LeftOf
<1>5. [seq |-> d.active.seq, sid |-> d.active.sid, pulses |-> d.active.pulses] = EventOf(d.active)
  BY DEF EventOf
<1>6. /\ (EventOf(d.active) = Store!NoEvent) <=> ~IsLive(d)
      /\ EventOf(d.active).seq = d.active.seq /\ EventOf(d.active).sid = d.active.sid
      /\ EventOf(d.active).pulses = d.active.pulses
  BY OpenIsEvent
<1>7. /\ d.active.seq \in Nat /\ d.active.pulses \in Nat /\ d.next \in 1..(MaxSeq + 1)
      /\ t.next \in 1..(MaxSeq + 1) /\ d.recovery \in Nat /\ t.recovery \in Nat
      /\ d.lifetime \in Nat /\ t.lifetime \in Nat
      /\ IsLive(d) => d.active.seq = d.next - 1
      /\ ~IsLive(d) => d.active.seq = 0
  BY GoodFields, NoActiveFields DEF Good, GoodActive, IsLive
<1>8. \A e \in L : e.seq \in 1..(t.next - 1) /\ e.pulses \in Nat
  BY LeftFields
<1>9. /\ IsLive(d) => \E e \in L : e.seq = d.active.seq
      /\ \A k \in d.next..(t.next - 1) : \E e \in L : e.seq = k
      /\ \A e \in L : e.seq >= d.next \/ (IsLive(d) /\ Continues(d.active, e))
      /\ d.next <= t.next
  BY DEF Follows
<1>10. \A e, f \in L : e.seq = f.seq => e = f
  BY OneOfEachSeq
<1>11. /\ IsFiniteSet(L) /\ Store!Pulses(L) \in Nat
       /\ Store!Pulses(L) - d.active.pulses + t.recovery - d.recovery = Held(t) - Held(d)
  BY <1>1, LeftPulses
<1>. HIDE DEF L
<1>12. Store!Continues
  <2>1. ASSUME IsLive(d)
        PROVE  \E e \in L : /\ e.seq = d.active.seq /\ e.sid = d.active.sid
                            /\ e.pulses >= d.active.pulses
    <3>1. PICK e \in L : e.seq = d.active.seq
      BY <1>9, <2>1
    <3>2. ~(e.seq >= d.next)
      BY <1>7, <2>1, <3>1
    <3>. QED  BY <1>9, <3>1, <3>2 DEF Continues
  <2>. QED  BY <1>4, <1>5, <1>6, <2>1 DEF Store!Continues
<1>13. Store!Numbered
  <2>1. {e.seq : e \in L} \ {d.active.seq} = d.next..(t.next - 1)
    <3>1. ASSUME NEW e \in L, e.seq # d.active.seq
          PROVE  e.seq \in d.next..(t.next - 1)
      BY <1>7, <1>8, <1>9, <3>1 DEF Continues
    <3>2. ASSUME NEW k \in d.next..(t.next - 1)
          PROVE  k # d.active.seq /\ \E e \in L : e.seq = k
      BY <1>7, <1>9
    <3>. QED  BY <3>1, <3>2
  <2>2. Cardinality({e.seq : e \in L}) = Cardinality(L)
    BY ONLY <1>10, <1>11, AsManySequences
  <2>3. d'.next <= MaxSeq + 1
    BY <1>7
  <2>. QED  BY <1>4, <2>1, <2>2, <2>3, SameCardinality DEF Store!Numbered
<1>14. Store!OpensOnly(armed)
  BY <1>4 DEF Store!OpensOnly, L
<1>15. Store!ClosesWell
  <2>1. \A r \in New1 : /\ r.status \in {"complete", "timed_out", "interrupted"}
                        /\ r.status = "timed_out" <=> r.pulses = 0
    BY ResultFields DEF Terminal
  <2>2. Cardinality(d'.results) + Cardinality(OpenOf(t)) <= Capacity
    <3>1. /\ Cardinality(d'.results) \in Nat /\ Cardinality(d'.results) <= Capacity
          /\ IsLive(t) => Cardinality(d'.results) < Capacity
      BY FS_CardinalityType DEF Good, GoodResults, GoodActive, IsLive
    <3>2. Cardinality(OpenOf(t)) = IF IsLive(t) THEN 1 ELSE 0
      BY FS_EmptySet, FS_Singleton DEF OpenOf
    <3>. QED  BY <3>1, <3>2
  <2>. HIDE DEF New1
  <2>3. Store!Cardinality(d'.results) + Store!Cardinality(Store!Opened) <= Capacity
    BY <1>3, <2>2, SameCardinality
  <2>. QED  BY <1>2, <2>1, <2>3 DEF Store!ClosesWell
<1>16. Store!Conserves
  <2>. DEFINE gained == Store!Pulses(L) - d.active.pulses + t.recovery - d.recovery
              accepted == t.lifetime - d.lifetime
  <2>1. gained = Held(t) - Held(d) /\ Held(t) \in Nat /\ Held(d) \in Nat
    BY <1>11, HeldIsNat
  <2>2. /\ Held(d) <= Held(t) /\ Held(t) - Held(d) <= accepted
        /\ d.recovery <= t.recovery
        /\ \/ Held(t) - Held(d) = accepted
           \/ t.lifetime = MaxLifetime \/ t.next > MaxSeq
           \/ \E r \in New1 : r.pulses = MaxResultPulses
    BY DEF Pays, Follows
  <2>. HIDE DEF gained, New1
  <2>3. /\ 0 <= gained /\ gained <= accepted /\ d.recovery <= t.recovery
        /\ \/ gained = accepted
           \/ t.lifetime = MaxLifetime \/ t.next > MaxSeq
           \/ \E r \in New1 : r.pulses = MaxResultPulses
    BY <2>1, <2>2
  <2>4. Store!Pulses(Store!Left)
          - [seq |-> d.active.seq, sid |-> d.active.sid, pulses |-> d.active.pulses].pulses
          + d'.recovery - d.recovery = gained
    BY <1>4, Zenon DEF gained
  <2>5. d'.lifetime - d.lifetime = accepted
    OBVIOUS
  <2>. HIDE DEF accepted
  <2>. QED  BY <1>2, <2>3, <2>4, <2>5 DEF Store!Conserves
<1>. QED  BY <1>2, <1>12, <1>13, <1>14, <1>15, <1>16 DEF Store!Progress

-------------------------------------------------------------------------------
(* The steps of the simulator.  Step is what each of them shows. *)

LateFor(time) == IF d'.lifetime > d.lifetime THEN Silence > time ELSE Silence >= time

Exact ==
  /\ Closed("timed_out") # {} => LateFor(Ttl)
  /\ Closed("complete") # {} => LateFor(FlowGap + Settling)

Released ==
  boot' = boot => \A r \in d.results \ d'.results : <<boot, r.seq>> \in read

Step == Inv' /\ [Store!Next]_(Store!vars) /\ Exact /\ Released

LEMMA ToldLater ==
  ASSUME NEW F, Told(F, d), NEW t, Good(d), Good(t), Follows(d, t)
  PROVE  Told(F, t)
<1>1. d.next \in Nat /\ t.next \in Nat /\ d.next <= t.next
  BY GoodFields DEF Follows
<1>2. t.active.seq = 0 \/ t.active.seq = d.active.seq \/ t.active.seq >= d.next
  <2>1. CASE ~IsLive(t)
    BY <2>1, GoodFields, NoActiveFields
  <2>2. CASE IsLive(t)
    <3>1. EventOf(t.active) \in LeftOf(d, t)
      BY <2>2 DEF LeftOf, OpenOf
    <3>2. EventOf(t.active).seq = t.active.seq
      BY EventFields
    <3>. QED  BY <3>1, <3>2 DEF Follows, Continues
  <2>. QED  BY <2>1, <2>2
<1>3. ASSUME NEW f \in F, f[1] = boot PROVE f[2] \in 1..(t.next - 1) \ {t.active.seq}
  <2>1. f[2] \in 1..(d.next - 1) /\ f[2] # d.active.seq
    BY <1>3 DEF Told
  <2>. QED  BY <1>1, <1>2, <2>1
<1>. QED  BY <1>3 DEF Told

(* What is told of a result says nothing of the open event. *)
LEMMA ToldResults ==
  ASSUME NEW t, Good(t), NEW R \in SUBSET t.results, boot \in Nat \ {0}
  PROVE  Told(Frames(R), t)
<1>1. \A r \in R : r.seq \in 1..(t.next - 1) /\ r.seq \in Nat
  <2>1. t.next \in Nat
    BY GoodFields
  <2>. QED  BY <2>1, ResultFields
<1>2. \A r \in R : r.seq # t.active.seq
  <2>1. IsLive(t) => \A r \in R : r.seq # t.active.seq
    BY DEF Good, GoodActive, IsLive
  <2>2. ~IsLive(t) => t.active.seq = 0
    BY GoodFields, NoActiveFields
  <2>. QED  BY <1>1, <2>1, <2>2
<1>. QED  BY <1>1, <1>2 DEF Told, Frames

LEMMA ToldMore ==
  ASSUME NEW F, NEW G, NEW H, NEW t, Told(F, t), Told(G, t), H \subseteq F \cup G
  PROVE  Told(H, t)
BY DEF Told

LEMMA EnqueueSends ==
  ASSUME NEW w, NEW news, NEW told, NEW replied
  PROVE  Enqueue(w, news, told, replied).incoming \cup Enqueue(w, news, told, replied).delayed
           \subseteq w.incoming \cup w.delayed \cup news \cup told
BY DEF Enqueue, Oldest

LEMMA RequestSends ==
  ASSUME NEW m, NEW told \in SUBSET m.results, Request(m, told)
  PROVE  d' = m /\ boot' = boot /\ Sent' \subseteq Sent \cup Frames(m.results)
<1>1. Frames(New(m)) \subseteq Frames(m.results) /\ Frames(told) \subseteq Frames(m.results)
  BY DEF Frames, New
<1>2. wire'.incoming \cup wire'.delayed
        \subseteq wire.incoming \cup wire.delayed \cup Frames(New(m)) \cup Frames(told)
  BY EnqueueSends DEF Request
<1>3. d' = m /\ boot' = boot /\ read' = read
  BY DEF Request
<1>. QED  BY <1>1, <1>2, <1>3 DEF Sent

(* The machine works: nothing leaves it. *)
LEMMA WorkStep ==
  ASSUME Inv, Keeps(d, d'), boot' = boot, idle' \in Nat, Timed(d', idle'),
         Sent' \subseteq Sent \cup Frames(d'.results),
         \A r \in d'.results \ d.results :
           /\ r.status = "timed_out" => LateFor(Ttl)
           /\ r.status = "complete" => LateFor(FlowGap + Settling)
  PROVE  Step
<1>1. Good(d) /\ Good(d') /\ Follows(d, d') /\ Unattributed(d, d') /\ Pays(d, d')
  BY DEF Inv, Keeps, Extends
<1>2. Told(Sent', d')
  <2>1. Told(Sent, d')
    BY <1>1, ToldLater DEF Inv
  <2>2. Told(Frames(d'.results), d')
    BY <1>1, ToldResults DEF Inv
  <2>. QED  BY <2>1, <2>2, ToldMore
<1>3. Inv'
  <2>1. Told(Sent, d)'
    BY <1>2 DEF Told
  <2>2. Timed(d, idle)' /\ Good(d)'
    BY <1>1 DEF Timed, Good, GoodResults, GoodActive
  <2>. QED  BY <2>1, <2>2 DEF Inv
<1>4. Store!Work
  <2>1. \A e \in LeftOf(d, d') : e.seq >= d.next => e \in {} \/ (e.sid = NoSid /\ e.pulses > 0)
    BY <1>1 DEF Unattributed
  <2>2. {} \in SUBSET d.results /\ d'.results = d'.results \ {}
    OBVIOUS
  <2>3. Store!Progress({}, {})
    BY <1>1, <2>1, <2>2, StoreProgress
  <2>. QED  BY <2>3 DEF Store!Work
<1>5. Exact
  BY DEF Exact, Closed
<1>6. Released
  BY <1>1 DEF Released, Follows
<1>. QED  BY <1>3, <1>4, <1>5, <1>6 DEF Step, Store!Next

(* A step that leaves the machine alone. *)
LEMMA StillStep ==
  ASSUME Inv, UNCHANGED <<d, boot, idle>>, Sent' \subseteq Sent
  PROVE  Step
<1>1. Inv'
  <2>1. Told(Sent, d)'
    BY DEF Inv, Told
  <2>2. Timed(d, idle)' /\ Good(d)'
    BY DEF Inv, Timed, Good, GoodResults, GoodActive, IsLive
  <2>. QED  BY <2>1, <2>2 DEF Inv
<1>2. UNCHANGED Store!vars
  BY DEF Store!vars
<1>3. Exact /\ Released
  BY DEF Exact, Released, Closed
<1>. QED  BY <1>1, <1>2, <1>3 DEF Step

(* The tick every request begins with. *)
LEMMA TickedRequest ==
  ASSUME Inv
  PROVE  /\ Keeps(d, Tick(d)) /\ Good(Tick(d)) /\ Timed(Tick(d), idle)
         /\ Tick(d).lifetime = d.lifetime
         /\ \A r \in Tick(d).results \ d.results :
              /\ r.status = "timed_out" => idle >= Ttl
              /\ r.status = "complete" => idle >= FlowGap + Settling
BY TickKeeps, TickTimed DEF Inv, Keeps

LEMMA LateWhenTicked ==
  ASSUME idle \in Nat, idle' \in Nat, NEW time \in Nat, idle >= time \/ idle' >= time,
         d'.lifetime = d.lifetime, d.lifetime \in Nat
  PROVE  LateFor(time)
<1>1. ~(d'.lifetime > d.lifetime)
  OBVIOUS
<1>2. Silence = Most(idle, idle')
  BY <1>1 DEF Silence
<1>3. Most(idle, idle') >= time
  BY DEF Most
<1>. QED  BY <1>1, <1>2, <1>3 DEF LateFor

(* A request that only ticks. *)
LEMMA TickStep ==
  ASSUME Inv, NEW told \in SUBSET Tick(d).results, Request(Tick(d), told), UNCHANGED idle
  PROVE  Step
<1>1. /\ d' = Tick(d) /\ boot' = boot
      /\ Sent' \subseteq Sent \cup Frames(d'.results)
  BY RequestSends
<1>2. /\ Keeps(d, d') /\ Timed(d', idle') /\ idle' = idle /\ idle \in Nat
      /\ d'.lifetime = d.lifetime /\ d.lifetime \in Nat
      /\ \A r \in d'.results \ d.results :
           /\ r.status = "timed_out" => idle >= Ttl
           /\ r.status = "complete" => idle >= FlowGap + Settling
  BY <1>1, TickedRequest, GoodFields DEF Inv
<1>3. (idle >= Ttl => LateFor(Ttl)) /\ (idle >= FlowGap + Settling => LateFor(FlowGap + Settling))
  BY <1>2, LateWhenTicked
<1>. QED  BY <1>1, <1>2, <1>3, WorkStep

LEMMA PollStep ==
  ASSUME Inv, Poll
  PROVE  Step
BY TickStep DEF Poll

LEMMA ResultsStep ==
  ASSUME Inv, HandleResults
  PROVE  Step
BY TickStep DEF HandleResults

(* The ARM that is accepted, after the tick of its request. *)
LEMMA ArmedStep ==
  ASSUME Inv, NEW sid \in Sids, CanArm(Tick(d), Tick(d).next), idle' = 0,
         Request([Tick(d) EXCEPT
                    !.active = [seq |-> Tick(d).next, sid |-> sid, state |-> "armed",
                                pulses |-> 0, left |-> Ttl],
                    !.next = Tick(d).next + 1,
                    !.state = "armed"], {})
  PROVE  Step
<1>. DEFINE t == Tick(d)
            n == [t EXCEPT !.active = [seq |-> t.next, sid |-> sid, state |-> "armed",
                                       pulses |-> 0, left |-> Ttl],
                           !.next = t.next + 1,
                           !.state = "armed"]
<1>1. /\ Keeps(d, t) /\ Good(t) /\ Timed(t, idle) /\ t.lifetime = d.lifetime
      /\ \A r \in t.results \ d.results :
           /\ r.status = "timed_out" => idle >= Ttl
           /\ r.status = "complete" => idle >= FlowGap + Settling
  BY TickedRequest
<1>2. d' = n /\ boot' = boot /\ Sent' \subseteq Sent \cup Frames(n.results)
  <2>1. Request(n, {})
    OBVIOUS
  <2>. HIDE DEF n
  <2>. QED  BY <2>1, RequestSends
<1>3. CanArm(t, t.next)
  OBVIOUS
<1>. HIDE DEF t
<1>4. /\ Good(n) /\ IsLive(n) /\ n.results = t.results /\ n.next = t.next + 1
      /\ n.lifetime = t.lifetime /\ n.recovery = t.recovery
      /\ n.active.seq = t.next /\ n.active.sid = sid /\ n.active.pulses = 0
      /\ n.active.state = "armed" /\ n.active.left = Ttl
  BY <1>1, <1>3, ArmOpens
<1>. HIDE DEF n
<1>5. /\ Good(d) /\ Follows(d, t) /\ Unattributed(d, t) /\ Pays(d, t) /\ ~IsLive(t)
      /\ d.next \in Nat /\ t.next \in 1..MaxSeq /\ n.next = t.next + 1 /\ d.next <= t.next
      /\ d.results \subseteq t.results
      /\ d.lifetime \in Nat /\ idle \in Nat /\ boot \in Nat \ {0}
  BY <1>1, <1>3, <1>4, GoodFields DEF Inv, Keeps, Extends, Follows, CanArm
<1>6. LeftOf(d, n) = LeftOf(d, t) \cup {EventOf(n.active)}
  BY <1>4, <1>5 DEF LeftOf, OpenOf
<1>7. /\ EventOf(n.active).seq = t.next /\ EventOf(n.active).sid = sid
      /\ EventOf(n.active).pulses = 0
  BY <1>4, EventFields
<1>8. Follows(d, n)
  <2>1. \A k \in d.next..(n.next - 1) : k \in d.next..(t.next - 1) \/ k = t.next
    BY <1>5
  <2>2. \A k \in d.next..(n.next - 1) : \E e \in LeftOf(d, n) : e.seq = k
    BY <1>5, <1>6, <1>7, <2>1 DEF Follows
  <2>3. d.next <= n.next
    BY <1>5
  <2>. QED  BY <1>4, <1>5, <1>6, <1>7, <2>2, <2>3 DEF Follows
<1>9. Pays(d, n)
  <2>1. Held(n) = Held(t)
    <3>1. t.active.pulses = 0
      BY <1>1, <1>5, GoodFields, NoActiveFields
    <3>. QED  BY <1>4, <3>1 DEF Held
  <2>2. t.next > MaxSeq => FALSE
    BY <1>5
  <2>. QED  BY <1>4, <1>5, <2>1, <2>2 DEF Pays
<1>10. \E s \in Sids : Store!Arm(s)
  <2>. DEFINE open == [seq |-> d'.active.seq, sid |-> d'.active.sid, pulses |-> d'.active.pulses]
  <2>1. open = EventOf(n.active)
    BY <1>2 DEF EventOf
  <2>2. open = [seq |-> d'.next - 1, sid |-> sid, pulses |-> 0]
    BY <1>2, <1>4, <1>5
  <2>3. d'.next > d.next
    BY <1>2, <1>5
  <2>4. \A e \in LeftOf(d, n) : e.seq >= d.next => e \in {open} \/ (e.sid = NoSid /\ e.pulses > 0)
    BY <1>5, <1>6, <2>1 DEF Unattributed
  <2>. HIDE DEF open
  <2>5. {} \in SUBSET d.results /\ d'.results = n.results \ {}
    BY <1>2
  <2>6. Store!Progress({}, {open})
    BY <1>2, <1>4, <1>5, <1>8, <1>9, <2>4, <2>5, StoreProgress
  <2>. QED  BY <2>2, <2>3, <2>6 DEF Store!Arm, open
<1>11. Told(Sent', n)
  <2>1. Told(Sent, t)
    BY <1>1, <1>5, ToldLater DEF Inv
  <2>2. Told(Frames(t.results), t)
    BY <1>1, <1>5, ToldResults
  <2>3. Told(Sent', t)
    BY <1>2, <1>4, <2>1, <2>2, ToldMore
  <2>4. ASSUME NEW f \in Sent', f[1] = boot PROVE f[2] \in 1..(n.next - 1) \ {n.active.seq}
    <3>1. f[2] \in 1..(t.next - 1)
      BY <2>3, <2>4 DEF Told
    <3>. QED  BY <1>4, <1>5, <3>1
  <2>. QED  BY <2>3, <2>4 DEF Told
<1>12. Inv'
  <2>1. Told(Sent, d)'
    BY <1>2, <1>11 DEF Told
  <2>2. Timed(d, idle)'
    BY <1>2, <1>4 DEF Timed
  <2>3. Good(d)'
    BY <1>2, <1>4 DEF Good, GoodResults, GoodActive
  <2>. QED  BY <1>2, <1>5, <2>1, <2>2, <2>3 DEF Inv
<1>13. Exact
  <2>1. d'.lifetime = d.lifetime /\ d'.results = t.results
    BY <1>1, <1>2, <1>4
  <2>2. /\ idle >= Ttl => LateFor(Ttl)
        /\ idle >= FlowGap + Settling => LateFor(FlowGap + Settling)
    BY <1>5, <2>1, LateWhenTicked
  <2>. QED  BY <1>1, <2>1, <2>2 DEF Exact, Closed
<1>14. Released
  BY <1>2, <1>4, <1>5 DEF Released
<1>. QED  BY <1>10, <1>12, <1>13, <1>14 DEF Step, Store!Next

LEMMA ArmStep ==
  ASSUME Inv, NEW seq \in 1..MaxSeq, NEW sid \in Sids, HandleArm(seq, sid)
  PROVE  Step
<1>. DEFINE t == Tick(d)
<1>1. Request(Arm(t, seq, sid), {}) /\ idle' = IF Arm(t, seq, sid) # t THEN 0 ELSE idle
  BY DEF HandleArm
<1>2. CASE Arm(t, seq, sid) = t
  BY <1>1, <1>2, TickStep
<1>3. CASE Arm(t, seq, sid) # t
  <2>1. CanArm(t, seq) /\ seq = t.next
    BY <1>3 DEF Arm, CanArm
  <2>2. Arm(t, seq, sid) = [t EXCEPT !.active = [seq |-> t.next, sid |-> sid, state |-> "armed",
                                                 pulses |-> 0, left |-> Ttl],
                                     !.next = t.next + 1,
                                     !.state = "armed"]
    BY <1>3, <2>1 DEF Arm
  <2>3. idle' = 0
    BY <1>1, <1>3
  <2>. QED  BY <1>1, <2>1, <2>2, <2>3, ArmedStep
<1>. QED  BY <1>2, <1>3

LEMMA ForgetStep ==
  ASSUME Inv, NEW told \in SUBSET Forgotten(Tick(d)).results,
         IsLive(Tick(d)), Tick(d).active.pulses = 0,
         Request(Forgotten(Tick(d)), told), UNCHANGED idle
  PROVE  Step
<1>1. Good(d) /\ Good(Tick(d)) /\ idle \in Nat /\ boot \in Nat \ {0}
  BY TickedRequest DEF Inv
<1>2. Tick(d).active.state = "armed"
  BY <1>1, ArmedIsEmpty
<1>3. Tick(d) = d
  <2>1. ~(d.active.state = "pouring" /\ Tick(d) = Settles(d))
    BY <1>1, <1>2, SettlesKeeps
  <2>2. \A m \in Device, s \in Terminal : m.active \in OpenEvent => Finalize(m, s).active = NoActive
    BY FinalizeFields
  <2>3. NoActive.state # "armed"
    BY NoActiveFields
  <2>4. d.active.state \in Live => d \in Device /\ d.active \in OpenEvent
    BY <1>1, GoodFields DEF Good
  <2>5. d.active.state = "pouring" => Settles(d) \in Device /\ Settles(d).active \in OpenEvent
    <3>. SUFFICES ASSUME d.active.state = "pouring"
                  PROVE  Settles(d) \in Device /\ Settles(d).active \in OpenEvent
      OBVIOUS
    <3>1. Good(Settles(d)) /\ IsLive(Settles(d))
      BY <1>1, SettlesKeeps DEF Keeps
    <3>. QED  BY <3>1, GoodFields DEF Good
  <2>. QED  BY <1>1, <1>2, <2>1, <2>2, <2>3, <2>4, <2>5, TickCases DEF Live, Terminal
<1>. DEFINE n == Forgotten(d)
<1>4. d' = n /\ boot' = boot /\ Sent' \subseteq Sent \cup Frames(n.results)
  BY <1>3, RequestSends
<1>5. /\ Good(n) /\ n.active = NoActive /\ n.results = d.results /\ n.next = d.next
      /\ n.lifetime = d.lifetime /\ n.recovery = d.recovery
  BY <1>1, ForgottenGood
<1>. HIDE DEF n
<1>6. Store!Abandon
  <2>1. d.active.sid \in Sids /\ d.active.pulses = 0
    BY <1>1, <1>2, <1>3 DEF Good, GoodActive, IsLive
  <2>2. d.active.sid # NoSid
    BY <2>1
  <2>3. [seq |-> d'.active.seq, sid |-> d'.active.sid, pulses |-> d'.active.pulses] = Store!NoEvent
    BY <1>4, <1>5, NoActiveFields DEF Store!NoEvent
  <2>. QED  BY <1>4, <1>5, <2>1, <2>2, <2>3 DEF Store!Abandon
<1>7. Inv'
  <2>1. Told(Sent \cup Frames(d.results), d)
    <3>1. Told(Frames(d.results), d)
      BY <1>1, ToldResults
    <3>. QED  BY <3>1, ToldMore DEF Inv
  <2>2. d.next \in Nat
    BY <1>1, GoodFields
  <2>3. Told(Sent', n)
    BY <1>4, <1>5, <2>1, <2>2, NoActiveFields DEF Told
  <2>4. Told(Sent, d)'
    BY <1>4, <2>3 DEF Told
  <2>5. Timed(d, idle)'
    BY <1>1, <1>4, <1>5, NoActiveFields DEF Timed
  <2>6. Good(d)'
    BY <1>4, <1>5 DEF Good, GoodResults, GoodActive
  <2>. QED  BY <1>1, <1>4, <2>4, <2>5, <2>6 DEF Inv
<1>8. Exact /\ Released
  BY <1>4, <1>5 DEF Exact, Released, Closed
<1>. QED  BY <1>6, <1>7, <1>8 DEF Step, Store!Next

LEMMA CancelStep ==
  ASSUME Inv, NEW seq \in 1..MaxSeq, NEW sid \in Sids, HandleCancel(seq, sid)
  PROVE  Step
<1>. DEFINE t == Tick(d)
            c == Cancel(t, seq, sid)
            told == {r \in c.results : r.seq = seq /\ r.sid = sid}
<1>1. Request(c, told) /\ idle' = idle /\ told \in SUBSET c.results
  BY DEF HandleCancel
<1>2. \/ c = t
      \/ IsLive(t) /\ t.active.pulses = 0 /\ c = Forgotten(t)
      \/ IsLive(t) /\ t.active.pulses # 0 /\ c = Finalize(t, "interrupted")
  BY DEF Cancel, IsActive, Forgotten
<1>. HIDE DEF told
<1>3. CASE c = t
  BY <1>1, <1>3, TickStep
<1>4. CASE IsLive(t) /\ t.active.pulses = 0 /\ c = Forgotten(t)
  BY <1>1, <1>4, ForgetStep
<1>5. CASE IsLive(t) /\ t.active.pulses # 0 /\ c = Finalize(t, "interrupted")
  <2>1. /\ Keeps(d, t) /\ Good(t) /\ Timed(t, idle) /\ t.lifetime = d.lifetime
        /\ \A r \in t.results \ d.results :
             /\ r.status = "timed_out" => idle >= Ttl
             /\ r.status = "complete" => idle >= FlowGap + Settling
    BY TickedRequest
  <2>2. d' = c /\ boot' = boot /\ Sent' \subseteq Sent \cup Frames(c.results)
    BY <1>1, RequestSends
  <2>. HIDE DEF t
  <2>3. /\ t \in Device /\ t.active \in OpenEvent /\ Good(d) /\ idle \in Nat
        /\ d.lifetime \in Nat
    BY <1>5, <2>1, GoodFields DEF Good, Inv
  <2>4. /\ c.active = NoActive /\ c.lifetime = d.lifetime
        /\ \A r \in c.results : r \in t.results \/ r.status = "interrupted"
    BY <1>5, <2>1, <2>3, FinalizeFields DEF Terminal
  <2>5. Keeps(t, c)
    BY <1>5, <2>1, FinalizeKeeps DEF Terminal
  <2>. HIDE DEF c
  <2>6. Keeps(d, c)
    BY <2>1, <2>3, <2>5, KeepsTrans
  <2>7. Timed(c, idle)
    BY <2>3, <2>4, NoneTimed
  <2>8. /\ idle >= Ttl => LateFor(Ttl)
        /\ idle >= FlowGap + Settling => LateFor(FlowGap + Settling)
    BY <1>1, <2>2, <2>3, <2>4, LateWhenTicked
  <2>9. \A r \in d'.results \ d.results :
          /\ r.status = "timed_out" => LateFor(Ttl)
          /\ r.status = "complete" => LateFor(FlowGap + Settling)
    BY <2>1, <2>2, <2>4, <2>8
  <2>. QED  BY <1>1, <2>2, <2>3, <2>6, <2>7, <2>9, WorkStep
<1>. QED  BY <1>2, <1>3, <1>4, <1>5

(* An ACK that drops a result. *)
LEMMA ReleaseStep ==
  ASSUME Inv, NEW seq, <<boot, seq>> \in read,
         NEW r \in Tick(d).results, r.seq = seq,
         Request(Acknowledge(Tick(d), seq), {}), UNCHANGED idle
  PROVE  Step
<1>. DEFINE t == Tick(d)
            n == Acknowledge(t, seq)
<1>1. /\ Keeps(d, t) /\ Good(t) /\ Timed(t, idle) /\ t.lifetime = d.lifetime
      /\ \A q \in t.results \ d.results :
           /\ q.status = "timed_out" => idle >= Ttl
           /\ q.status = "complete" => idle >= FlowGap + Settling
  BY TickedRequest
<1>2. d' = n /\ boot' = boot /\ Sent' \subseteq Sent \cup Frames(n.results)
  BY RequestSends
<1>3. r \in t.results
  OBVIOUS
<1>. HIDE DEF t
<1>4. /\ Good(n) /\ n.active = t.active /\ n.next = t.next
      /\ n.results = {q \in t.results : q.seq # seq}
      /\ n.lifetime = t.lifetime /\ n.recovery = t.recovery
  BY <1>1, AcknowledgeFields
<1>. HIDE DEF n
<1>5. /\ Good(d) /\ Follows(d, t) /\ Unattributed(d, t) /\ Pays(d, t)
      /\ d.results \subseteq t.results /\ d.lifetime \in Nat /\ idle \in Nat
      /\ boot \in Nat \ {0} /\ d.next \in Nat
  BY <1>1, GoodFields DEF Inv, Keeps, Extends, Follows
<1>6. n.results = t.results \ {r}
  BY <1>1, <1>3, <1>4 DEF Good, GoodResults
<1>7. r \in d.results
  <2>1. seq < d.next /\ seq # d.active.seq /\ seq \in Nat
    <3>1. <<boot, seq>> \in Sent /\ <<boot, seq>>[1] = boot /\ <<boot, seq>>[2] = seq
      BY DEF Sent
    <3>2. seq \in 1..(d.next - 1) \ {d.active.seq}
      BY <3>1 DEF Inv, Told
    <3>. QED  BY <1>5, <3>2
  <2>2. r \notin d.results => EventOf(r) \in LeftOf(d, t)
    BY <1>3 DEF LeftOf
  <2>3. EventOf(r).seq = seq
    BY EventFields
  <2>. QED  BY <1>5, <2>1, <2>2, <2>3 DEF Follows, Continues
<1>8. Store!Release(r)
  <2>1. {r} \in SUBSET d.results /\ d'.results = t.results \ {r}
    BY <1>2, <1>6, <1>7
  <2>2. \A e \in LeftOf(d, t) : e.seq >= d.next => e \in {} \/ (e.sid = NoSid /\ e.pulses > 0)
    BY <1>5 DEF Unattributed
  <2>3. Store!Progress({r}, {})
    BY <1>1, <1>2, <1>4, <1>5, <2>1, <2>2, StoreProgress
  <2>. QED  BY <2>3 DEF Store!Release
<1>9. Inv'
  <2>1. Told(Sent, t)
    BY <1>1, <1>5, ToldLater DEF Inv
  <2>2. Told(Frames(n.results), t)
    BY <1>1, <1>5, <1>6, ToldResults
  <2>3. Told(Sent', t)
    BY <1>2, <2>1, <2>2, ToldMore
  <2>4. Told(Sent, d)'
    BY <1>2, <1>4, <2>3 DEF Told
  <2>5. Timed(d, idle)'
    BY <1>1, <1>2, <1>4 DEF Timed
  <2>6. Good(d)'
    BY <1>2, <1>4 DEF Good, GoodResults, GoodActive, IsLive
  <2>. QED  BY <1>2, <1>5, <2>4, <2>5, <2>6 DEF Inv
<1>10. Exact
  <2>1. d'.lifetime = d.lifetime /\ d'.results \subseteq t.results
    BY <1>1, <1>2, <1>4
  <2>2. /\ idle >= Ttl => LateFor(Ttl)
        /\ idle >= FlowGap + Settling => LateFor(FlowGap + Settling)
    BY <1>5, <2>1, LateWhenTicked
  <2>. QED  BY <1>1, <2>1, <2>2 DEF Exact, Closed
<1>11. Released
  BY <1>2, <1>5, <1>6 DEF Released
<1>. QED  BY <1>7, <1>8, <1>9, <1>10, <1>11 DEF Step, Store!Next

LEMMA AckStep ==
  ASSUME Inv, NEW frame \in read, HandleAck(frame[1], frame[2])
  PROVE  Step
<1>. DEFINE t == Tick(d)
            seq == frame[2]
            n == Acknowledge(t, seq)
<1>1. Request(IF frame[1] = boot THEN n ELSE t, {}) /\ idle' = idle
  BY DEF HandleAck
<1>2. frame = <<frame[1], seq>>
  <2>1. frame \in (1..boot) \X Nat
    BY DEF Inv, Told, Sent
  <2>. QED  BY <2>1
<1>3. CASE frame[1] # boot
  BY <1>1, <1>3, TickStep
<1>4. CASE frame[1] = boot /\ \E r \in t.results : r.seq = seq
  <2>1. <<boot, seq>> \in read
    BY <1>2, <1>4
  <2>2. Request(n, {})
    BY <1>1, <1>4
  <2>. HIDE DEF seq
  <2>. QED  BY <1>1, <1>4, <2>1, <2>2, ReleaseStep
<1>5. CASE frame[1] = boot /\ ~\E r \in t.results : r.seq = seq
  <2>1. Request(n, {})
    BY <1>1, <1>5
  <2>2. /\ Keeps(d, t) /\ Good(t) /\ Timed(t, idle) /\ t.lifetime = d.lifetime
        /\ \A r \in t.results \ d.results :
             /\ r.status = "timed_out" => idle >= Ttl
             /\ r.status = "complete" => idle >= FlowGap + Settling
    BY TickedRequest
  <2>. HIDE DEF t, seq
  <2>3. /\ Good(n) /\ n.active = t.active /\ n.next = t.next
        /\ n.results = {q \in t.results : q.seq # seq}
        /\ n.lifetime = t.lifetime /\ n.recovery = t.recovery
    BY <2>2, AcknowledgeFields
  <2>4. n.results = t.results
    BY <1>5, <2>3
  <2>. HIDE DEF n
  <2>5. d' = n /\ boot' = boot /\ Sent' \subseteq Sent \cup Frames(n.results)
    BY <2>1, RequestSends
  <2>6. LeftOf(d, n) = LeftOf(d, t) /\ Held(n) = Held(t)
    BY <2>3, <2>4 DEF LeftOf, OpenOf, IsLive, Held
  <2>7. Keeps(d, n)
    <3>1. Follows(d, n)
      BY <2>2, <2>3, <2>4, <2>6 DEF Keeps, Extends, Follows
    <3>2. Unattributed(d, n) /\ Pays(d, n)
      BY <2>2, <2>3, <2>4, <2>6 DEF Keeps, Extends, Unattributed, Pays
    <3>. QED  BY <2>3, <3>1, <3>2 DEF Keeps, Extends
  <2>8. Timed(n, idle) /\ idle \in Nat /\ d.lifetime \in Nat
    BY <2>2, <2>3, GoodFields DEF Timed, Inv
  <2>9. /\ idle >= Ttl => LateFor(Ttl)
        /\ idle >= FlowGap + Settling => LateFor(FlowGap + Settling)
    BY <1>1, <2>2, <2>3, <2>5, <2>8, LateWhenTicked
  <2>. QED  BY <1>1, <2>2, <2>4, <2>5, <2>7, <2>8, <2>9, WorkStep
<1>. QED  BY <1>3, <1>4, <1>5

(* A batch of edges, from its beginning to its end. *)
LEMMA InjectStep ==
  ASSUME Inv, NEW after, Inject(after),
         Keeps(d, after.m), after.quiet \in Nat, Timed(after.m, after.quiet),
         BatchEnds(after.m)
  PROVE  Step
<1>1. d' = after.m /\ idle' = after.quiet /\ boot' = boot /\ read' = read
  BY DEF Inject
<1>2. Sent' \subseteq Sent \cup Frames(d'.results)
  <2>1. Frames(New(after.m)) \subseteq Frames(d'.results)
    BY <1>1 DEF Frames, New
  <2>2. wire'.incoming \cup wire'.delayed
          \subseteq wire.incoming \cup wire.delayed \cup Frames(New(after.m)) \cup {}
    <3>1. CASE after.raised
      BY <3>1 DEF Inject
    <3>2. CASE ~after.raised
      <4>1. wire' = Enqueue(wire, Frames(New(after.m)), {}, FALSE)
        BY <3>2 DEF Inject
      <4>. QED  BY <4>1, EnqueueSends
    <3>. QED  BY <3>1, <3>2
  <2>. QED  BY <1>1, <2>1, <2>2 DEF Sent
<1>3. ASSUME NEW r \in d'.results \ d.results
      PROVE  /\ r.status = "timed_out" => LateFor(Ttl)
             /\ r.status = "complete" => LateFor(FlowGap + Settling)
  <2>1. Good(d) /\ Good(d') /\ idle \in Nat /\ Timed(d, idle)
    BY <1>1 DEF Inv, Keeps
  <2>2. d.lifetime \in Nat /\ d'.lifetime \in Nat
    BY <2>1, GoodFields
  <2>3. d.active.state \in Live => d.active.left \in Int
    BY <2>1, GoodFields DEF OpenEvent
  <2>4. d.lifetime < d'.lifetime => d'.lifetime > d.lifetime
    BY <2>2
  <2>5. CASE r.status = "timed_out"
    <3>1. d.active.state = "armed" /\ d.active.left - Interval < 0 /\ d.lifetime < d'.lifetime
      BY <1>1, <2>5 DEF BatchEnds
    <3>2. idle + Interval > Ttl
      BY <2>1, <2>3, <3>1, IdleCapBounds DEF Timed, Live
    <3>. QED  BY <2>4, <2>5, <3>1, <3>2 DEF LateFor, Silence
  <2>6. CASE r.status = "complete"
    <3>1. d.active.state = "settling" /\ d.active.left - Interval < 0 /\ d.lifetime < d'.lifetime
      BY <1>1, <2>6 DEF BatchEnds
    <3>2. idle + Interval > FlowGap + Settling
      BY <2>1, <2>3, <3>1, IdleCapBounds DEF Timed, Live
    <3>. QED  BY <2>4, <2>6, <3>1, <3>2 DEF LateFor, Silence
  <2>. QED  BY <2>5, <2>6
<1>. QED  BY <1>1, <1>2, <1>3, WorkStep

LEMMA PulsesStep ==
  ASSUME Inv, NEW count \in 1..MaxBatch, InjectPulses(count)
  PROVE  Step
<1>. DEFINE quiet == IF Saturates(d, count) THEN idle ELSE 0
            p == Pulse(d, count)
            after == [m |-> p, raised |-> Raises(d, count), quiet |-> quiet]
<1>1. Inject(after) /\ after.m = p /\ after.quiet = quiet
  BY DEF InjectPulses
<1>2. /\ Keeps(d, p) /\ EdgeEnds(d, p)
      /\ Saturates(d, count) => p.active \in {d.active, NoActive}
      /\ ~Saturates(d, count) => Flows(p)
  BY PulseKeeps DEF Inv
<1>. HIDE DEF p
<1>3. idle \in Nat /\ Timed(d, idle) /\ Good(d)
  BY DEF Inv
<1>4. quiet \in Nat /\ Timed(p, quiet)
  <2>1. CASE Saturates(d, count)
    <3>1. p.active = d.active => Timed(p, idle)
      BY <1>3 DEF Timed
    <3>. QED  BY <1>2, <1>3, <2>1, <3>1, NoneTimed
  <2>2. CASE ~Saturates(d, count)
    BY <1>2, <2>2, FlowsTimed
  <2>. QED  BY <2>1, <2>2
<1>5. BatchEnds(p)
  <2>1. d.active.state \in Live => d.active.left \in Int
    BY <1>3, GoodFields DEF OpenEvent
  <2>2. d.active.state \in Live /\ d.active.left < 0 => d.active.left - Interval < 0
    BY <2>1
  <2>. QED  BY <1>2, <2>2 DEF BatchEnds, EdgeEnds, Live
<1>. HIDE DEF after, quiet
<1>. QED  BY <1>1, <1>2, <1>4, <1>5, InjectStep

LEMMA SpacedStep ==
  ASSUME Inv, NEW count \in 1..MaxBatch, InjectSpaced(count)
  PROVE  Step
<1>1. BatchKeeps(count, Spaced[count])
  BY SpacedKeeps DEF Inv
<1>. QED  BY <1>1, InjectStep DEF InjectSpaced, BatchKeeps

LEMMA AdvanceStep ==
  ASSUME Inv, NEW time \in 0..MaxAdvance, Advance(time)
  PROVE  Step
<1>. DEFINE a == Age(d, time)
            q == Least(idle + time, IdleCap)
<1>1. d' = Tick(a) /\ idle' = q /\ boot' = boot /\ read' = read
      /\ wire' = Enqueue(wire, Frames(New(d')), {}, FALSE)
  BY DEF Advance
<1>2. Good(d) /\ idle \in Nat /\ Timed(d, idle) /\ time \in Nat
  BY DEF Inv
<1>3. Keeps(d, a) /\ a.results = d.results /\ a.lifetime = d.lifetime
  BY <1>2, AgeKeeps
<1>4. Timed(a, q) /\ q \in Nat
  BY <1>2, AgeTimed
<1>. HIDE DEF a, q
<1>5. /\ Keeps(a, Tick(a)) /\ Timed(Tick(a), q) /\ Tick(a).lifetime = a.lifetime
      /\ \A r \in Tick(a).results \ a.results :
           /\ r.status = "timed_out" => q >= Ttl
           /\ r.status = "complete" => q >= FlowGap + Settling
  BY <1>3, <1>4, TickKeeps, TickTimed DEF Keeps
<1>6. Keeps(d, d')
  BY <1>1, <1>2, <1>3, <1>5, KeepsTrans
<1>7. Sent' \subseteq Sent \cup Frames(d'.results)
  <2>1. Frames(New(d')) \subseteq Frames(d'.results)
    BY DEF Frames, New
  <2>2. wire'.incoming \cup wire'.delayed
          \subseteq wire.incoming \cup wire.delayed \cup Frames(New(d')) \cup {}
    BY <1>1, EnqueueSends
  <2>. QED  BY <1>1, <2>1, <2>2 DEF Sent
<1>8. /\ q >= Ttl => LateFor(Ttl)
      /\ q >= FlowGap + Settling => LateFor(FlowGap + Settling)
  <2>1. d'.lifetime = d.lifetime /\ d.lifetime \in Nat /\ idle' \in Nat
    BY <1>1, <1>2, <1>3, <1>4, <1>5, GoodFields
  <2>. QED  BY <1>1, <1>2, <2>1, LateWhenTicked
<1>. QED  BY <1>1, <1>3, <1>4, <1>5, <1>6, <1>7, <1>8, WorkStep

LEMMA NewDeviceGood == Good(NewDevice) /\ ~IsLive(NewDevice)
<1>. DEFINE n == NewDevice
<1>1. n = [state |-> "idle", active |-> NoActive, results |-> {},
           next |-> 1, lifetime |-> 0, recovery |-> 0]
  BY DEF NewDevice
<1>. HIDE DEF n
<1>2. n \in Device /\ n.results = {} /\ n.active = NoActive
  BY <1>1 DEF Device
<1>3. IsFiniteSet({}) /\ Cardinality({}) = 0
  BY FS_EmptySet
<1>4. GoodResults(n)
  BY <1>2, <1>3 DEF GoodResults
<1>. QED  BY <1>2, <1>4 DEF n, Good, GoodActive, IsLive

LEMMA InitInv == Init => Inv
<1>. SUFFICES ASSUME Init PROVE Inv
  OBVIOUS
<1>1. d = NewDevice /\ boot = 1 /\ idle = 0 /\ Sent = {}
  BY DEF Init, Sent
<1>2. d.active = NoActive
  BY <1>1 DEF NewDevice
<1>. QED  BY <1>1, <1>2, NewDeviceGood, NoneTimed DEF Inv, Told

LEMMA ResetStep ==
  ASSUME Inv, DOMAIN wire = {"incoming", "delayed", "faults"}, ResetDevice
  PROVE  Step
<1>1. d' = NewDevice /\ boot' = boot + 1 /\ idle' = 0 /\ boot \in Nat \ {0}
      /\ Sent' \subseteq Sent
  BY DEF ResetDevice, Sent, Inv
<1>2. d'.active = NoActive /\ d'.results = {} /\ d'.next = 1 /\ d'.lifetime = 0
      /\ d'.recovery = 0
  BY <1>1 DEF NewDevice
<1>3. Inv'
  <2>1. Told(Sent, d)'
    <3>1. \A f \in Sent' : f \in (1..boot) \X Nat
      BY <1>1 DEF Inv, Told
    <3>2. \A f \in Sent' : f \in (1..boot') \X Nat /\ f[1] # boot'
      <4>. SUFFICES ASSUME NEW f \in Sent' PROVE f \in (1..boot') \X Nat /\ f[1] # boot'
        OBVIOUS
      <4>1. PICK b \in 1..boot, s \in Nat : f = <<b, s>>
        BY <3>1
      <4>2. b \in 1..boot' /\ b # boot'
        BY <1>1
      <4>. QED  BY <4>1, <4>2
    <3>. QED  BY <3>2 DEF Told
  <2>2. Good(d)'
    BY <1>1, NewDeviceGood DEF Good, GoodResults, GoodActive
  <2>3. Timed(d, idle)'
    BY <1>1, <1>2, NoActiveFields DEF Timed
  <2>. QED  BY <1>1, <2>1, <2>2, <2>3 DEF Inv
<1>4. Store!Reset
  BY <1>2, NoActiveFields DEF Store!Reset, Store!NoEvent
<1>5. Exact /\ Released
  BY <1>1, <1>2 DEF Exact, Closed, Released
<1>. QED  BY <1>3, <1>4, <1>5 DEF Step, Store!Next

(* The wire is a record. *)
Wired == DOMAIN wire = {"incoming", "delayed", "faults"}

LEMMA NextWired == Wired /\ [Next]_vars => Wired'
<1>. SUFFICES ASSUME Wired, [Next]_vars PROVE Wired'
  OBVIOUS
<1>1. ASSUME NEW news, NEW told, NEW replied, wire' = Enqueue(wire, news, told, replied)
      PROVE  Wired'
  BY <1>1 DEF Wired, Enqueue
<1>2. ASSUME NEW m, NEW told, Request(m, told) PROVE Wired'
  BY <1>1, <1>2 DEF Request
<1>3. CASE \/ Poll
           \/ \E seq \in 1..MaxSeq, sid \in Sids : HandleArm(seq, sid) \/ HandleCancel(seq, sid)
           \/ \E frame \in read : HandleAck(frame[1], frame[2])
           \/ HandleResults
  BY <1>2, <1>3, Zenon DEF Poll, HandleArm, HandleCancel, HandleAck, HandleResults
<1>4. ASSUME NEW after, Inject(after) PROVE Wired'
  <2>1. CASE after.raised
    BY <1>4, <2>1 DEF Inject, Wired
  <2>2. CASE ~after.raised
    BY <1>1, <1>4, <2>2 DEF Inject
  <2>. QED  BY <2>1, <2>2
<1>5. CASE \E count \in 1..MaxBatch : InjectPulses(count) \/ InjectSpaced(count)
  BY <1>4, <1>5, Zenon DEF InjectPulses, InjectSpaced
<1>6. CASE \E time \in 0..MaxAdvance : Advance(time)
  BY <1>1, <1>6 DEF Advance
<1>7. CASE DisconnectDevice \/ ReconnectDevice \/ Open \/ Close \/ UNCHANGED vars
  BY <1>7 DEF DisconnectDevice, ReconnectDevice, Open, Close, vars, Wired
<1>8. CASE \/ ResetDevice \/ FlushDelayed
           \/ \E fault \in Faults, enabled \in BOOLEAN : ConfigureFault(fault, enabled)
           \/ \E frame \in wire.incoming : Read(frame)
  BY <1>8 DEF ResetDevice, FlushDelayed, ConfigureFault, Read, Wired
<1>. QED  BY <1>3, <1>5, <1>6, <1>7, <1>8 DEF Next

LEMMA NextStep == Inv /\ Wired /\ [Next]_vars => Step
<1>. SUFFICES ASSUME Inv, Wired, [Next]_vars PROVE Step
  OBVIOUS
<1>1. CASE Poll
  BY <1>1, PollStep
<1>2. ASSUME NEW seq \in 1..MaxSeq, NEW sid \in Sids, HandleArm(seq, sid) \/ HandleCancel(seq, sid)
      PROVE  Step
  BY <1>2, ArmStep, CancelStep
<1>3. ASSUME NEW frame \in read, HandleAck(frame[1], frame[2]) PROVE Step
  BY <1>3, AckStep
<1>4. CASE HandleResults
  BY <1>4, ResultsStep
<1>5. ASSUME NEW count \in 1..MaxBatch, InjectPulses(count) \/ InjectSpaced(count) PROVE Step
  BY <1>5, PulsesStep, SpacedStep
<1>6. ASSUME NEW time \in 0..MaxAdvance, Advance(time) PROVE Step
  BY <1>6, AdvanceStep
<1>7. CASE DisconnectDevice \/ ReconnectDevice \/ Open \/ Close
  BY <1>7, StillStep DEF DisconnectDevice, ReconnectDevice, Open, Close, Sent
<1>8. CASE ResetDevice
  BY <1>8, ResetStep DEF Wired
<1>9. ASSUME NEW fault \in Faults, NEW enabled \in BOOLEAN, ConfigureFault(fault, enabled)
      PROVE  Step
  <2>1. wire'.incoming = wire.incoming /\ wire'.delayed = wire.delayed
    BY <1>9 DEF Wired, ConfigureFault
  <2>. QED  BY <1>9, <2>1, StillStep DEF ConfigureFault, Sent
<1>10. CASE FlushDelayed
  <2>1. wire'.incoming \cup wire'.delayed = wire.incoming \cup wire.delayed
    BY <1>10 DEF Wired, FlushDelayed
  <2>. QED  BY <1>10, <2>1, StillStep DEF FlushDelayed, Sent
<1>11. ASSUME NEW frame \in wire.incoming, Read(frame) PROVE Step
  <2>1. wire'.incoming = wire.incoming \ {frame} /\ wire'.delayed = wire.delayed
    BY <1>11 DEF Wired, Read
  <2>. QED  BY <1>11, <2>1, StillStep DEF Read, Sent
<1>12. CASE UNCHANGED vars
  BY <1>12, StillStep DEF vars, Sent
<1>. QED  BY <1>1, <1>2, <1>3, <1>4, <1>5, <1>6, <1>7, <1>8, <1>9, <1>10, <1>11, <1>12 DEF Next

-------------------------------------------------------------------------------
(* Theorems *)

(* The machine stays in order over any sequence of calls and resets: what  *)
(* it holds is numbered once, a slot is free for the open event, an event  *)
(* is empty exactly when it is armed or timed out, and no frame on the way *)
(* or read is about the open event (device_machine.py, simulator.py).      *)
THEOREM SimulatorInvariant == Spec => [](Inv /\ Wired)
<1>1. Inv /\ Wired /\ [Next]_vars => Inv'
  BY NextStep DEF Step
<1>2. Init => Wired
  BY DEF Init, Wired
<1>. QED  BY <1>1, <1>2, InitInv, NextWired, PTL DEF Spec

(* The simulator the host is tested against keeps what EventStore          *)
(* promises, in every step, also in the calls that raise half way and in a *)
(* batch of edges of any length (device_machine.py, simulator.py).         *)
THEOREM SimulatorIsEventStore == Spec => ImplementsEventStore
<1>1. Init => Store!Init
  <2>. SUFFICES ASSUME Init PROVE Store!Init
    OBVIOUS
  <2>1. d = NewDevice
    BY DEF Init
  <2>. QED  BY <2>1, NoActiveFields DEF NewDevice, Store!Init, Store!NoEvent
<1>2. Inv /\ Wired /\ [Next]_vars => [Store!Next]_(Store!vars)
  BY NextStep DEF Step
<1>. QED  BY <1>1, <1>2, SimulatorInvariant, PTL DEF Spec, ImplementsEventStore, Store!Spec

(* Whatever frames are lost, delayed over a reset or read twice, an ACK    *)
(* drops only the result that was read (simulator.py _handle, ACK).        *)
THEOREM ReleasedAlwaysRead == Spec => ReleasedWasRead
<1>1. Inv /\ Wired /\ [Next]_vars =>
        (boot' = boot => \A r \in d.results \ d'.results : <<boot, r.seq>> \in read)
  BY NextStep DEF Step, Released
<1>. QED  BY <1>1, SimulatorInvariant, PTL DEF Spec, ReleasedWasRead

(* No order of ticks, edges and jumps of the clock ends an event before    *)
(* its deadline, or at it when an edge comes then (device_machine.py tick  *)
(* and pulse).                                                             *)
THEOREM DeadlinesAlwaysExact == Spec => DeadlinesAreExact
<1>1. Inv /\ Wired /\ [Next]_vars =>
        LET late(time) == IF d'.lifetime > d.lifetime THEN Silence > time ELSE Silence >= time
        IN  /\ Closed("timed_out") # {} => late(Ttl)
            /\ Closed("complete") # {} => late(FlowGap + Settling)
  BY NextStep DEF Step, Exact, LateFor
<1>. QED  BY <1>1, SimulatorInvariant, PTL DEF Spec, DeadlinesAreExact

===============================================================================
