------------------------ MODULE MeasurementQueue_proofs ------------------------
(***************************************************************************)
(* Safety of a measurement's way from the controller to the database, for  *)
(* any capacity of the queues and any number of boots, kegs and pulses:    *)
(* MeasurementQueue's Inv is inductive.  The first half is about the retry *)
(* queue alone, whose entries the code picks apart, sorts and joins: what  *)
(* it holds after an event is scheduled (Kept).  The second half is about  *)
(* the queues together: old entries stay in order, fresh ones come after.  *)
(***************************************************************************)
EXTENDS MeasurementQueue, TLAPS, FiniteSetTheorems, SequenceTheorems, WellFoundedInduction

-------------------------------------------------------------------------------
(***************************************************************************)
(* Induction.                                                              *)
(***************************************************************************)
Below == {ss \in Nat \X Nat : ss[1] < ss[2]}

LEMMA Induct ==
  ASSUME NEW S, 0 \in S, \A n \in Nat : n \in S => n + 1 \in S
  PROVE  Nat \subseteq S
<1>. DEFINE T == Nat \ S
<1>. SUFFICES ASSUME T # {} PROVE FALSE
  OBVIOUS
<1>1. IsWellFoundedOn(Below, Nat)
  BY NatLessThanWellFounded DEF OpToRel, Below
<1>2. T \in SUBSET Nat /\ T # {}
  OBVIOUS
<1>. HIDE DEF T
<1>3. PICK n \in T : \A k \in T : <<k, n>> \notin Below
  BY <1>1, <1>2, WFMin
<1>4. n \in Nat /\ n \notin S
  BY <1>3 DEF T
<1>5. n - 1 \in Nat /\ n = (n - 1) + 1
  <2>1. n # 0
    BY <1>4
  <2>. QED  BY <2>1, <1>4
<1>6. <<n - 1, n>> \in Below
  BY <1>4, <1>5 DEF Below
<1>7. n - 1 \in S
  BY <1>3, <1>5, <1>6 DEF T
<1>8. (n - 1) + 1 \in S
  BY <1>5, <1>7
<1>. QED  BY <1>4, <1>5, <1>8

-------------------------------------------------------------------------------
(***************************************************************************)
(* Picking entries of a queue.                                             *)
(***************************************************************************)
(* The recursive function that Picked is the last value of. *)
PickSteps(q, places, n, picked) ==
  picked = [m \in 0..n |->
              IF m = 0 THEN << >>
              ELSE IF m \in places THEN Append(picked[m - 1], q[m]) ELSE picked[m - 1]]

LEMMA PickExists ==
  ASSUME NEW q, NEW places, NEW n \in Nat
  PROVE  \E picked : PickSteps(q, places, n, picked)
<1>. DEFINE S == {m \in Nat : \E picked : PickSteps(q, places, m, picked)}
<1>1. 0 \in S
  <2>1. PickSteps(q, places, 0, [i \in 0..0 |-> << >>])
    BY DEF PickSteps
  <2>. QED  BY <2>1
<1>2. ASSUME NEW m \in Nat, m \in S PROVE m + 1 \in S
  <2>1. PICK picked : PickSteps(q, places, m, picked)
    BY <1>2
  <2>. DEFINE last == IF m + 1 \in places THEN Append(picked[m], q[m + 1]) ELSE picked[m]
              next == [i \in 0..m + 1 |-> IF i = m + 1 THEN last ELSE picked[i]]
  <2>2. \A i \in 0..m + 1 :
          next[i] = IF i = 0 THEN << >>
                    ELSE IF i \in places THEN Append(next[i - 1], q[i]) ELSE next[i - 1]
    <3>. TAKE i \in 0..m + 1
    <3>1. CASE i = 0
      BY <3>1, <2>1 DEF PickSteps
    <3>2. CASE i = m + 1
      BY <3>2
    <3>3. CASE i \in 1..m
      <4>1. i \in 0..m /\ i - 1 \in 0..m /\ i # 0 /\ next[i] = picked[i] /\ next[i - 1] = picked[i - 1]
        BY <3>3
      <4>2. picked[i] = IF i \in places THEN Append(picked[i - 1], q[i]) ELSE picked[i - 1]
        BY <2>1, <4>1 DEF PickSteps
      <4>. HIDE DEF next
      <4>. QED  BY <4>1, <4>2
    <3>. QED  BY <3>1, <3>2, <3>3
  <2>3. PickSteps(q, places, m + 1, next)
    BY <2>2 DEF PickSteps
  <2>. QED  BY <2>3
<1>3. Nat \subseteq S
  <2>. HIDE DEF S
  <2>. QED  BY <1>1, <1>2, Induct
<1>. QED  BY <1>3

LEMMA PickedIsLast ==
  ASSUME NEW q, NEW places, Len(q) \in Nat
  PROVE  \E picked : PickSteps(q, places, Len(q), picked) /\ Picked(q, places) = picked[Len(q)]
<1>. DEFINE n == Len(q)
<1>1. \E picked : PickSteps(q, places, n, picked)
  BY PickExists
<1>2. Picked(q, places) = (CHOOSE picked : PickSteps(q, places, n, picked))[n]
  BY DEF Picked, PickSteps
<1>3. PickSteps(q, places, n, CHOOSE picked : PickSteps(q, places, n, picked))
  BY <1>1
<1>. QED  BY <1>2, <1>3

(* r holds the entries at the places up to n, in their order: its i-th is  *)
(* the one at at[i].                                                       *)
PickedAt(q, places, n, r, at) ==
  /\ \A i \in 1..Len(r) : at[i] \in 1..n /\ at[i] \in places /\ r[i] = q[at[i]]
  /\ \A i, j \in 1..Len(r) : i < j => at[i] < at[j]
  /\ \A m \in 1..n : m \in places => \E i \in 1..Len(r) : at[i] = m

PickedUpTo(q, places, n, r) ==
  r \in Seq(Event) /\ \E at : PickedAt(q, places, n, r, at)

LEMMA PickOneMore ==
  ASSUME NEW q \in Seq(Event), NEW places, NEW n \in Nat, n + 1 <= Len(q), NEW r,
         PickedUpTo(q, places, n, r)
  PROVE  PickedUpTo(q, places, n + 1,
                    IF n + 1 \in places THEN Append(r, q[n + 1]) ELSE r)
<1>. DEFINE new == IF n + 1 \in places THEN Append(r, q[n + 1]) ELSE r
<1>1. PICK at : PickedAt(q, places, n, r, at)
  BY DEF PickedUpTo
<1>2. r \in Seq(Event) /\ Len(r) \in Nat
  BY DEF PickedUpTo
<1>3. q[n + 1] \in Event
  BY n + 1 \in 1..Len(q), ElementOfSeq
<1>4. ASSUME n + 1 \in places PROVE PickedUpTo(q, places, n + 1, Append(r, q[n + 1]))
  <2>. DEFINE s == Append(r, q[n + 1])
              to == [i \in 1..Len(r) + 1 |-> IF i = Len(r) + 1 THEN n + 1 ELSE at[i]]
  <2>1. s \in Seq(Event) /\ Len(s) = Len(r) + 1
    BY <1>2, <1>3
  <2>2. \A i \in 1..Len(r) : s[i] = r[i]
    BY <1>2
  <2>3. s[Len(r) + 1] = q[n + 1]
    BY <1>2
  <2>. HIDE DEF s
  <2>4. \A i \in 1..Len(s) : to[i] \in 1..n + 1 /\ to[i] \in places /\ s[i] = q[to[i]]
    <3>. TAKE i \in 1..Len(s)
    <3>1. CASE i = Len(r) + 1
      BY <3>1, <2>3, <1>4, <1>2
    <3>2. CASE i \in 1..Len(r)
      <4>1. to[i] = at[i] /\ s[i] = r[i]
        BY <3>2, <2>2, <1>2
      <4>2. at[i] \in 1..n /\ at[i] \in places /\ r[i] = q[at[i]]
        BY <3>2, <1>1 DEF PickedAt
      <4>3. at[i] \in 1..n + 1
        BY <4>2
      <4>. HIDE DEF to
      <4>. QED  BY <4>1, <4>2, <4>3
    <3>. QED  BY <3>1, <3>2, <2>1, <1>2
  <2>5. \A i, j \in 1..Len(s) : i < j => to[i] < to[j]
    <3>. TAKE i, j \in 1..Len(s)
    <3>. HAVE i < j
    <3>1. i \in 1..Len(r) /\ to[i] = at[i] /\ at[i] \in 1..n
      BY <2>1, <1>1, <1>2 DEF PickedAt
    <3>2. CASE j = Len(r) + 1
      BY <3>1, <3>2, <1>2
    <3>3. CASE j \in 1..Len(r)
      BY <3>1, <3>3, <1>1, <1>2 DEF PickedAt
    <3>. QED  BY SMTT(40), <3>2, <3>3, <2>1, <1>2
  <2>6. \A m \in 1..n + 1 : m \in places => \E i \in 1..Len(s) : to[i] = m
    <3>. TAKE m \in 1..n + 1
    <3>. HAVE m \in places
    <3>1. CASE m = n + 1
      BY <3>1, <2>1, <1>2
    <3>2. CASE m \in 1..n
      <4>1. PICK i \in 1..Len(r) : at[i] = m
        BY <3>2, <1>1 DEF PickedAt
      <4>2. i \in 1..Len(s) /\ to[i] = at[i]
        BY <2>1, <1>2, <4>1
      <4>. HIDE DEF to
      <4>. QED  BY <4>1, <4>2
    <3>. HIDE DEF to
    <3>. QED  BY <3>1, <3>2
  <2>. HIDE DEF to
  <2>7. PickedAt(q, places, n + 1, s, to)
    BY <2>4, <2>5, <2>6 DEF PickedAt
  <2>8. PickedUpTo(q, places, n + 1, s)
    BY <2>1, <2>7 DEF PickedUpTo
  <2>. QED  BY <2>8 DEF s
<1>5. ASSUME n + 1 \notin places PROVE PickedUpTo(q, places, n + 1, r)
  <2>1. \A m \in 1..n + 1 : m \in places => m \in 1..n
    BY <1>5
  <2>2. 1..n \subseteq 1..n + 1
    OBVIOUS
  <2>3. PickedAt(q, places, n + 1, r, at)
    BY <1>1, <2>1, <2>2 DEF PickedAt
  <2>. QED  BY <2>3, <1>2 DEF PickedUpTo
<1>. QED  BY <1>4, <1>5

LEMMA PickNone ==
  ASSUME NEW q, NEW places
  PROVE  PickedUpTo(q, places, 0, << >>)
<1>1. PickedAt(q, places, 0, << >>, << >>)
  BY DEF PickedAt
<1>. QED  BY <1>1 DEF PickedUpTo

(* Every place is picked, or left for the rest. *)
Split(q, places, rest, n, r, u) ==
  PickedUpTo(q, places, n, r) /\ PickedUpTo(q, rest, n, u) /\ Len(r) + Len(u) = n

LEMMA SplitOneMore ==
  ASSUME NEW q \in Seq(Event), NEW places, NEW rest, NEW n \in Nat, n + 1 <= Len(q),
         NEW r, NEW u, Split(q, places, rest, n, r, u),
         n + 1 \in rest <=> n + 1 \notin places
  PROVE  Split(q, places, rest, n + 1,
               IF n + 1 \in places THEN Append(r, q[n + 1]) ELSE r,
               IF n + 1 \in rest THEN Append(u, q[n + 1]) ELSE u)
<1>. DEFINE rr == IF n + 1 \in places THEN Append(r, q[n + 1]) ELSE r
            uu == IF n + 1 \in rest THEN Append(u, q[n + 1]) ELSE u
<1>1. PickedUpTo(q, places, n + 1, rr) /\ PickedUpTo(q, rest, n + 1, uu)
  BY PickOneMore DEF Split
<1>2. r \in Seq(Event) /\ u \in Seq(Event) /\ Len(r) + Len(u) = n
  BY DEF Split, PickedUpTo
<1>3. q[n + 1] \in Event
  BY n + 1 \in 1..Len(q), ElementOfSeq
<1>4. CASE n + 1 \in places
  <2>1. rr = Append(r, q[n + 1]) /\ uu = u
    BY <1>4
  <2>2. Len(rr) + Len(uu) = n + 1
    <3>1. Len(r) \in Nat /\ Len(Append(r, q[n + 1])) = Len(r) + 1
      BY <1>2, <1>3
    <3>2. Len(r) \in Nat /\ Len(u) \in Nat /\ Len(r) + Len(u) = n
      BY <1>2
    <3>. HIDE DEF rr, uu
    <3>. QED  BY <2>1, <3>1, <3>2
  <2>. QED  BY <1>1, <2>2 DEF Split
<1>5. CASE n + 1 \in rest
  <2>1. rr = r /\ uu = Append(u, q[n + 1])
    BY <1>5
  <2>2. Len(rr) + Len(uu) = n + 1
    <3>1. Len(u) \in Nat /\ Len(Append(u, q[n + 1])) = Len(u) + 1
      BY <1>2, <1>3
    <3>2. Len(r) \in Nat /\ Len(u) \in Nat /\ Len(r) + Len(u) = n
      BY <1>2
    <3>. HIDE DEF rr, uu
    <3>. QED  BY <2>1, <3>1, <3>2
  <2>. QED  BY <1>1, <2>2 DEF Split
<1>. QED  BY <1>4, <1>5

(* What is picked, and that a place is picked or left. *)
LEMMA PickedFacts ==
  ASSUME NEW q \in Seq(Event), NEW places, NEW rest,
         \A i \in 1..Len(q) : i \in rest <=> i \notin places
  PROVE  Split(q, places, rest, Len(q), Picked(q, places), Picked(q, rest))
<1>. DEFINE end == Len(q)
<1>0. end \in Nat
  OBVIOUS
<1>1. PICK p : PickSteps(q, places, end, p) /\ Picked(q, places) = p[end]
  BY <1>0, PickedIsLast
<1>2. PICK r : PickSteps(q, rest, end, r) /\ Picked(q, rest) = r[end]
  BY <1>0, PickedIsLast
<1>. DEFINE Claim(m) == Split(q, places, rest, m, p[m], r[m])
            S == {m \in Nat : m <= end => Claim(m)}
<1>. HIDE DEF end
<1>3. Claim(0)
  <2>1. p[0] = << >> /\ r[0] = << >>
    BY <1>0, <1>1, <1>2 DEF PickSteps
  <2>. QED  BY <2>1, PickNone DEF Split
<1>4. ASSUME NEW m \in Nat, m + 1 <= end, Claim(m) PROVE Claim(m + 1)
  <2>1. m + 1 \in 1..end /\ m + 1 \in 0..end /\ m + 1 # 0 /\ (m + 1) - 1 = m
    BY <1>0, <1>4
  <2>2. /\ p[m + 1] = IF m + 1 \in places THEN Append(p[m], q[m + 1]) ELSE p[m]
        /\ r[m + 1] = IF m + 1 \in rest THEN Append(r[m], q[m + 1]) ELSE r[m]
    BY <2>1, <1>1, <1>2 DEF PickSteps
  <2>3. m + 1 \in rest <=> m + 1 \notin places
    BY <2>1 DEF end
  <2>4. m + 1 <= Len(q)
    BY <1>4 DEF end
  <2>. QED  BY <1>4, <2>2, <2>3, <2>4, SplitOneMore
<1>. HIDE DEF Claim
<1>5. 0 \in S /\ \A m \in Nat : m \in S => m + 1 \in S
  BY <1>0, <1>3, <1>4
<1>6. Nat \subseteq S
  <2>. HIDE DEF S
  <2>. QED  BY <1>5, Induct
<1>7. Claim(end)
  BY <1>0, <1>6
<1>. QED  BY <1>1, <1>2, <1>7 DEF Claim, end
-------------------------------------------------------------------------------
(***************************************************************************)
(* Joining neighbours of a stream.                                         *)
(***************************************************************************)
JoinSteps(s, n, joined) ==
  joined = [m \in 0..n |-> IF m = 0 THEN << >> ELSE Join(joined[m - 1], s[m])]

LEMMA JoinExists ==
  ASSUME NEW s, NEW n \in Nat
  PROVE  \E joined : JoinSteps(s, n, joined)
<1>. DEFINE S == {m \in Nat : \E joined : JoinSteps(s, m, joined)}
<1>1. 0 \in S
  <2>1. JoinSteps(s, 0, [i \in 0..0 |-> << >>])
    BY DEF JoinSteps
  <2>. QED  BY <2>1
<1>2. ASSUME NEW m \in Nat, m \in S PROVE m + 1 \in S
  <2>1. PICK joined : JoinSteps(s, m, joined)
    BY <1>2
  <2>. DEFINE next == [i \in 0..m + 1 |-> IF i = m + 1 THEN Join(joined[m], s[m + 1])
                                          ELSE joined[i]]
  <2>2. \A i \in 0..m + 1 : next[i] = IF i = 0 THEN << >> ELSE Join(next[i - 1], s[i])
    <3>. TAKE i \in 0..m + 1
    <3>1. CASE i = 0
      BY <3>1, <2>1 DEF JoinSteps
    <3>2. CASE i = m + 1
      BY <3>2
    <3>3. CASE i \in 1..m
      <4>1. i \in 0..m /\ i - 1 \in 0..m /\ i # 0 /\ next[i] = joined[i] /\ next[i - 1] = joined[i - 1]
        BY <3>3
      <4>2. joined[i] = Join(joined[i - 1], s[i])
        BY <2>1, <4>1 DEF JoinSteps
      <4>. HIDE DEF next
      <4>. QED  BY <4>1, <4>2
    <3>. QED  BY <3>1, <3>2, <3>3
  <2>3. JoinSteps(s, m + 1, next)
    BY <2>2 DEF JoinSteps
  <2>. QED  BY <2>3
<1>3. Nat \subseteq S
  <2>. HIDE DEF S
  <2>. QED  BY <1>1, <1>2, Induct
<1>. QED  BY <1>3

LEMMA JoinedIsLast ==
  ASSUME NEW s, Len(s) \in Nat
  PROVE  \E joined : JoinSteps(s, Len(s), joined) /\ Joined(s) = joined[Len(s)]
<1>. DEFINE n == Len(s)
<1>1. \E joined : JoinSteps(s, n, joined)
  BY JoinExists
<1>2. Joined(s) = (CHOOSE joined : JoinSteps(s, n, joined))[n]
  BY DEF Joined, JoinSteps
<1>3. JoinSteps(s, n, CHOOSE joined : JoinSteps(s, n, joined))
  BY <1>1
<1>. QED  BY <1>2, <1>3

(* The same measurement, tried before or not. *)
Like(e, f) ==
  /\ e.kind = f.kind /\ e.boot = f.boot /\ e.value = f.value
  /\ e.accepted = f.accepted /\ e.uptime = f.uptime /\ e.keg = f.keg

(* y accounts for the m-th entry: it says as much, and is charged to the   *)
(* keg of the first entry that said as much as that one.                   *)
Accounts(s, m, y) ==
  y.value >= s[m].value /\ \E l \in 1..m : s[l].value = s[m].value /\ y.keg = s[l].keg

JoinedUpTo(s, n, j) ==
  /\ j \in Seq(Event) /\ Len(j) <= n
  /\ n > 0 => Len(j) > 0 /\ j[Len(j)].value = s[n].value
  /\ \A i, k \in 1..Len(j) : i < k => j[i].value < j[k].value
  /\ \A i \in 1..Len(j) : \E l \in 1..n : Like(j[i], s[l])
  /\ \A m \in 1..n : \E i \in 1..Len(j) : Accounts(s, m, j[i])

NeverFalls(s) == \A i, k \in 1..Len(s) : i < k => s[i].value <= s[k].value

(* A record with another field tried. *)
LEMMA TriedFacts ==
  ASSUME NEW e \in Event, NEW t \in BOOLEAN
  PROVE  /\ [e EXCEPT !.tried = t] \in Event
         /\ Like([e EXCEPT !.tried = t], e)
BY DEF Event, Like

LEMMA EventFields ==
  ASSUME NEW e \in Event
  PROVE  /\ e.kind \in {"result", "counters", "status"}
         /\ e.boot \in Boots /\ e.value \in Nat /\ e.accepted \in Nat /\ e.uptime \in Nat
         /\ e.keg \in Kegs /\ e.tried \in BOOLEAN
BY DEF Event

LEMMA MergeFacts ==
  ASSUME NEW prior \in Event, NEW e \in Event
  PROVE  /\ MergedInto(prior, e) \in Event
         /\ MergedInto(prior, e).value = e.value
         /\ \/ prior.value = e.value /\ Like(MergedInto(prior, e), prior)
            \/ prior.value # e.value /\ Like(MergedInto(prior, e), e)
<1>1. (prior.tried \/ e.tried) \in BOOLEAN /\ (e.tried \/ prior.tried) \in BOOLEAN
  BY EventFields
<1>2. CASE prior.value = e.value
  <2>1. MergedInto(prior, e) = [prior EXCEPT !.tried = prior.tried \/ e.tried]
    BY <1>2 DEF MergedInto
  <2>2. /\ [prior EXCEPT !.tried = prior.tried \/ e.tried] \in Event
        /\ Like([prior EXCEPT !.tried = prior.tried \/ e.tried], prior)
    BY TriedFacts
  <2>. QED  BY <1>2, <2>1, <2>2 DEF Like
<1>3. CASE prior.value # e.value
  <2>1. MergedInto(prior, e) = [e EXCEPT !.tried = e.tried \/ prior.tried]
    BY <1>3 DEF MergedInto
  <2>2. /\ [e EXCEPT !.tried = e.tried \/ prior.tried] \in Event
        /\ Like([e EXCEPT !.tried = e.tried \/ prior.tried], e)
    BY TriedFacts
  <2>. QED  BY <1>3, <2>1, <2>2 DEF Like
<1>. QED  BY <1>2, <1>3

LEMMA JoinOneMore ==
  ASSUME NEW s \in Seq(Event), NeverFalls(s), NEW n \in Nat, n + 1 <= Len(s), NEW j,
         JoinedUpTo(s, n, j)
  PROVE  JoinedUpTo(s, n + 1, Join(j, s[n + 1]))
<1>. DEFINE e == s[n + 1]
            k == Len(j)
<1>1. j \in Seq(Event) /\ k \in Nat /\ k <= n /\ Len(s) \in Nat
  BY DEF JoinedUpTo
<1>2. e \in Event /\ e.value \in Nat
  BY n + 1 \in 1..Len(s), ElementOfSeq, EventFields
<1>3. \A i \in 1..k : j[i] \in Event /\ j[i].value \in Nat
  BY <1>1, ElementOfSeq, EventFields
<1>4. \A i \in 1..n : s[i] \in Event /\ s[i].value \in Nat /\ s[i].value <= e.value
  <2>. TAKE i \in 1..n
  <2>1. i \in 1..Len(s) /\ n + 1 \in 1..Len(s) /\ i < n + 1
    BY <1>1
  <2>. QED  BY <2>1, ElementOfSeq, EventFields DEF NeverFalls
<1>5. /\ n > 0 => k > 0 /\ j[k].value = s[n].value
      /\ \A i, l \in 1..k : i < l => j[i].value < j[l].value
      /\ \A i \in 1..k : \E l \in 1..n : Like(j[i], s[l])
      /\ \A m \in 1..n : \E i \in 1..k : Accounts(s, m, j[i])
  BY DEF JoinedUpTo
<1>. DEFINE Merges == k > 0 /\ (j[k].value = e.value \/ j[k].keg = e.keg)
<1>6. j # << >> <=> k > 0
  BY <1>1
<1>7. CASE Merges
  <2>. DEFINE merged == MergedInto(j[k], e)
              new == [j EXCEPT ![k] = merged]
  <2>1. k \in 1..k /\ j[k] \in Event
    BY <1>1, <1>3, <1>7
  <2>2. Join(j, e) = new
    BY <1>6, <1>7 DEF Join
  <2>3. /\ merged \in Event /\ merged.value = e.value
        /\ \/ j[k].value = e.value /\ Like(merged, j[k])
           \/ j[k].value # e.value /\ Like(merged, e)
    BY <2>1, <1>2, MergeFacts
  <2>4. merged.keg = j[k].keg
    BY <2>3, <1>7 DEF Like
  <2>5. j[k].value <= e.value /\ n > 0
    <3>1. n > 0 /\ n \in 1..n
      BY <1>1, <1>7
    <3>. QED  BY <3>1, <1>4, <1>5
  <2>6. new \in Seq(Event) /\ Len(new) = k /\ new[k] = merged
        /\ \A i \in 1..k : i # k => new[i] = j[i]
    BY <1>1, <2>1, <2>3, ExceptSeq
  <2>. HIDE DEF new, merged
  <2>7. \A i, l \in 1..Len(new) : i < l => new[i].value < new[l].value
    <3>. TAKE i, l \in 1..Len(new)
    <3>. HAVE i < l
    <3>1. i \in 1..k /\ l \in 1..k /\ i # k /\ new[i] = j[i] /\ j[i].value < j[l].value
      BY <2>6, <1>5, <1>1
    <3>2. CASE l = k
      <4>1. j[i].value \in Nat /\ j[k].value \in Nat
        BY <3>1, <2>1, <1>3
      <4>. QED  BY SMTT(40), <3>1, <3>2, <2>3, <2>5, <2>6, <4>1, <1>2
    <3>3. CASE l # k
      BY <3>1, <3>3, <2>6
    <3>. QED  BY <3>2, <3>3
  <2>8. \A i \in 1..Len(new) : \E l \in 1..n + 1 : Like(new[i], s[l])
    <3>. TAKE i \in 1..Len(new)
    <3>1. ASSUME NEW x \in 1..k PROVE \E l \in 1..n + 1 : Like(j[x], s[l])
      <4>1. PICK l \in 1..n : Like(j[x], s[l])
        BY <1>5
      <4>. QED  BY <4>1, l \in 1..n + 1
    <3>2. CASE i # k
      BY <3>1, <3>2, <2>6
    <3>3. CASE i = k /\ Like(merged, e)
      BY <3>3, <2>6, n + 1 \in 1..n + 1
    <3>4. CASE i = k /\ Like(merged, j[k])
      <4>1. PICK l \in 1..n + 1 : Like(j[k], s[l])
        BY <3>1, <2>1
      <4>2. Like(merged, s[l])
        BY <4>1, <3>4 DEF Like
      <4>. QED  BY <4>2, <3>4, <2>6
    <3>. QED  BY <3>2, <3>3, <3>4, <2>3
  <2>9. \A m \in 1..n + 1 : \E i \in 1..Len(new) : Accounts(s, m, new[i])
    <3>. TAKE m \in 1..n + 1
    <3>1. CASE m \in 1..n
      <4>1. PICK i \in 1..k : Accounts(s, m, j[i])
        BY <3>1, <1>5
      <4>2. CASE i # k
        BY <4>1, <4>2, <2>6
      <4>3. CASE i = k
        <5>1. merged.value >= s[m].value
          <6>1. s[m].value \in Nat /\ j[k].value \in Nat /\ j[k].value >= s[m].value
            BY <4>1, <4>3, <3>1, <1>4, <1>3, <2>1 DEF Accounts
          <6>. QED  BY SMTT(40), <6>1, <2>3, <2>5, <1>2
        <5>2. \E l \in 1..m : s[l].value = s[m].value /\ merged.keg = s[l].keg
          BY <4>1, <4>3, <2>4 DEF Accounts
        <5>3. Accounts(s, m, new[k])
          BY <5>1, <5>2, <2>6 DEF Accounts
        <5>. QED  BY <5>3, <2>1, <2>6
      <4>. QED  BY <4>2, <4>3
    <3>2. CASE m = n + 1
      <4>1. merged.value >= s[n + 1].value
        BY <2>3, <1>2
      <4>2. \E l \in 1..n + 1 : s[l].value = s[n + 1].value /\ merged.keg = s[l].keg
        <5>1. CASE j[k].value = e.value
          <6>1. PICK l \in 1..n : Like(j[k], s[l])
            BY <2>1, <1>5
          <6>2. s[l].value = e.value /\ merged.keg = s[l].keg /\ l \in 1..n + 1
            BY <6>1, <5>1, <2>4 DEF Like
          <6>. QED  BY <6>2
        <5>2. CASE j[k].value # e.value
          <6>1. merged.keg = s[n + 1].keg
            BY <5>2, <2>3 DEF Like
          <6>. QED  BY <6>1, n + 1 \in 1..n + 1
        <5>. QED  BY <5>1, <5>2
      <4>3. Accounts(s, m, new[k])
        BY <3>2, <4>1, <4>2, <2>6 DEF Accounts
      <4>. QED  BY <4>3, <2>1, <2>6
    <3>. QED  BY <3>1, <3>2
  <2>10. Len(new) <= n + 1 /\ Len(new) > 0
    BY <1>1, <1>7, <2>6
  <2>11. new[Len(new)].value = s[n + 1].value
    BY <2>3, <2>6
  <2>. QED  BY <2>2, <2>6, <2>7, <2>8, <2>9, <2>10, <2>11 DEF JoinedUpTo
<1>8. CASE ~Merges
  <2>. DEFINE new == Append(j, e)
  <2>1. Join(j, e) = new
    BY <1>6, <1>8 DEF Join
  <2>2. new \in Seq(Event) /\ Len(new) = k + 1 /\ new[k + 1] = e
        /\ \A i \in 1..k : new[i] = j[i]
    BY <1>1, <1>2
  <2>. HIDE DEF new
  <2>3. k > 0 => n \in 1..n /\ j[k].value = s[n].value /\ j[k].value < e.value
    <3>. HAVE k > 0
    <3>1. n \in 1..n /\ k \in 1..k
      BY <1>1
    <3>2. j[k].value = s[n].value /\ s[n].value <= e.value /\ s[n].value \in Nat
      <4>1. s[n].value <= e.value /\ s[n].value \in Nat
        BY <3>1, <1>4
      <4>2. n > 0
        BY <3>1
      <4>3. j[k].value = s[n].value
        BY <4>2, <1>5
      <4>. QED  BY <4>1, <4>3
    <3>. QED  BY <3>1, <3>2, <1>8, <1>2
  <2>4. \A i, l \in 1..Len(new) : i < l => new[i].value < new[l].value
    <3>. TAKE i, l \in 1..Len(new)
    <3>. HAVE i < l
    <3>1. i \in 1..k /\ new[i] = j[i] /\ k > 0 /\ k \in 1..k
      BY <2>2, <1>1
    <3>2. CASE l = k + 1
      <4>0. j[i].value \in Nat /\ j[k].value \in Nat
        BY <3>1, <1>3
      <4>1. i # k => j[i].value < j[k].value
        <5>1. i # k => i < k
          BY <3>1, <1>1
        <5>. HIDE DEF k
        <5>. QED  BY <5>1, <3>1, <1>5
      <4>. QED  BY SMTT(40), <3>1, <3>2, <2>2, <2>3, <4>0, <4>1, <1>2
    <3>3. CASE l \in 1..k
      BY <3>1, <3>3, <2>2, <1>5
    <3>4. l \in 1..k + 1
      BY <2>2
    <3>5. l = k + 1 \/ l \in 1..k
      BY <3>4, <1>1
    <3>. QED  BY <3>2, <3>3, <3>5
  <2>5. \A i \in 1..Len(new) : \E l \in 1..n + 1 : Like(new[i], s[l])
    <3>. TAKE i \in 1..Len(new)
    <3>1. CASE i \in 1..k
      <4>1. PICK l \in 1..n : Like(j[i], s[l])
        BY <3>1, <1>5
      <4>. QED  BY <4>1, <3>1, <2>2, l \in 1..n + 1
    <3>2. CASE i = k + 1
      <4>1. Like(new[i], s[n + 1])
        BY <3>2, <2>2 DEF Like
      <4>. QED  BY <4>1, n + 1 \in 1..n + 1
    <3>. QED  BY <3>1, <3>2, <2>2, <1>1
  <2>6. \A m \in 1..n + 1 : \E i \in 1..Len(new) : Accounts(s, m, new[i])
    <3>. TAKE m \in 1..n + 1
    <3>1. CASE m \in 1..n
      <4>1. PICK i \in 1..k : Accounts(s, m, j[i])
        BY <3>1, <1>5
      <4>2. i \in 1..Len(new) /\ new[i] = j[i]
        BY <2>2, <1>1
      <4>. QED  BY <4>1, <4>2
    <3>2. CASE m = n + 1
      <4>1. Accounts(s, n + 1, new[k + 1])
        BY SMTT(40), <2>2, <1>2, n + 1 \in 1..n + 1 DEF Accounts
      <4>2. k + 1 \in 1..Len(new)
        BY <2>2, <1>1
      <4>. QED  BY <4>1, <4>2, <3>2
    <3>. QED  BY <3>1, <3>2
  <2>8. Len(new) <= n + 1 /\ Len(new) > 0
    BY <1>1, <2>2
  <2>9. new[Len(new)].value = s[n + 1].value
    BY <2>2
  <2>. QED  BY <2>1, <2>2, <2>4, <2>5, <2>6, <2>8, <2>9 DEF JoinedUpTo
<1>. QED  BY <1>7, <1>8

LEMMA JoinedFacts ==
  ASSUME NEW s \in Seq(Event), NeverFalls(s)
  PROVE  JoinedUpTo(s, Len(s), Joined(s))
<1>. DEFINE end == Len(s)
<1>0. end \in Nat
  OBVIOUS
<1>1. PICK j : JoinSteps(s, end, j) /\ Joined(s) = j[end]
  BY <1>0, JoinedIsLast
<1>. DEFINE Claim(m) == JoinedUpTo(s, m, j[m])
            S == {m \in Nat : m <= end => Claim(m)}
<1>2. Claim(0)
  <2>1. j[0] = << >>
    BY <1>0, <1>1 DEF JoinSteps
  <2>2. JoinedUpTo(s, 0, << >>)
    BY DEF JoinedUpTo
  <2>. QED  BY <2>1, <2>2
<1>. HIDE DEF end
<1>3. ASSUME NEW m \in Nat, m + 1 <= end, Claim(m) PROVE Claim(m + 1)
  <2>1. m + 1 \in 0..end /\ m + 1 # 0 /\ (m + 1) - 1 = m
    BY <1>0, <1>3
  <2>2. j[m + 1] = Join(j[m], s[m + 1])
    BY <2>1, <1>1 DEF JoinSteps
  <2>3. m + 1 <= Len(s)
    BY <1>3 DEF end
  <2>. QED  BY <1>3, <2>2, <2>3, JoinOneMore
<1>. HIDE DEF Claim
<1>4. 0 \in S /\ \A m \in Nat : m \in S => m + 1 \in S
  BY <1>0, <1>2, <1>3
<1>5. Nat \subseteq S
  <2>. HIDE DEF S
  <2>. QED  BY <1>4, Induct
<1>6. Claim(end)
  BY <1>0, <1>5
<1>. QED  BY <1>1, <1>6 DEF Claim, end
-------------------------------------------------------------------------------
(***************************************************************************)
(* The stream of a counter that is scheduled.                              *)
(***************************************************************************)
Ordered(q) == \A i, j \in 1..Len(q) : i < j => InOrder(q[i], q[j])

(* r is what q holds at the places, in order. *)
PickedFrom(q, places, r) ==
  /\ r \in Seq(Event)
  /\ \A i \in 1..Len(r) : \E m \in 1..Len(q) : m \in places /\ r[i] = q[m]
  /\ \A m \in 1..Len(q) : m \in places => \E i \in 1..Len(r) : r[i] = q[m]
  /\ Ordered(q) => Ordered(r)

LEMMA PickedInOrder ==
  ASSUME NEW q \in Seq(Event), NEW places, NEW r, PickedUpTo(q, places, Len(q), r)
  PROVE  PickedFrom(q, places, r)
<1>1. PICK at : PickedAt(q, places, Len(q), r, at)
  BY DEF PickedUpTo
<1>2. r \in Seq(Event) /\ Len(r) \in Nat
  BY DEF PickedUpTo
<1>3. \A i \in 1..Len(r) : at[i] \in 1..Len(q) /\ at[i] \in places /\ r[i] = q[at[i]]
  BY <1>1 DEF PickedAt
<1>4. \A m \in 1..Len(q) : m \in places => \E i \in 1..Len(r) : r[i] = q[m]
  <2>. TAKE m \in 1..Len(q)
  <2>. HAVE m \in places
  <2>1. PICK i \in 1..Len(r) : at[i] = m
    BY <1>1 DEF PickedAt
  <2>. QED  BY <2>1, <1>3
<1>5. ASSUME Ordered(q) PROVE Ordered(r)
  <2>. SUFFICES ASSUME NEW i \in 1..Len(r), NEW j \in 1..Len(r), i < j
                PROVE  InOrder(r[i], r[j])
    BY DEF Ordered
  <2>1. at[i] < at[j]
    BY <1>1 DEF PickedAt
  <2>2. InOrder(q[at[i]], q[at[j]])
    BY <2>1, <1>3, <1>5 DEF Ordered
  <2>. QED  BY <2>2, <1>3
<1>. QED  BY <1>2, <1>3, <1>4, <1>5 DEF PickedFrom

LEMMA PickedIsFrom ==
  ASSUME NEW q \in Seq(Event), NEW places, NEW rest,
         \A i \in 1..Len(q) : i \in rest <=> i \notin places
  PROVE  /\ PickedFrom(q, places, Picked(q, places))
         /\ PickedFrom(q, rest, Picked(q, rest))
         /\ Len(Picked(q, places)) \in Nat /\ Len(Picked(q, rest)) \in Nat
         /\ Len(Picked(q, places)) + Len(Picked(q, rest)) = Len(q)
<1>1. Split(q, places, rest, Len(q), Picked(q, places), Picked(q, rest))
  BY PickedFacts
<1>2. PickedFrom(q, places, Picked(q, places)) /\ PickedFrom(q, rest, Picked(q, rest))
  BY <1>1, PickedInOrder DEF Split
<1>3. Len(Picked(q, places)) \in Nat /\ Len(Picked(q, rest)) \in Nat
  BY <1>2 DEF PickedFrom
<1>. QED  BY <1>1, <1>2, <1>3 DEF Split

(* The counters of a boot, the smallest first, no two the same. *)
CounterStream(s, b) ==
  /\ s \in Seq(Event)
  /\ \A i \in 1..Len(s) : s[i].kind = "counters" /\ s[i].boot = b
  /\ \A i, j \in 1..Len(s) : i < j => s[i].value < s[j].value

LEMMA StreamIsOrdered ==
  ASSUME NEW s \in Seq(Event), NEW b,
         \A i \in 1..Len(s) : s[i].kind = "counters" /\ s[i].boot = b
  PROVE  CounterStream(s, b) <=> Ordered(s)
<1>1. ASSUME NEW i \in 1..Len(s), NEW j \in 1..Len(s)
      PROVE  InOrder(s[i], s[j]) <=> s[i].value < s[j].value
  <2>1. s[i].kind = "counters" /\ s[i].boot = b /\ s[j].kind = "counters" /\ s[j].boot = b
    OBVIOUS
  <2>2. ~SameResult(s[i], s[j]) /\ InStream(s[i], s[j])
    BY <2>1 DEF SameResult, InStream
  <2>. QED  BY <2>2 DEF InOrder
<1>. QED  BY <1>1 DEF CounterStream, Ordered

(* e has its place among the others. *)
SortedWith(s, e, r) ==
  /\ r \in Seq(Event) /\ Len(r) = Len(s) + 1 /\ NeverFalls(r)
  /\ \A i \in 1..Len(r) : r[i] = e \/ r[i] \in Entries(s)
  /\ \A x \in Entries(s) : \E i \in 1..Len(r) : r[i] = x
  /\ \E i \in 1..Len(r) : r[i] = e
  /\ \A i, j \in 1..Len(r) : i < j /\ r[i].value = r[j].value => r[j] = e /\ r[i] \in Entries(s)

LEMMA SortedFacts ==
  ASSUME NEW b, NEW s, CounterStream(s, b), NEW e \in Event
  PROVE  SortedWith(s, e, Sorted(s, e))
<1>0. s \in Seq(Event) /\ Len(s) \in Nat /\ DOMAIN s = 1..Len(s) /\ e.value \in Nat
  BY EventFields DEF CounterStream
<1>. DEFINE above == {i \in DOMAIN s : s[i].value > e.value}
            under == DOMAIN s \ above
            lo == Picked(s, under)
            hi == Picked(s, above)
            a == Len(lo)
            c == Len(hi)
            r == Sorted(s, e)
<1>1. \A i \in 1..Len(s) : i \in above <=> i \notin under
  BY SMTT(40), <1>0
<1>2. /\ PickedFrom(s, under, lo) /\ PickedFrom(s, above, hi)
      /\ a \in Nat /\ c \in Nat /\ a + c = Len(s)
  <2>. HIDE DEF above, under
  <2>1. /\ PickedFrom(s, under, Picked(s, under)) /\ PickedFrom(s, above, Picked(s, above))
        /\ Len(Picked(s, under)) \in Nat /\ Len(Picked(s, above)) \in Nat
        /\ Len(Picked(s, under)) + Len(Picked(s, above)) = Len(s)
    BY ZenonT(60), <1>0, <1>1, PickedIsFrom
  <2>. QED  BY ZenonT(60), <2>1
<1>3. \A i \in 1..Len(s) : s[i] \in Event /\ s[i].value \in Nat
  BY <1>0, ElementOfSeq, EventFields
<1>4. \A m \in 1..Len(s) : (m \in above <=> s[m].value > e.value) /\ (m \in under <=> s[m].value <= e.value)
  BY <1>0, <1>3
<1>5. r = lo \o <<e>> \o hi
  BY DEF Sorted
<1>. HIDE DEF above, under, r
<1>6. lo \in Seq(Event) /\ hi \in Seq(Event) /\ <<e>> \in Seq(Event) /\ Len(<<e>>) = 1 /\ <<e>>[1] = e
  BY <1>2 DEF PickedFrom
<1>7. ASSUME NEW i \in 1..a PROVE \E m \in 1..Len(s) : lo[i] = s[m] /\ lo[i].value <= e.value /\ lo[i].value \in Nat
  <2>1. PICK m \in 1..Len(s) : m \in under /\ lo[i] = s[m]
    BY <1>2 DEF PickedFrom
  <2>. QED  BY <2>1, <1>3, <1>4
<1>8. ASSUME NEW i \in 1..c PROVE \E m \in 1..Len(s) : hi[i] = s[m] /\ hi[i].value > e.value /\ hi[i].value \in Nat
  <2>1. PICK m \in 1..Len(s) : m \in above /\ hi[i] = s[m]
    BY <1>2 DEF PickedFrom
  <2>. QED  BY <2>1, <1>3, <1>4
<1>. HIDE DEF a, c
<1>9. CounterStream(lo, b) /\ CounterStream(hi, b)
  <2>1. Ordered(s)
    BY <1>0, StreamIsOrdered DEF CounterStream
  <2>2. Ordered(lo) /\ Ordered(hi)
    BY <2>1, <1>2 DEF PickedFrom
  <2>3. /\ \A i \in 1..Len(lo) : lo[i].kind = "counters" /\ lo[i].boot = b
        /\ \A i \in 1..Len(hi) : hi[i].kind = "counters" /\ hi[i].boot = b
    BY SMTT(40), <1>7, <1>8 DEF CounterStream, a, c
  <2>. QED  BY <2>2, <2>3, <1>6, StreamIsOrdered
<1>10. /\ r \in Seq(Event) /\ Len(r) = a + 1 + c
       /\ \A i \in 1..a : r[i] = lo[i]
       /\ r[a + 1] = e
       /\ \A i \in 1..c : r[a + 1 + i] = hi[i]
  <2>. DEFINE left == lo \o <<e>>
  <2>1. /\ left \in Seq(Event) /\ Len(left) = a + 1
        /\ \A i \in 1..a + 1 : left[i] = IF i <= a THEN lo[i] ELSE <<e>>[i - a]
    BY <1>6, <1>2, ConcatProperties DEF a
  <2>. HIDE DEF left
  <2>2. /\ left \o hi \in Seq(Event) /\ Len(left \o hi) = a + 1 + c
        /\ \A i \in 1..a + 1 + c : (left \o hi)[i] = IF i <= a + 1 THEN left[i] ELSE hi[i - (a + 1)]
    BY <2>1, <1>6, <1>2, ConcatProperties DEF c
  <2>3. r = left \o hi
    BY <1>5 DEF left
  <2>4. \A i \in 1..a : i \in 1..a + 1 + c /\ i \in 1..a + 1 /\ i <= a /\ i <= a + 1
    BY <1>2 DEF a, c
  <2>5. a + 1 \in 1..a + 1 + c /\ a + 1 \in 1..a + 1 /\ ~(a + 1 <= a) /\ (a + 1) - a = 1
    BY <1>2 DEF a, c
  <2>6. \A i \in 1..c : a + 1 + i \in 1..a + 1 + c /\ ~(a + 1 + i <= a + 1) /\ (a + 1 + i) - (a + 1) = i
    BY <1>2 DEF a, c
  <2>7. \A i \in 1..a : r[i] = lo[i]
    BY <2>1, <2>2, <2>3, <2>4
  <2>8. r[a + 1] = e
    <3>1. r[a + 1] = left[a + 1]
      BY <2>2, <2>3, <2>5
    <3>2. left[a + 1] = <<e>>[(a + 1) - a]
      BY <2>1, <2>5
    <3>3. <<e>>[(a + 1) - a] = e
      BY <2>5
    <3>. QED  BY <3>1, <3>2, <3>3
  <2>9. \A i \in 1..c : r[a + 1 + i] = hi[i]
    BY <2>2, <2>3, <2>6
  <2>. QED  BY <2>2, <2>3, <2>7, <2>8, <2>9
<1>11. a \in Nat /\ c \in Nat /\ a + c = Len(s) /\ a = Len(lo) /\ c = Len(hi)
  BY <1>2 DEF a, c
<1>. HIDE DEF lo, hi
<1>12. ASSUME NEW i \in 1..a + 1 + c
       PROVE  \/ i \in 1..a /\ r[i] = lo[i]
              \/ i = a + 1 /\ r[i] = e
              \/ \E m \in 1..c : i = a + 1 + m /\ r[i] = hi[m]
  <2>1. CASE i \in 1..a
    BY <2>1, <1>10
  <2>2. CASE i = a + 1
    BY <2>2, <1>10
  <2>3. CASE i > a + 1
    <3>1. i - (a + 1) \in 1..c /\ i = a + 1 + (i - (a + 1))
      BY <2>3, <1>11
    <3>. QED  BY <3>1, <1>10
  <2>. QED  BY <2>1, <2>2, <2>3, <1>11
<1>13. ASSUME NEW i \in 1..a + 1 + c, NEW j \in 1..a + 1 + c, i < j
       PROVE  /\ r[i].value <= r[j].value
              /\ r[i].value = r[j].value => r[j] = e /\ r[i] \in Entries(s)
  <2>1. CASE i \in 1..a /\ r[i] = lo[i]
    <3>0. PICK m \in 1..Len(s) : lo[i] = s[m] /\ lo[i].value <= e.value /\ lo[i].value \in Nat
      BY <2>1, <1>7
    <3>1. lo[i] \in Entries(s)
      BY <3>0 DEF Entries
    <3>2. CASE j \in 1..a /\ r[j] = lo[j]
      <4>1. lo[i].value < lo[j].value
        BY <2>1, <3>2, <1>9, <1>11, <1>13 DEF CounterStream
      <4>2. lo[j].value \in Nat
        BY <3>2, <1>7
      <4>. QED  BY <2>1, <3>0, <3>2, <4>1, <4>2
    <3>3. CASE j = a + 1 /\ r[j] = e
      BY <2>1, <3>0, <3>1, <3>3
    <3>4. ASSUME NEW n \in 1..c, j = a + 1 + n, r[j] = hi[n]
          PROVE  r[i].value < r[j].value /\ r[i].value \in Nat /\ r[j].value \in Nat
      <4>1. hi[n].value > e.value /\ hi[n].value \in Nat
        BY <1>8
      <4>. QED  BY <4>1, <3>0, <3>4, <2>1, <1>0
    <3>. QED  BY <3>2, <3>3, <3>4, <1>12
  <2>2. CASE i = a + 1 /\ r[i] = e
    <3>1. PICK n \in 1..c : j = a + 1 + n /\ r[j] = hi[n]
      <4>1. j # a + 1 /\ j \notin 1..a
        BY <2>2, <1>13, <1>11
      <4>. QED  BY <4>1, <1>12
    <3>2. hi[n].value > e.value /\ hi[n].value \in Nat
      BY <1>8
    <3>. QED  BY <3>1, <3>2, <2>2, <1>0
  <2>3. ASSUME NEW m \in 1..c, i = a + 1 + m, r[i] = hi[m]
        PROVE  r[i].value < r[j].value /\ r[i].value \in Nat /\ r[j].value \in Nat
    <3>1. PICK n \in 1..c : j = a + 1 + n /\ r[j] = hi[n]
      <4>1. j # a + 1 /\ j \notin 1..a
        BY <2>3, <1>13, <1>11
      <4>. QED  BY <4>1, <1>12
    <3>2. m < n
      BY <3>1, <2>3, <1>13, <1>11
    <3>3. hi[m].value < hi[n].value
      BY <3>2, <1>9, <1>11 DEF CounterStream
    <3>4. hi[m].value \in Nat /\ hi[n].value \in Nat
      BY <1>8
    <3>. QED  BY <2>3, <3>1, <3>3, <3>4
  <2>. QED  BY <2>1, <2>2, <2>3, <1>12
<1>14. \A i \in 1..Len(r) : r[i] = e \/ r[i] \in Entries(s)
  <2>. TAKE i \in 1..Len(r)
  <2>1. ASSUME NEW m \in 1..a PROVE lo[m] \in Entries(s)
    BY <1>7 DEF Entries
  <2>2. ASSUME NEW m \in 1..c PROVE hi[m] \in Entries(s)
    BY <1>8 DEF Entries
  <2>. QED  BY <2>1, <2>2, <1>10, <1>12
<1>15. ASSUME NEW x \in Entries(s) PROVE \E i \in 1..Len(r) : r[i] = x
  <2>1. PICK m \in 1..Len(s) : x = s[m]
    BY DEF Entries
  <2>2. CASE m \in under
    <3>1. PICK i \in 1..a : lo[i] = s[m]
      BY <2>2, <1>2, <1>11 DEF PickedFrom
    <3>2. i \in 1..Len(r) /\ r[i] = x
      BY <3>1, <2>1, <1>10, <1>11
    <3>. QED  BY <3>2
  <2>3. CASE m \in above
    <3>1. PICK i \in 1..c : hi[i] = s[m]
      BY <2>3, <1>2, <1>11 DEF PickedFrom
    <3>2. a + 1 + i \in 1..Len(r) /\ r[a + 1 + i] = x
      <4>1. r[a + 1 + i] = hi[i]
        BY <1>10
      <4>2. a + 1 + i \in 1..a + 1 + c
        BY <1>11
      <4>. QED  BY <4>1, <4>2, <3>1, <2>1, <1>10
    <3>. QED  BY <3>2
  <2>. QED  BY <2>2, <2>3, <1>1
<1>16. a + 1 \in 1..Len(r) /\ r[a + 1] = e
  BY <1>10, <1>11
<1>18. NeverFalls(r)
  BY <1>13, <1>10 DEF NeverFalls
<1>19. Len(r) = Len(s) + 1
  BY SMTT(40), <1>10, <1>11
<1>20. \A i, j \in 1..Len(r) : i < j /\ r[i].value = r[j].value => r[j] = e /\ r[i] \in Entries(s)
  BY <1>13, <1>10
<1>. QED  BY <1>10, <1>14, <1>15, <1>16, <1>18, <1>19, <1>20 DEF SortedWith, r

(* What is in the stream afterwards says as much as what was, for the same *)
(* kegs, unless e repeats an entry that was there before it.               *)
LEMMA BoundariesFacts ==
  ASSUME NEW b, NEW s, CounterStream(s, b),
         NEW e \in Event, e.kind = "counters", e.boot = b
  PROVE  LET r == Boundaries(s, e)
         IN  /\ CounterStream(r, b)
             /\ Len(r) <= Len(s) + 1
             /\ \A y \in Entries(r) : \E x \in Entries(s) \cup {e} : Like(y, x)
             /\ \A x \in Entries(s) : \E y \in Entries(r) : y.value >= x.value /\ y.keg = x.keg
             /\ \/ \E y \in Entries(r) : y.value >= e.value /\ y.keg = e.keg
                \/ \E z \in Entries(s) : z.value = e.value
<1>. DEFINE q == Sorted(s, e)
            r == Boundaries(s, e)
<1>1. SortedWith(s, e, q)
  BY SortedFacts
<1>2. q \in Seq(Event) /\ NeverFalls(q) /\ Len(q) = Len(s) + 1
  BY <1>1 DEF SortedWith
<1>3. r = Joined(q)
  BY DEF Boundaries
<1>. HIDE DEF q, r
<1>4. JoinedUpTo(q, Len(q), r)
  BY <1>2, <1>3, JoinedFacts
<1>5. /\ \A i \in 1..Len(q) : q[i] = e \/ q[i] \in Entries(s)
      /\ \A x \in Entries(s) : \E i \in 1..Len(q) : q[i] = x
      /\ \E i \in 1..Len(q) : q[i] = e
      /\ \A i, j \in 1..Len(q) : i < j /\ q[i].value = q[j].value => q[j] = e /\ q[i] \in Entries(s)
  BY <1>1 DEF SortedWith
<1>6. /\ r \in Seq(Event) /\ Len(r) <= Len(q)
      /\ \A i, k \in 1..Len(r) : i < k => r[i].value < r[k].value
      /\ \A i \in 1..Len(r) : \E l \in 1..Len(q) : Like(r[i], q[l])
      /\ \A m \in 1..Len(q) : \E i \in 1..Len(r) : Accounts(q, m, r[i])
  BY <1>4 DEF JoinedUpTo
<1>7. \A i \in 1..Len(r) : \E x \in Entries(s) \cup {e} : Like(r[i], x)
  BY <1>5, <1>6
<1>8. \A x \in Entries(s) \cup {e} : x.kind = "counters" /\ x.boot = b
  BY DEF Entries, CounterStream
<1>9. CounterStream(r, b)
  <2>1. \A i \in 1..Len(r) : r[i].kind = "counters" /\ r[i].boot = b
    BY <1>7, <1>8 DEF Like
  <2>. QED  BY <2>1, <1>6 DEF CounterStream
<1>10. \A y \in Entries(r) : \E x \in Entries(s) \cup {e} : Like(y, x)
  BY <1>7 DEF Entries
<1>11. ASSUME NEW x \in Entries(s), NEW z \in Entries(s), z.value = x.value PROVE z = x
  <2>1. \A i \in 1..Len(s) : s[i].value \in Nat
    BY ElementOfSeq, EventFields DEF CounterStream
  <2>2. PICK i \in 1..Len(s), j \in 1..Len(s) : x = s[i] /\ z = s[j]
    BY DEF Entries
  <2>3. ~(s[i].value < s[j].value) /\ ~(s[j].value < s[i].value)
    BY <2>1, <2>2, <1>11
  <2>4. ~(i < j) /\ ~(j < i)
    BY <2>3 DEF CounterStream
  <2>5. i = j
    BY <2>4
  <2>. QED  BY <2>2, <2>5
<1>12. ASSUME NEW x \in Entries(s) \cup {e}
       PROVE  \E y \in Entries(r) :
                /\ y.value >= x.value
                /\ y.keg = x.keg \/ \E z \in Entries(s) : z.value = x.value /\ y.keg = z.keg
  <2>1. PICK m \in 1..Len(q) : q[m] = x
    BY <1>5
  <2>2. PICK i \in 1..Len(r) : Accounts(q, m, r[i])
    BY <1>6
  <2>3. PICK l \in 1..m : r[i].value >= x.value /\ q[l].value = x.value /\ r[i].keg = q[l].keg
    BY <2>1, <2>2 DEF Accounts
  <2>4. r[i] \in Entries(r)
    BY DEF Entries
  <2>5. CASE l = m
    BY <2>1, <2>3, <2>4, <2>5
  <2>6. CASE l # m
    <3>1. l \in 1..Len(q) /\ l < m
      BY <2>6
    <3>2. q[l] \in Entries(s)
      BY <3>1, <2>1, <2>3, <1>5
    <3>. QED  BY <3>2, <2>1, <2>3, <2>4
  <2>. QED  BY <2>5, <2>6
<1>13. \A x \in Entries(s) : \E y \in Entries(r) : y.value >= x.value /\ y.keg = x.keg
  BY <1>11, <1>12
<1>14. \/ \E y \in Entries(r) : y.value >= e.value /\ y.keg = e.keg
       \/ \E z \in Entries(s) : z.value = e.value
  BY <1>12
<1>. QED  BY <1>2, <1>6, <1>9, <1>10, <1>13, <1>14 DEF r
-------------------------------------------------------------------------------
(***************************************************************************)
(* The retry queue after an event is scheduled.                            *)
(***************************************************************************)
LEMMA EntriesAreEvents ==
  ASSUME NEW q \in Seq(Event)
  PROVE  /\ Len(q) \in Nat /\ DOMAIN q = 1..Len(q)
         /\ Entries(q) \subseteq Event
         /\ \A i \in 1..Len(q) : q[i] \in Event /\ q[i] \in Entries(q)
<1>1. \A i \in 1..Len(q) : q[i] \in Event
  BY ElementOfSeq
<1>. QED  BY <1>1 DEF Entries

LEMMA PickedEntries ==
  ASSUME NEW q \in Seq(Event), NEW places, NEW r, PickedFrom(q, places, r)
  PROVE  /\ Entries(r) \subseteq Entries(q)
         /\ \A m \in 1..Len(q) : m \in places => q[m] \in Entries(r)
<1>1. \A i \in 1..Len(r) : r[i] \in Entries(q)
  BY DEF PickedFrom, Entries
<1>2. \A m \in 1..Len(q) : m \in places => q[m] \in Entries(r)
  BY DEF PickedFrom, Entries
<1>. QED  BY <1>1, <1>2 DEF Entries

LEMMA JoinQueues ==
  ASSUME NEW p \in Seq(Event), NEW q \in Seq(Event)
  PROVE  /\ p \o q \in Seq(Event) /\ Len(p \o q) = Len(p) + Len(q)
         /\ \A i \in 1..Len(p) : (p \o q)[i] = p[i]
         /\ \A i \in 1..Len(q) : (p \o q)[Len(p) + i] = q[i]
         /\ \A i \in 1..Len(p) + Len(q) :
              i \in 1..Len(p) \/ \E m \in 1..Len(q) : i = Len(p) + m
         /\ Entries(p \o q) = Entries(p) \cup Entries(q)
<1>1. Len(p) \in Nat /\ Len(q) \in Nat
  OBVIOUS
<1>2. /\ p \o q \in Seq(Event) /\ Len(p \o q) = Len(p) + Len(q)
      /\ \A i \in 1..Len(p) + Len(q) : (p \o q)[i] = IF i <= Len(p) THEN p[i] ELSE q[i - Len(p)]
  BY ConcatProperties
<1>. DEFINE r == p \o q
            a == Len(p)
            c == Len(q)
<1>. HIDE DEF r
<1>3. \A i \in 1..a : i \in 1..a + c /\ i <= a
  BY <1>1
<1>4. \A i \in 1..c : a + i \in 1..a + c /\ ~(a + i <= a) /\ (a + i) - a = i
  BY <1>1
<1>5. \A i \in 1..a + c : i \in 1..a \/ \E m \in 1..c : i = a + m
  <2>. TAKE i \in 1..a + c
  <2>1. CASE i <= a
    BY <2>1, <1>1
  <2>2. CASE i > a
    <3>1. i - a \in 1..c /\ i = a + (i - a)
      BY <2>2, <1>1
    <3>. QED  BY <3>1
  <2>. QED  BY <2>1, <2>2, <1>1
<1>. HIDE DEF a, c
<1>6. /\ Len(r) = a + c
      /\ \A i \in 1..a + c : r[i] = IF i <= a THEN p[i] ELSE q[i - a]
  BY <1>2 DEF r, a, c
<1>7. \A i \in 1..a : r[i] = p[i]
  BY <1>3, <1>6
<1>8. \A i \in 1..c : r[a + i] = q[i]
  BY <1>4, <1>6
<1>9. Entries(r) = {p[i] : i \in 1..a} \cup {q[i] : i \in 1..c}
  <2>1. \A i \in 1..a + c : r[i] \in {p[n] : n \in 1..a} \cup {q[n] : n \in 1..c}
    BY <1>5, <1>7, <1>8
  <2>2. \A i \in 1..a : p[i] \in {r[n] : n \in 1..a + c}
    BY <1>3, <1>7
  <2>3. \A i \in 1..c : q[i] \in {r[n] : n \in 1..a + c}
    BY <1>4, <1>8
  <2>. QED  BY ZenonT(60), <2>1, <2>2, <2>3, <1>6 DEF Entries
<1>10. Entries(r) = Entries(p) \cup Entries(q)
  BY <1>9 DEF Entries, a, c
<1>. QED  BY <1>2, <1>5, <1>7, <1>8, <1>10 DEF r, a, c

LEMMA JoinOrdered ==
  ASSUME NEW p \in Seq(Event), NEW q \in Seq(Event), Ordered(p), Ordered(q),
         \A x \in Entries(p) : \A y \in Entries(q) : InOrder(x, y)
  PROVE  Ordered(p \o q)
<1>. DEFINE r == p \o q
            a == Len(p)
            c == Len(q)
<1>1. a \in Nat /\ c \in Nat
  OBVIOUS
<1>2. /\ Len(r) = a + c
      /\ \A i \in 1..a : r[i] = p[i]
      /\ \A i \in 1..c : r[a + i] = q[i]
      /\ \A i \in 1..a + c : i \in 1..a \/ \E m \in 1..c : i = a + m
  BY JoinQueues
<1>3. /\ \A i \in 1..a : p[i] \in Entries(p)
      /\ \A i \in 1..c : q[i] \in Entries(q)
  BY DEF Entries
<1>4. /\ \A i, j \in 1..a : i < j => InOrder(p[i], p[j])
      /\ \A i, j \in 1..c : i < j => InOrder(q[i], q[j])
  BY DEF Ordered
<1>. HIDE DEF r, a, c
<1>5. ASSUME NEW i \in 1..a + c, NEW j \in 1..a + c, i < j PROVE InOrder(r[i], r[j])
  <2>1. CASE i \in 1..a /\ j \in 1..a
    BY <2>1, <1>2, <1>4, <1>5
  <2>2. ASSUME i \in 1..a, NEW n \in 1..c, j = a + n PROVE InOrder(r[i], r[j])
    BY <2>2, <1>2, <1>3
  <2>3. ASSUME NEW m \in 1..c, i = a + m PROVE InOrder(r[i], r[j])
    <3>1. PICK n \in 1..c : j = a + n
      <4>1. j \notin 1..a
        BY <2>3, <1>5, <1>1
      <4>. QED  BY <4>1, <1>2
    <3>2. m < n
      BY <2>3, <3>1, <1>5, <1>1
    <3>3. InOrder(q[m], q[n])
      BY <3>2, <1>4
    <3>. QED  BY <3>1, <3>3, <2>3, <1>2
  <2>. QED  BY <2>1, <2>2, <2>3, <1>2
<1>. QED  BY <1>2, <1>5 DEF Ordered, r

LEMMA AppendQueue ==
  ASSUME NEW p \in Seq(Event), NEW e \in Event
  PROVE  /\ Append(p, e) \in Seq(Event) /\ Len(Append(p, e)) = Len(p) + 1
         /\ \A i \in 1..Len(p) : Append(p, e)[i] = p[i]
         /\ Append(p, e)[Len(p) + 1] = e
         /\ Entries(Append(p, e)) = Entries(p) \cup {e}
         /\ Ordered(p) /\ (\A x \in Entries(p) : InOrder(x, e)) => Ordered(Append(p, e))
<1>1. Append(p, e) = p \o <<e>> /\ <<e>> \in Seq(Event) /\ Len(<<e>>) = 1 /\ <<e>>[1] = e
  BY AppendIsConcat
<1>2. Entries(<<e>>) = {e} /\ Ordered(<<e>>)
  BY <1>1 DEF Entries, Ordered
<1>3. /\ Append(p, e) \in Seq(Event) /\ Len(Append(p, e)) = Len(p) + 1
      /\ Entries(Append(p, e)) = Entries(p) \cup {e}
  <2>. DEFINE u == <<e>>
  <2>. HIDE DEF u
  <2>1. u \in Seq(Event) /\ Len(u) = 1 /\ Entries(u) = {e} /\ Append(p, e) = p \o u
    BY <1>1, <1>2 DEF u
  <2>2. /\ p \o u \in Seq(Event) /\ Len(p \o u) = Len(p) + Len(u)
        /\ Entries(p \o u) = Entries(p) \cup Entries(u)
    BY <2>1, JoinQueues
  <2>. QED  BY <2>1, <2>2
<1>4. Ordered(p) /\ (\A x \in Entries(p) : InOrder(x, e)) => Ordered(Append(p, e))
  <2>1. (\A x \in Entries(p) : InOrder(x, e)) => \A x \in Entries(p) : \A y \in Entries(<<e>>) : InOrder(x, y)
    BY <1>2
  <2>. QED  BY <2>1, <1>1, <1>2, JoinOrdered
<1>5. /\ \A i \in 1..Len(p) : Append(p, e)[i] = p[i]
      /\ Append(p, e)[Len(p) + 1] = e
  BY AppendProperties
<1>. QED  BY <1>3, <1>4, <1>5

(* Only another event is given up. *)
LEMMA WithoutOtherFacts ==
  ASSUME NEW q \in Seq(Event), HasOther(q)
  PROVE  LET r == WithoutOther(q)
         IN  /\ r \in Seq(Event) /\ Len(r) < Len(q)
             /\ Ordered(q) => Ordered(r)
             /\ Entries(r) \subseteq Entries(q)
             /\ \A x \in Entries(q) : x.kind # "status" => x \in Entries(r)
<1>. DEFINE T == {i \in 1..Len(q) : q[i].kind = "status"}
            f == FirstOther(q)
            r == WithoutOther(q)
<1>0. Len(q) \in Nat /\ DOMAIN q = 1..Len(q)
  OBVIOUS
<1>1. T # {} /\ T \subseteq Nat
  BY <1>0 DEF HasOther
<1>2. PICK i \in T : \A k \in T : <<k, i>> \notin Below
  <2>1. IsWellFoundedOn(Below, Nat)
    BY NatLessThanWellFounded DEF OpToRel, Below
  <2>. HIDE DEF T
  <2>. QED  BY <1>1, <2>1, WFMin
<1>3. \A j \in T : i <= j
  <2>. TAKE j \in T
  <2>1. i \in Nat /\ j \in Nat /\ ~(j < i)
    BY <1>1, <1>2 DEF Below
  <2>. QED  BY <2>1
<1>4. \E k \in DOMAIN q : q[k].kind = "status" /\ \A j \in DOMAIN q : q[j].kind = "status" => k <= j
  BY <1>0, <1>2, <1>3
<1>5. f \in DOMAIN q /\ q[f].kind = "status"
  BY <1>4 DEF FirstOther
<1>. HIDE DEF f
<1>6. r = Picked(q, DOMAIN q \ {f})
  BY DEF WithoutOther, f
<1>7. \A j \in 1..Len(q) : j \in {f} <=> j \notin DOMAIN q \ {f}
  BY <1>0
<1>8. /\ PickedFrom(q, DOMAIN q \ {f}, r) /\ PickedFrom(q, {f}, Picked(q, {f}))
      /\ Len(r) \in Nat /\ Len(Picked(q, {f})) \in Nat
      /\ Len(r) + Len(Picked(q, {f})) = Len(q)
  BY <1>6, <1>7, PickedIsFrom
<1>. HIDE DEF r
<1>9. Len(Picked(q, {f})) > 0
  <2>1. PICK k \in 1..Len(Picked(q, {f})) : Picked(q, {f})[k] = q[f]
    BY <1>5, <1>8, <1>0 DEF PickedFrom
  <2>. QED  BY <1>8
<1>10. Len(r) < Len(q)
  BY <1>8, <1>9, <1>0
<1>11. \A x \in Entries(q) : x.kind # "status" => x \in Entries(r)
  <2>. TAKE x \in Entries(q)
  <2>. HAVE x.kind # "status"
  <2>1. PICK m \in 1..Len(q) : x = q[m]
    BY DEF Entries
  <2>2. m \in DOMAIN q \ {f}
    BY <2>1, <1>0, <1>5
  <2>. QED  BY <2>1, <2>2, <1>8, PickedEntries
<1>12. r \in Seq(Event) /\ (Ordered(q) => Ordered(r))
  BY <1>8 DEF PickedFrom
<1>13. Entries(r) \subseteq Entries(q)
  BY <1>8, PickedEntries
<1>. QED  BY <1>10, <1>11, <1>12, <1>13 DEF r

(* y says what x says, for the same keg. *)
Stands(y, x) ==
  /\ y.kind = x.kind /\ y.boot = x.boot /\ y.keg = x.keg
  /\ IF x.kind = "result" THEN y.value = x.value ELSE y.value >= x.value

Twin(x, y) == x.kind = y.kind /\ x.boot = y.boot /\ x.value = y.value

(* What the retry queue promises when e is scheduled: it stays in order    *)
(* and within its limit, makes nothing up, still says what it said, and    *)
(* says what e does unless e repeats an entry or there is no room left.    *)
Kept(rt, e, new) ==
  /\ new \in Seq(Event) /\ Ordered(new)
  /\ Len(new) <= Len(rt) + 1 /\ Len(new) <= RetryCap
  /\ \A y \in Entries(new) : \E x \in Entries(rt) \cup {e} : Like(y, x)
  /\ \A x \in Entries(rt) : x.kind # "status" => \E y \in Entries(new) : Stands(y, x)
  /\ e.kind # "status" =>
       \/ \E y \in Entries(new) : Stands(y, e)
       \/ \E z \in Entries(rt) : Twin(z, e)
       \/ new = rt /\ Len(rt) >= RetryCap

LEMMA NothingKept ==
  ASSUME NEW rt \in Seq(Event), Ordered(rt), Len(rt) <= RetryCap, NEW e \in Event,
         e.kind = "status" \/ Len(rt) >= RetryCap
  PROVE  Kept(rt, e, rt)
<1>1. \A x \in Entries(rt) : Like(x, x)
  BY DEF Like
<1>2. \A x \in Entries(rt) : x.kind # "status" => Stands(x, x)
  <2>1. \A x \in Entries(rt) : x.value \in Nat
    BY EntriesAreEvents, EventFields
  <2>. QED  BY <2>1 DEF Stands
<1>3. Len(rt) \in Nat
  OBVIOUS
<1>. QED  BY <1>1, <1>2, <1>3 DEF Kept

LEMMA CounterKept ==
  ASSUME retries \in Seq(Event), Ordered(retries), Len(retries) <= RetryCap,
         NEW e \in Event, e.kind = "counters", RetryCap \in Nat
  PROVE  Kept(retries, e, ScheduledCounter(e))
<1>. DEFINE related == {i \in DOMAIN retries : InStream(retries[i], e)}
            rest == DOMAIN retries \ related
            un == Picked(retries, rest)
            old == Picked(retries, related)
            st == Boundaries(old, e)
            b == e.boot
<1>0. DOMAIN retries = 1..Len(retries) /\ Len(retries) \in Nat
  OBVIOUS
<1>1. \A i \in 1..Len(retries) : (i \in related <=> InStream(retries[i], e)) /\ (i \in rest <=> i \notin related)
  BY <1>0
<1>2. ScheduledCounter(e) =
        IF Len(un) + Len(st) <= RetryCap THEN un \o st
        ELSE IF HasOther(un) THEN WithoutOther(un) \o st
        ELSE retries
  BY DEF ScheduledCounter
<1>. HIDE DEF related, rest
<1>3. /\ PickedFrom(retries, related, old) /\ PickedFrom(retries, rest, un)
      /\ Len(old) \in Nat /\ Len(un) \in Nat
      /\ Len(old) + Len(un) = Len(retries)
  BY <1>1, PickedIsFrom
<1>. HIDE DEF un, old
<1>4. /\ old \in Seq(Event) /\ Ordered(old) /\ un \in Seq(Event) /\ Ordered(un)
      /\ Entries(old) \subseteq Entries(retries) /\ Entries(un) \subseteq Entries(retries)
  BY <1>3, PickedEntries DEF PickedFrom
<1>5. \A x \in Entries(retries) : x \in Entries(un) \/ x \in Entries(old)
  <2>. TAKE x \in Entries(retries)
  <2>1. PICK m \in 1..Len(retries) : x = retries[m]
    BY DEF Entries
  <2>. QED  BY <2>1, <1>1, <1>3, PickedEntries
<1>6. CounterStream(old, b)
  <2>1. ASSUME NEW i \in 1..Len(old) PROVE old[i].kind = "counters" /\ old[i].boot = b
    <3>1. PICK m \in 1..Len(retries) : m \in related /\ old[i] = retries[m]
      BY <1>3 DEF PickedFrom
    <3>. QED  BY <3>1, <1>1 DEF InStream
  <2>. QED  BY <2>1, <1>4, StreamIsOrdered
<1>7. \A x \in Entries(un) : ~InStream(x, e)
  <2>. SUFFICES ASSUME NEW i \in 1..Len(un) PROVE ~InStream(un[i], e)
    BY DEF Entries
  <2>1. PICK m \in 1..Len(retries) : m \in rest /\ un[i] = retries[m]
    BY <1>3 DEF PickedFrom
  <2>. QED  BY <2>1, <1>1
<1>8. /\ CounterStream(st, b)
      /\ Len(st) <= Len(old) + 1
      /\ \A y \in Entries(st) : \E x \in Entries(old) \cup {e} : Like(y, x)
      /\ \A x \in Entries(old) : \E y \in Entries(st) : y.value >= x.value /\ y.keg = x.keg
      /\ \/ \E y \in Entries(st) : y.value >= e.value /\ y.keg = e.keg
         \/ \E z \in Entries(old) : z.value = e.value
  BY SMTT(40), <1>6, BoundariesFacts
<1>. HIDE DEF st
<1>9. st \in Seq(Event) /\ Ordered(st) /\ Len(st) \in Nat
  <2>1. st \in Seq(Event) /\ \A i \in 1..Len(st) : st[i].kind = "counters" /\ st[i].boot = b
    BY <1>8 DEF CounterStream
  <2>2. Ordered(st)
    BY <2>1, <1>8, StreamIsOrdered
  <2>. QED  BY <2>1, <2>2
<1>10. /\ \A y \in Entries(st) : y.kind = "counters" /\ y.boot = b
       /\ \A y \in Entries(old) : y.kind = "counters" /\ y.boot = b
  BY <1>6, <1>8 DEF CounterStream, Entries
<1>11. ASSUME NEW u \in Seq(Event), Ordered(u), Entries(u) \subseteq Entries(un),
              \A x \in Entries(un) : x.kind # "status" => x \in Entries(u),
              Len(u) + Len(st) <= RetryCap, Len(u) + Len(st) <= Len(retries) + 1
       PROVE  Kept(retries, e, u \o st)
  <2>1. \A x \in Entries(u) : \A y \in Entries(st) : InOrder(x, y)
    <3>. TAKE x \in Entries(u)
    <3>. TAKE y \in Entries(st)
    <3>1. ~InStream(x, e) /\ y.kind = "counters" /\ y.boot = b
      BY <1>7, <1>10, <1>11
    <3>. QED  BY <3>1 DEF InOrder, InStream, SameResult, SameEvent
  <2>2. u \o st \in Seq(Event) /\ Ordered(u \o st)
    BY <2>1, <1>9, <1>11, JoinQueues, JoinOrdered
  <2>3. /\ Len(u \o st) = Len(u) + Len(st)
        /\ Entries(u \o st) = Entries(u) \cup Entries(st)
    BY <1>9, <1>11, JoinQueues
  <2>4. \A y \in Entries(u \o st) : \E x \in Entries(retries) \cup {e} : Like(y, x)
    <3>1. \A y \in Entries(st) : \E x \in Entries(retries) \cup {e} : Like(y, x)
      BY <1>4, <1>8
    <3>2. \A y \in Entries(u) : y \in Entries(retries) /\ Like(y, y)
      BY <1>4, <1>11 DEF Like
    <3>. QED  BY <3>1, <3>2, <2>3
  <2>5. ASSUME NEW x \in Entries(retries), x.kind # "status"
        PROVE  \E y \in Entries(u \o st) : Stands(y, x)
    <3>1. CASE x \in Entries(un)
      <4>1. x \in Entries(u \o st)
        BY <3>1, <2>3, <2>5, <1>11
      <4>2. Stands(x, x)
        <5>1. x.value \in Nat
          BY EntriesAreEvents, EventFields
        <5>. QED  BY <5>1 DEF Stands
      <4>. QED  BY <4>1, <4>2
    <3>2. CASE x \in Entries(old)
      <4>1. PICK y \in Entries(st) : y.value >= x.value /\ y.keg = x.keg
        BY <3>2, <1>8
      <4>2. Stands(y, x)
        BY <4>1, <3>2, <1>10 DEF Stands
      <4>. QED  BY <4>2, <2>3
    <3>. QED  BY <3>1, <3>2, <1>5
  <2>6. \/ \E y \in Entries(u \o st) : Stands(y, e)
        \/ \E z \in Entries(retries) : Twin(z, e)
    <3>1. CASE \E y \in Entries(st) : y.value >= e.value /\ y.keg = e.keg
      <4>1. PICK y \in Entries(st) : y.value >= e.value /\ y.keg = e.keg
        BY <3>1
      <4>2. Stands(y, e)
        BY <4>1, <1>10 DEF Stands
      <4>. QED  BY <4>2, <2>3
    <3>2. CASE \E z \in Entries(old) : z.value = e.value
      <4>1. PICK z \in Entries(old) : z.value = e.value
        BY <3>2
      <4>2. Twin(z, e) /\ z \in Entries(retries)
        BY <4>1, <1>4, <1>10 DEF Twin
      <4>. QED  BY <4>2
    <3>. QED  BY <3>1, <3>2, <1>8
  <2>7. Len(u \o st) <= Len(retries) + 1 /\ Len(u \o st) <= RetryCap
    BY <2>3, <1>11
  <2>. QED  BY <2>2, <2>4, <2>5, <2>6, <2>7 DEF Kept
<1>12. CASE Len(un) + Len(st) <= RetryCap
  <2>1. Len(un) + Len(st) <= Len(retries) + 1
    BY <1>3, <1>8, <1>9, <1>0
  <2>2. Kept(retries, e, un \o st)
    BY <2>1, <1>4, <1>11, <1>12
  <2>. QED  BY <2>2, <1>2, <1>12
<1>13. CASE ~(Len(un) + Len(st) <= RetryCap) /\ HasOther(un)
  <2>. DEFINE u == WithoutOther(un)
  <2>1. /\ u \in Seq(Event) /\ Len(u) < Len(un) /\ Ordered(u) /\ Entries(u) \subseteq Entries(un)
        /\ \A x \in Entries(un) : x.kind # "status" => x \in Entries(u)
    BY <1>4, <1>13, WithoutOtherFacts
  <2>. HIDE DEF u
  <2>2. Len(u) \in Nat
    BY <2>1
  <2>3. Len(u) + Len(st) <= RetryCap /\ Len(u) + Len(st) <= Len(retries) + 1
    BY <2>1, <2>2, <1>3, <1>8, <1>9, <1>0
  <2>4. Kept(retries, e, u \o st)
    BY <2>1, <2>3, <1>11
  <2>. QED  BY <2>4, <1>2, <1>13 DEF u
<1>14. CASE ~(Len(un) + Len(st) <= RetryCap) /\ ~HasOther(un)
  <2>1. Len(retries) >= RetryCap
    BY <1>3, <1>8, <1>9, <1>14, <1>0
  <2>2. Kept(retries, e, retries)
    BY <2>1, NothingKept
  <2>. QED  BY <2>2, <1>2, <1>14
<1>. QED  BY <1>12, <1>13, <1>14

LEMMA AppendKept ==
  ASSUME NEW rt \in Seq(Event), Ordered(rt), NEW e \in Event, e.kind # "counters",
         \A x \in Entries(rt) : ~SameEvent(x, e),
         NEW u \in Seq(Event), Ordered(u), Entries(u) \subseteq Entries(rt),
         \A x \in Entries(rt) : x.kind # "status" => x \in Entries(u),
         Len(u) < RetryCap, Len(u) <= Len(rt), RetryCap \in Nat
  PROVE  Kept(rt, e, Append(u, e))
<1>1. /\ Append(u, e) \in Seq(Event) /\ Len(Append(u, e)) = Len(u) + 1
      /\ Entries(Append(u, e)) = Entries(u) \cup {e}
      /\ (\A x \in Entries(u) : InOrder(x, e)) => Ordered(Append(u, e))
  BY AppendQueue
<1>2. \A x \in Entries(u) : InOrder(x, e)
  BY DEF InOrder, SameResult, InStream
<1>3. \A y \in Entries(u) \cup {e} : y \in Entries(rt) \cup {e} /\ Like(y, y)
  BY DEF Like
<1>4. \A x \in Entries(rt) \cup {e} : Stands(x, x)
  <2>1. \A x \in Entries(rt) \cup {e} : x.value \in Nat
    BY EntriesAreEvents, EventFields
  <2>. QED  BY <2>1 DEF Stands
<1>5. Len(u) \in Nat /\ Len(rt) \in Nat
  OBVIOUS
<1>6. Len(Append(u, e)) <= Len(rt) + 1 /\ Len(Append(u, e)) <= RetryCap
  BY <1>1, <1>5
<1>. QED  BY <1>1, <1>2, <1>3, <1>4, <1>6 DEF Kept

(* An entry takes over what a repeated event says of having been tried. *)
CoalescedWith(q, e) ==
  [i \in DOMAIN q |-> IF SameEvent(q[i], e) THEN Coalesced(q[i], e) ELSE q[i]]

LEMMA CoalescedKept ==
  ASSUME NEW rt \in Seq(Event), Ordered(rt), Len(rt) <= RetryCap,
         NEW e \in Event, e.kind # "counters", \E x \in Entries(rt) : SameEvent(x, e)
  PROVE  Kept(rt, e, CoalescedWith(rt, e))
<1>. DEFINE new == CoalescedWith(rt, e)
<1>0. Len(rt) \in Nat /\ DOMAIN rt = 1..Len(rt)
  OBVIOUS
<1>1. ASSUME NEW i \in 1..Len(rt)
      PROVE  /\ new[i] \in Event
             /\ rt[i].kind # "status" => Like(new[i], rt[i])
             /\ rt[i].kind = "status" => new[i].kind = "status"
             /\ Like(new[i], rt[i]) \/ Like(new[i], e)
  <2>0. rt[i] \in Event /\ rt[i].tried \in BOOLEAN /\ e.tried \in BOOLEAN
    BY EntriesAreEvents, EventFields
  <2>1. new[i] = IF SameEvent(rt[i], e) THEN Coalesced(rt[i], e) ELSE rt[i]
    BY <1>0 DEF CoalescedWith
  <2>2. CASE ~SameEvent(rt[i], e)
    BY <2>0, <2>1, <2>2 DEF Like
  <2>. DEFINE t == rt[i].tried \/ e.tried
  <2>3. t \in BOOLEAN
    BY <2>0
  <2>. HIDE DEF t
  <2>4. CASE SameEvent(rt[i], e) /\ e.kind = "result"
    <3>1. new[i] = [rt[i] EXCEPT !.tried = t]
      BY <2>1, <2>4 DEF Coalesced, t
    <3>2. [rt[i] EXCEPT !.tried = t] \in Event /\ Like([rt[i] EXCEPT !.tried = t], rt[i])
      BY <2>0, <2>3, TriedFacts
    <3>3. rt[i].kind = "result"
      BY <2>4 DEF SameEvent
    <3>. QED  BY <3>1, <3>2, <3>3
  <2>5. CASE SameEvent(rt[i], e) /\ e.kind # "result"
    <3>1. new[i] = [e EXCEPT !.tried = t]
      BY <2>1, <2>5 DEF Coalesced, t
    <3>2. [e EXCEPT !.tried = t] \in Event /\ Like([e EXCEPT !.tried = t], e)
      BY <2>3, TriedFacts
    <3>3. e.kind = "status" /\ rt[i].kind = "status" /\ new[i].kind = "status"
      BY <2>5, <3>1, <3>2, EventFields DEF SameEvent, Like
    <3>. QED  BY <3>1, <3>2, <3>3
  <2>. QED  BY <2>2, <2>4, <2>5
<1>2. new \in Seq(Event) /\ Len(new) = Len(rt)
  <2>1. new = [i \in 1..Len(rt) |-> new[i]]
    BY <1>0 DEF CoalescedWith
  <2>. HIDE DEF new
  <2>2. [i \in 1..Len(rt) |-> new[i]] \in Seq(Event)
    BY <1>0, <1>1, IsASeq
  <2>3. Len([i \in 1..Len(rt) |-> new[i]]) = Len(rt)
    BY <1>0, <2>2, LenProperties
  <2>. QED  BY <2>1, <2>2, <2>3
<1>. HIDE DEF new
<1>3. Ordered(new)
  <2>. SUFFICES ASSUME NEW i \in 1..Len(rt), NEW j \in 1..Len(rt), i < j
                PROVE  InOrder(new[i], new[j])
    BY <1>2 DEF Ordered
  <2>1. InOrder(rt[i], rt[j])
    BY DEF Ordered
  <2>2. CASE rt[i].kind # "status" /\ rt[j].kind # "status"
    <3>1. Like(new[i], rt[i]) /\ Like(new[j], rt[j])
      BY <2>2, <1>1
    <3>. QED  BY <2>1, <3>1 DEF InOrder, SameResult, SameEvent, InStream, Like
  <2>3. CASE rt[i].kind = "status"
    <3>1. new[i].kind = "status"
      BY <2>3, <1>1
    <3>. QED  BY <3>1 DEF InOrder, SameResult, InStream
  <2>4. CASE rt[j].kind = "status"
    <3>1. new[j].kind = "status"
      BY <2>4, <1>1
    <3>. QED  BY <3>1 DEF InOrder, SameResult, SameEvent, InStream
  <2>. QED  BY <2>2, <2>3, <2>4
<1>4. \A y \in Entries(new) : \E x \in Entries(rt) \cup {e} : Like(y, x)
  <2>. SUFFICES ASSUME NEW i \in 1..Len(rt) PROVE \E x \in Entries(rt) \cup {e} : Like(new[i], x)
    BY <1>2 DEF Entries
  <2>. QED  BY <1>1, EntriesAreEvents
<1>5. \A x \in Entries(rt) : x.kind # "status" => \E y \in Entries(new) : Stands(y, x)
  <2>. SUFFICES ASSUME NEW i \in 1..Len(rt), rt[i].kind # "status"
                PROVE  \E y \in Entries(new) : Stands(y, rt[i])
    BY DEF Entries
  <2>1. Like(new[i], rt[i])
    BY <1>1
  <2>2. new[i] \in Entries(new)
    BY <1>2 DEF Entries
  <2>3. rt[i].value \in Nat
    BY EntriesAreEvents, EventFields
  <2>4. Stands(new[i], rt[i])
    BY <2>1, <2>3 DEF Stands, Like
  <2>. QED  BY <2>2, <2>4
<1>6. e.kind # "status" => \E z \in Entries(rt) : Twin(z, e)
  <2>. HAVE e.kind # "status"
  <2>1. e.kind = "result"
    BY EventFields
  <2>. QED  BY <2>1 DEF SameEvent, Twin
<1>. QED  BY <1>0, <1>2, <1>3, <1>4, <1>5, <1>6 DEF Kept, new

(* The queue keeps what it has, in order and within its limit, whatever is *)
(* scheduled.                                                              *)
LEMMA ScheduledKeeps ==
  ASSUME retries \in Seq(Event), Ordered(retries), Len(retries) <= RetryCap,
         NEW e \in Event
  PROVE  Kept(retries, e, Scheduled(e))
<1>0. Len(retries) \in Nat /\ DOMAIN retries = 1..Len(retries) /\ RetryCap \in Nat
  BY CountAssumption
<1>1. CASE e.kind = "counters"
  BY <1>0, <1>1, CounterKept DEF Scheduled
<1>2. CASE e.kind # "counters" /\ \E i \in DOMAIN retries : SameEvent(retries[i], e)
  <2>1. Scheduled(e) = CoalescedWith(retries, e)
    BY <1>2 DEF Scheduled, CoalescedWith
  <2>2. \E x \in Entries(retries) : SameEvent(x, e)
    BY <1>0, <1>2 DEF Entries
  <2>. QED  BY <2>1, <2>2, <1>2, CoalescedKept
<1>3. ASSUME e.kind # "counters", ~\E i \in DOMAIN retries : SameEvent(retries[i], e)
      PROVE  Kept(retries, e, Scheduled(e))
  <2>1. Scheduled(e) = IF Len(retries) < RetryCap THEN Append(retries, e)
                       ELSE IF HasOther(retries) THEN Append(WithoutOther(retries), e)
                       ELSE retries
    BY <1>3 DEF Scheduled
  <2>2. \A x \in Entries(retries) : ~SameEvent(x, e)
    BY <1>0, <1>3 DEF Entries
  <2>3. CASE Len(retries) < RetryCap
    <3>1. Kept(retries, e, Append(retries, e))
      BY <1>0, <1>3, <2>2, <2>3, AppendKept
    <3>. QED  BY <2>1, <2>3, <3>1
  <2>4. CASE ~(Len(retries) < RetryCap) /\ HasOther(retries)
    <3>. DEFINE u == WithoutOther(retries)
    <3>1. /\ u \in Seq(Event) /\ Len(u) < Len(retries) /\ Ordered(u)
          /\ Entries(u) \subseteq Entries(retries)
          /\ \A x \in Entries(retries) : x.kind # "status" => x \in Entries(u)
      BY <2>4, WithoutOtherFacts
    <3>. HIDE DEF u
    <3>2. Len(u) \in Nat /\ Len(u) < RetryCap /\ Len(u) <= Len(retries)
      BY <1>0, <3>1
    <3>3. Kept(retries, e, Append(u, e))
      BY <1>0, <1>3, <2>2, <3>1, <3>2, AppendKept
    <3>. QED  BY <2>1, <2>4, <3>3 DEF u
  <2>5. CASE ~(Len(retries) < RetryCap) /\ ~HasOther(retries)
    <3>1. Len(retries) >= RetryCap
      BY <1>0, <2>5
    <3>2. Kept(retries, e, retries)
      BY <3>1, NothingKept
    <3>. QED  BY <2>1, <2>5, <3>2
  <2>. QED  BY <2>3, <2>4, <2>5
<1>. QED  BY <1>1, <1>2, <1>3
-------------------------------------------------------------------------------
(***************************************************************************)
(* The order of the queues, however an event moves through them.           *)
(***************************************************************************)
LEMMA LikeIsOrdered ==
  ASSUME NEW x, NEW y, NEW xx, NEW yy, NEW b, Like(x, xx), Like(y, yy)
  PROVE  /\ Before(xx, yy, b) => Before(x, y, b)
         /\ Rising(xx, yy, b) => Rising(x, y, b)
         /\ Apart(xx, yy) => Apart(x, y)
         /\ InOrder(xx, yy) => InOrder(x, y)
<1>1. /\ InStream(x, y) <=> InStream(xx, yy)
      /\ SameResult(x, y) <=> SameResult(xx, yy)
      /\ Trusted(x, b) <=> Trusted(xx, b)
      /\ Trusted(y, b) <=> Trusted(yy, b)
      /\ NoLess(x, y) <=> NoLess(xx, yy)
      /\ x.value = xx.value /\ y.value = yy.value /\ x.kind = xx.kind /\ y.kind = yy.kind
      /\ x.keg = xx.keg /\ y.keg = yy.keg
  BY DEF Like, InStream, SameResult, SameEvent, Trusted, NoLess
<1>. QED  BY <1>1 DEF Before, Rising, Apart, InOrder

LEMMA LikeItself == ASSUME NEW x PROVE Like(x, x)
BY DEF Like

LEMMA BeforeRises ==
  ASSUME NEW x \in Event, NEW y \in Event, NEW b, Before(x, y, b)
  PROVE  Rising(x, y, b) /\ Rising(y, x, b) /\ Rising(x, x, b)
<1>1. x.value \in Nat /\ y.value \in Nat
  BY EventFields
<1>2. InStream(x, y) => x.kind # "status" /\ y.kind # "status"
  BY DEF InStream
<1>3. InStream(y, x) => InStream(x, y)
  BY DEF InStream
<1>. QED  BY <1>1, <1>2, <1>3 DEF Before, Rising

LEMMA TailFacts ==
  ASSUME NEW q \in Seq(Event), q # << >>
  PROVE  /\ Tail(q) \in Seq(Event) /\ Len(Tail(q)) = Len(q) - 1 /\ Len(q) > 0
         /\ \A i \in 1..Len(q) - 1 : Tail(q)[i] = q[i + 1]
         /\ Head(q) = q[1] /\ Head(q) \in Event
         /\ Entries(q) = {Head(q)} \cup Entries(Tail(q))
<1>1. /\ Tail(q) \in Seq(Event) /\ Len(Tail(q)) = Len(q) - 1 /\ Len(q) \in Nat /\ Len(q) > 0
      /\ \A i \in 1..Len(q) - 1 : Tail(q)[i] = q[i + 1]
      /\ Head(q) = q[1] /\ Head(q) \in Event
  BY HeadTailProperties
<1>. DEFINE n == Len(q)
            t == Tail(q)
            h == Head(q)
<1>2. /\ n \in Nat /\ n > 0 /\ Len(t) = n - 1 /\ h = q[1]
      /\ \A i \in 1..n - 1 : t[i] = q[i + 1]
  BY <1>1
<1>. HIDE DEF n, t, h
<1>3. \A i \in 1..n : q[i] \in {h} \cup {t[m] : m \in 1..n - 1}
  <2>. TAKE i \in 1..n
  <2>1. CASE i = 1
    BY <2>1, <1>2
  <2>2. CASE i # 1
    <3>1. i - 1 \in 1..n - 1 /\ (i - 1) + 1 = i
      BY <2>2, <1>2
    <3>. QED  BY ZenonT(60), <3>1, <1>2
  <2>. QED  BY <2>1, <2>2
<1>4. \A m \in 1..n - 1 : t[m] \in {q[i] : i \in 1..n}
  <2>. TAKE m \in 1..n - 1
  <2>1. m + 1 \in 1..n
    BY <1>2
  <2>. QED  BY <2>1, <1>2
<1>5. h \in {q[i] : i \in 1..n}
  BY <1>2
<1>6. {q[i] : i \in 1..n} = {h} \cup {t[m] : m \in 1..n - 1}
  BY <1>3, <1>4, <1>5
<1>7. Entries(q) = {h} \cup Entries(t)
  BY <1>6, <1>2 DEF Entries, n
<1>. QED  BY <1>1, <1>7 DEF t, h

(* QueuesInOrder, when k entries of the batch are old. *)
QueuesAt(k, rt, bt, ev, b) ==
  /\ k \in 0..Len(bt)
  /\ Len(rt) + k <= RetryCap
  /\ OldInOrder(k, rt, bt, b)
  /\ FreshInOrder(k, rt, bt, ev, b)

LEMMA OrderIsAt ==
  ASSUME NEW rt, NEW bt, NEW ev, NEW b
  PROVE  QueuesInOrder(rt, bt, ev, b) <=> \E k : QueuesAt(k, rt, bt, ev, b)
BY DEF QueuesInOrder, QueuesAt

(* What is old is in order in pairs, wherever it is. *)
OldPairs(k, rt, bt) ==
  /\ Ordered(rt)
  /\ \A i, j \in 1..k : i < j => InOrder(bt[i], bt[j])
  /\ \A x \in Entries(rt) : \A j \in 1..k : Apart(x, bt[j])

LEMMA OldAsPairs ==
  ASSUME NEW k, NEW rt, NEW bt, NEW b
  PROVE  OldInOrder(k, rt, bt, b) <=>
           /\ OldPairs(k, rt, bt)
           /\ \A x, y \in Old(k, rt, bt) : Rising(x, y, b)
<1>1. (\A i \in 1..Len(rt), j \in 1..k : Apart(rt[i], bt[j]))
        <=> \A x \in Entries(rt) : \A j \in 1..k : Apart(x, bt[j])
  BY DEF Entries
<1>. QED  BY <1>1 DEF OldInOrder, OldPairs, Ordered

(* What is fresh comes in the order of its observation. *)
FreshPairs(k, bt, ev, b) ==
  /\ \A i, j \in k + 1..Len(bt) : i < j => Before(bt[i], bt[j], b)
  /\ \A i \in k + 1..Len(bt) : \A y \in Entries(ev) : Before(bt[i], y, b)
  /\ \A i, j \in 1..Len(ev) : i < j => Before(ev[i], ev[j], b)

LEMMA FreshAsPairs ==
  ASSUME NEW k, NEW rt, NEW bt, NEW ev, NEW b
  PROVE  FreshInOrder(k, rt, bt, ev, b) <=>
           /\ \A y \in Fresh(k, bt, ev) : ~y.tried
           /\ \A x \in Old(k, rt, bt) : \A y \in Fresh(k, bt, ev) : Before(x, y, b)
           /\ FreshPairs(k, bt, ev, b)
<1>1. (\A i \in k + 1..Len(bt), j \in 1..Len(ev) : Before(bt[i], ev[j], b))
        <=> \A i \in k + 1..Len(bt) : \A y \in Entries(ev) : Before(bt[i], y, b)
  BY DEF Entries
<1>2. (\A x \in Old(k, rt, bt), y \in Fresh(k, bt, ev) : Before(x, y, b))
        <=> \A x \in Old(k, rt, bt) : \A y \in Fresh(k, bt, ev) : Before(x, y, b)
  OBVIOUS
<1>. QED  BY <1>1, <1>2 DEF FreshInOrder, FreshPairs

(* The retry queue after the head of the batch has left for it, or not.    *)
Renewed(rt, h, new) ==
  /\ new \in Seq(Event) /\ Ordered(new)
  /\ Len(new) <= Len(rt) + 1 /\ Len(new) <= RetryCap
  /\ \A y \in Entries(new) : \E x \in Entries(rt) \cup {h} : Like(y, x)

LEMMA FreshHeadTaken ==
  ASSUME NEW rt \in Seq(Event), NEW bt \in Seq(Event), NEW ev \in Seq(Event), NEW b,
         bt # << >>, QueuesAt(0, rt, bt, ev, b), NEW new, Renewed(rt, Head(bt), new)
  PROVE  QueuesAt(0, new, Tail(bt), ev, b)
<1>. DEFINE n == Len(bt)
            t == Tail(bt)
            h == Head(bt)
<1>1. /\ n \in Nat /\ n > 0 /\ t \in Seq(Event) /\ Len(t) = n - 1 /\ h = bt[1] /\ h \in Event
      /\ \A i \in 1..n - 1 : t[i] = bt[i + 1]
  BY TailFacts
<1>. HIDE DEF n, t, h
<1>2. /\ OldPairs(0, rt, bt)
      /\ \A x, y \in Old(0, rt, bt) : Rising(x, y, b)
  BY OldAsPairs DEF QueuesAt
<1>3. /\ \A y \in Fresh(0, bt, ev) : ~y.tried
      /\ \A x \in Old(0, rt, bt) : \A y \in Fresh(0, bt, ev) : Before(x, y, b)
      /\ FreshPairs(0, bt, ev, b)
  BY FreshAsPairs DEF QueuesAt
<1>4. /\ new \in Seq(Event) /\ Ordered(new) /\ Len(new) <= RetryCap /\ Len(new) \in Nat
      /\ \A y \in Entries(new) : \E x \in Entries(rt) \cup {h} : Like(y, x)
  BY DEF Renewed, h
<1>5. Old(0, rt, bt) = Entries(rt) /\ Old(0, new, t) = Entries(new)
  BY DEF Old
<1>6. /\ h \in Fresh(0, bt, ev)
      /\ \A i \in 1..n - 1 : t[i] \in Fresh(0, bt, ev) /\ Before(h, t[i], b)
      /\ \A y \in Entries(ev) : y \in Fresh(0, bt, ev) /\ Before(h, y, b)
  <2>1. 1 \in 0 + 1..n
    BY <1>1
  <2>2. h \in Fresh(0, bt, ev)
    BY <2>1, <1>1 DEF Fresh, n
  <2>3. ASSUME NEW i \in 1..n - 1 PROVE t[i] \in Fresh(0, bt, ev) /\ Before(h, t[i], b)
    <3>1. i + 1 \in 0 + 1..n /\ 1 < i + 1
      BY <1>1
    <3>2. bt[i + 1] \in Fresh(0, bt, ev)
      BY <3>1 DEF Fresh, n
    <3>3. Before(bt[1], bt[i + 1], b)
      BY <3>1, <2>1, <1>3 DEF FreshPairs, n
    <3>. QED  BY <3>2, <3>3, <1>1
  <2>4. ASSUME NEW y \in Entries(ev) PROVE y \in Fresh(0, bt, ev) /\ Before(h, y, b)
    BY <2>1, <1>1, <1>3 DEF FreshPairs, Fresh, n
  <2>. QED  BY <2>2, <2>3, <2>4
<1>7. Fresh(0, t, ev) = {t[i] : i \in 1..n - 1} \cup Entries(ev)
  BY <1>1 DEF Fresh
<1>8. \A y \in Fresh(0, t, ev) : y \in Fresh(0, bt, ev) /\ Before(h, y, b)
  BY <1>6, <1>7
<1>9. ASSUME NEW x \in Entries(new)
      PROVE  \E xx \in Entries(rt) \cup {h} : Like(x, xx)
  BY <1>4
<1>10. OldPairs(0, new, t)
  BY <1>4 DEF OldPairs
<1>11. ASSUME NEW x \in Entries(new), NEW y \in Entries(new) PROVE Rising(x, y, b)
  <2>1. PICK xx \in Entries(rt) \cup {h} : Like(x, xx)
    BY <1>9
  <2>2. PICK yy \in Entries(rt) \cup {h} : Like(y, yy)
    BY <1>9
  <2>3. ASSUME NEW z \in Entries(rt) PROVE Rising(z, h, b) /\ Rising(h, z, b) /\ Rising(z, z, b)
    <3>1. Before(z, h, b) /\ z \in Event
      BY <1>3, <1>5, <1>6, EntriesAreEvents
    <3>. QED  BY <3>1, <1>1, BeforeRises
  <2>4. Rising(h, h, b)
    BY <1>1, EventFields DEF Rising
  <2>5. Rising(xx, yy, b)
    BY <2>3, <2>4, <1>2, <1>5
  <2>. QED  BY <2>1, <2>2, <2>5, LikeIsOrdered
<1>12. OldInOrder(0, new, t, b)
  BY <1>5, <1>10, <1>11, OldAsPairs
<1>13. ASSUME NEW x \in Entries(new), NEW y \in Fresh(0, t, ev) PROVE Before(x, y, b)
  <2>1. PICK xx \in Entries(rt) \cup {h} : Like(x, xx)
    BY <1>9
  <2>2. Before(xx, y, b)
    BY <1>3, <1>5, <1>8
  <2>. QED  BY <2>1, <2>2, LikeItself, LikeIsOrdered
<1>14. FreshPairs(0, t, ev, b)
  <2>1. ASSUME NEW i \in 0 + 1..n - 1, NEW j \in 0 + 1..n - 1, i < j PROVE Before(t[i], t[j], b)
    <3>1. i + 1 \in 0 + 1..n /\ j + 1 \in 0 + 1..n /\ i + 1 < j + 1 /\ i \in 1..n - 1 /\ j \in 1..n - 1
      BY <2>1, <1>1
    <3>2. Before(bt[i + 1], bt[j + 1], b)
      BY <3>1, <1>3 DEF FreshPairs, n
    <3>. QED  BY <3>1, <3>2, <1>1
  <2>2. ASSUME NEW i \in 0 + 1..n - 1, NEW y \in Entries(ev) PROVE Before(t[i], y, b)
    <3>1. i + 1 \in 0 + 1..n /\ i \in 1..n - 1
      BY <2>2, <1>1
    <3>2. Before(bt[i + 1], y, b)
      BY <3>1, <1>3 DEF FreshPairs, n
    <3>. QED  BY <3>1, <3>2, <1>1
  <2>. QED  BY <2>1, <2>2, <1>1, <1>3 DEF FreshPairs
<1>15. FreshInOrder(0, new, t, ev, b)
  BY <1>3, <1>5, <1>8, <1>13, <1>14, FreshAsPairs
<1>16. 0 \in 0..Len(t) /\ Len(new) + 0 <= RetryCap
  BY <1>1, <1>4
<1>. QED  BY <1>12, <1>15, <1>16 DEF QueuesAt, t

LEMMA OldHeadTaken ==
  ASSUME NEW rt \in Seq(Event), NEW bt \in Seq(Event), NEW ev \in Seq(Event), NEW b,
         NEW k \in Nat \ {0}, RetryCap \in Nat,
         bt # << >>, QueuesAt(k, rt, bt, ev, b), NEW new, Renewed(rt, Head(bt), new)
  PROVE  QueuesAt(k - 1, new, Tail(bt), ev, b)
<1>. DEFINE n == Len(bt)
            t == Tail(bt)
            h == Head(bt)
<1>1. /\ n \in Nat /\ n > 0 /\ t \in Seq(Event) /\ Len(t) = n - 1 /\ h = bt[1] /\ h \in Event
      /\ \A i \in 1..n - 1 : t[i] = bt[i + 1]
  BY TailFacts
<1>. HIDE DEF n, t, h
<1>2. /\ OldPairs(k, rt, bt)
      /\ \A x, y \in Old(k, rt, bt) : Rising(x, y, b)
      /\ k \in 0..n /\ Len(rt) + k <= RetryCap
  BY OldAsPairs DEF QueuesAt, n
<1>3. /\ \A y \in Fresh(k, bt, ev) : ~y.tried
      /\ \A x \in Old(k, rt, bt) : \A y \in Fresh(k, bt, ev) : Before(x, y, b)
      /\ FreshPairs(k, bt, ev, b)
  BY FreshAsPairs DEF QueuesAt
<1>4. /\ new \in Seq(Event) /\ Ordered(new) /\ Len(new) <= Len(rt) + 1 /\ Len(new) \in Nat
      /\ Len(rt) \in Nat
      /\ \A y \in Entries(new) : \E x \in Entries(rt) \cup {h} : Like(y, x)
  BY DEF Renewed, h
<1>5. \A i \in 1..k - 1 : i \in 1..n - 1 /\ i + 1 \in 1..k /\ 1 < i + 1 /\ t[i] = bt[i + 1]
  BY <1>1, <1>2
<1>6. 1 \in 1..k
  OBVIOUS
<1>7. ASSUME NEW x \in Old(k - 1, new, t) PROVE \E xx \in Old(k, rt, bt) : Like(x, xx)
  <2>1. CASE x \in Entries(new)
    <3>1. PICK xx \in Entries(rt) \cup {h} : Like(x, xx)
      BY <2>1, <1>4
    <3>2. xx \in Old(k, rt, bt)
      BY <1>1, <1>6 DEF Old
    <3>. QED  BY <3>1, <3>2
  <2>2. ASSUME NEW i \in 1..k - 1, x = t[i] PROVE \E xx \in Old(k, rt, bt) : Like(x, xx)
    <3>1. bt[i + 1] \in Old(k, rt, bt) /\ x = bt[i + 1]
      BY <2>2, <1>5 DEF Old
    <3>. QED  BY <3>1, LikeItself
  <2>. QED  BY <2>1, <2>2 DEF Old
<1>8. OldPairs(k - 1, new, t)
  <2>1. ASSUME NEW i \in 1..k - 1, NEW j \in 1..k - 1, i < j PROVE InOrder(t[i], t[j])
    <3>1. i + 1 \in 1..k /\ j + 1 \in 1..k /\ i + 1 < j + 1
      BY <2>1, <1>5
    <3>2. InOrder(bt[i + 1], bt[j + 1])
      BY <3>1, <1>2 DEF OldPairs
    <3>. QED  BY <3>2, <1>5
  <2>2. ASSUME NEW x \in Entries(new), NEW j \in 1..k - 1 PROVE Apart(x, t[j])
    <3>1. PICK xx \in Entries(rt) \cup {h} : Like(x, xx)
      BY <1>4
    <3>2. j + 1 \in 1..k /\ 1 < j + 1 /\ t[j] = bt[j + 1]
      BY <1>5
    <3>3. CASE xx \in Entries(rt)
      <4>1. Apart(xx, bt[j + 1])
        BY <3>2, <3>3, <1>2 DEF OldPairs
      <4>. QED  BY <3>1, <3>2, <4>1, LikeItself, LikeIsOrdered
    <3>4. CASE xx = h
      <4>1. InOrder(h, bt[j + 1])
        BY <3>2, <1>1, <1>2, <1>6 DEF OldPairs
      <4>2. h.value \in Nat
        BY <1>1, EventFields
      <4>3. bt[j + 1].value \in Nat
        <5>1. j + 1 \in 1..Len(bt)
          BY <3>2, <1>2 DEF n
        <5>. QED  BY <5>1, ElementOfSeq, EventFields
      <4>4. Apart(h, bt[j + 1])
        BY <4>1, <4>2, <4>3 DEF InOrder, Apart
      <4>. QED  BY <3>1, <3>2, <3>4, <4>4, LikeItself, LikeIsOrdered
    <3>. QED  BY <3>3, <3>4
  <2>. QED  BY <2>1, <2>2, <1>4 DEF OldPairs
<1>9. ASSUME NEW x \in Old(k - 1, new, t), NEW y \in Old(k - 1, new, t) PROVE Rising(x, y, b)
  <2>1. PICK xx \in Old(k, rt, bt) : Like(x, xx)
    BY <1>7
  <2>2. PICK yy \in Old(k, rt, bt) : Like(y, yy)
    BY <1>7
  <2>3. Rising(xx, yy, b)
    BY <1>2
  <2>. QED  BY <2>1, <2>2, <2>3, LikeIsOrdered
<1>10. OldInOrder(k - 1, new, t, b)
  BY <1>8, <1>9, OldAsPairs
<1>11. (k - 1) + 1 = k
  OBVIOUS
<1>12. \A i \in k..n - 1 : i \in 1..n - 1 /\ i + 1 \in k + 1..n /\ t[i] = bt[i + 1]
  BY <1>1
<1>13. \A y \in Fresh(k - 1, t, ev) : y \in Fresh(k, bt, ev)
  <2>. TAKE y \in Fresh(k - 1, t, ev)
  <2>1. ASSUME NEW i \in k..n - 1, y = t[i] PROVE y \in Fresh(k, bt, ev)
    BY <2>1, <1>12 DEF Fresh, n
  <2>2. CASE y \in Entries(ev)
    BY <2>2 DEF Fresh
  <2>. QED  BY <2>1, <2>2, <1>1, <1>11 DEF Fresh
<1>14. ASSUME NEW x \in Old(k - 1, new, t), NEW y \in Fresh(k - 1, t, ev) PROVE Before(x, y, b)
  <2>1. PICK xx \in Old(k, rt, bt) : Like(x, xx)
    BY <1>7
  <2>2. Before(xx, y, b)
    BY <1>3, <1>13
  <2>. QED  BY <2>1, <2>2, LikeItself, LikeIsOrdered
<1>15. FreshPairs(k - 1, t, ev, b)
  <2>1. ASSUME NEW i \in k..n - 1, NEW j \in k..n - 1, i < j PROVE Before(t[i], t[j], b)
    <3>1. i + 1 \in k + 1..n /\ j + 1 \in k + 1..n /\ i + 1 < j + 1
      BY <2>1, <1>12
    <3>2. Before(bt[i + 1], bt[j + 1], b)
      BY <3>1, <1>3 DEF FreshPairs, n
    <3>. QED  BY <3>2, <1>12
  <2>2. ASSUME NEW i \in k..n - 1, NEW y \in Entries(ev) PROVE Before(t[i], y, b)
    <3>1. Before(bt[i + 1], y, b)
      BY <1>3, <1>12 DEF FreshPairs, n
    <3>. QED  BY <3>1, <1>12
  <2>. QED  BY <2>1, <2>2, <1>1, <1>3, <1>11 DEF FreshPairs
<1>16. FreshInOrder(k - 1, new, t, ev, b)
  BY <1>3, <1>13, <1>14, <1>15, FreshAsPairs
<1>17. k - 1 \in 0..Len(t) /\ Len(new) + (k - 1) <= RetryCap
  BY <1>1, <1>2, <1>4
<1>. QED  BY <1>10, <1>16, <1>17 DEF QueuesAt, t

LEMMA HeadTaken ==
  ASSUME NEW rt \in Seq(Event), NEW bt \in Seq(Event), NEW ev \in Seq(Event), NEW b,
         bt # << >>, QueuesInOrder(rt, bt, ev, b), NEW new, Renewed(rt, Head(bt), new)
  PROVE  QueuesInOrder(new, Tail(bt), ev, b)
<1>1. PICK k : QueuesAt(k, rt, bt, ev, b)
  BY OrderIsAt
<1>2. k \in Nat
  <2>1. Len(bt) \in Nat
    OBVIOUS
  <2>. QED  BY <1>1, <2>1 DEF QueuesAt
<1>3. RetryCap \in Nat
  BY CountAssumption
<1>4. CASE k = 0
  <2>1. QueuesAt(0, new, Tail(bt), ev, b)
    BY <1>1, <1>4, FreshHeadTaken
  <2>. QED  BY <2>1, OrderIsAt
<1>5. CASE k # 0
  <2>1. QueuesAt(k - 1, new, Tail(bt), ev, b)
    BY <1>1, <1>2, <1>3, <1>5, OldHeadTaken
  <2>. QED  BY <2>1, OrderIsAt
<1>. QED  BY <1>4, <1>5

(* A new observation comes after all that waits. *)
LEMMA Observed ==
  ASSUME NEW rt \in Seq(Event), NEW bt \in Seq(Event), NEW ev \in Seq(Event), NEW b,
         QueuesInOrder(rt, bt, ev, b), NEW f \in Event, ~f.tried,
         \A x \in Waiting(rt, bt, ev) : Before(x, f, b)
  PROVE  QueuesInOrder(rt, bt, Append(ev, f), b)
<1>1. PICK k : QueuesAt(k, rt, bt, ev, b)
  BY OrderIsAt
<1>. DEFINE new == Append(ev, f)
<1>2. /\ new \in Seq(Event) /\ Len(new) = Len(ev) + 1
      /\ \A i \in 1..Len(ev) : new[i] = ev[i]
      /\ new[Len(ev) + 1] = f
      /\ Entries(new) = Entries(ev) \cup {f}
  BY AppendQueue
<1>. HIDE DEF new
<1>3. /\ \A y \in Fresh(k, bt, ev) : ~y.tried
      /\ \A x \in Old(k, rt, bt) : \A y \in Fresh(k, bt, ev) : Before(x, y, b)
      /\ FreshPairs(k, bt, ev, b)
  BY <1>1, FreshAsPairs DEF QueuesAt
<1>4. k \in Nat /\ k <= Len(bt) /\ Len(bt) \in Nat /\ Len(ev) \in Nat
  <2>1. Len(bt) \in Nat /\ Len(ev) \in Nat
    OBVIOUS
  <2>. QED  BY <1>1, <2>1 DEF QueuesAt
<1>5. Fresh(k, bt, new) = Fresh(k, bt, ev) \cup {f}
  BY <1>2 DEF Fresh
<1>6. \A x \in Old(k, rt, bt) : x \in Waiting(rt, bt, ev)
  <2>1. \A i \in 1..k : i \in 1..Len(bt)
    BY <1>4
  <2>. QED  BY <2>1 DEF Old, Waiting, Entries
<1>7. \A i \in k + 1..Len(bt) : bt[i] \in Waiting(rt, bt, ev)
  <2>1. \A i \in k + 1..Len(bt) : i \in 1..Len(bt)
    BY <1>4
  <2>. QED  BY <2>1 DEF Waiting, Entries
<1>8. \A i \in 1..Len(ev) : ev[i] \in Waiting(rt, bt, ev)
  BY DEF Waiting, Entries
<1>9. ASSUME NEW i \in 1..Len(new), NEW j \in 1..Len(new), i < j PROVE Before(new[i], new[j], b)
  <2>1. i \in 1..Len(ev) /\ new[i] = ev[i]
    BY <1>2, <1>4, <1>9
  <2>2. CASE j = Len(ev) + 1
    BY <2>1, <2>2, <1>2, <1>8
  <2>3. CASE j \in 1..Len(ev)
    BY <2>1, <2>3, <1>2, <1>3, <1>9 DEF FreshPairs
  <2>. QED  BY <2>2, <2>3, <1>2, <1>4
<1>10. FreshPairs(k, bt, new, b)
  <2>1. \A i \in k + 1..Len(bt) : \A y \in Entries(new) : Before(bt[i], y, b)
    BY <1>2, <1>3, <1>7 DEF FreshPairs
  <2>. QED  BY <2>1, <1>3, <1>9 DEF FreshPairs
<1>11. FreshInOrder(k, rt, bt, new, b)
  <2>1. \A y \in Fresh(k, bt, new) : ~y.tried
    BY <1>3, <1>5
  <2>2. \A x \in Old(k, rt, bt) : \A y \in Fresh(k, bt, new) : Before(x, y, b)
    BY <1>3, <1>5, <1>6
  <2>. QED  BY <2>1, <2>2, <1>10, FreshAsPairs
<1>12. QueuesAt(k, rt, bt, new, b)
  BY <1>1, <1>11 DEF QueuesAt
<1>. QED  BY <1>12, OrderIsAt DEF new

(* A pass begins with what is due, then takes what is new. *)
LEMMA PassStarted ==
  ASSUME NEW rt \in Seq(Event), NEW ev \in Seq(Event), NEW b,
         QueuesInOrder(rt, << >>, ev, b), NEW due, NEW rest, NEW places,
         PickedFrom(rt, places, due), PickedFrom(rt, DOMAIN rt \ places, rest),
         Len(due) + Len(rest) = Len(rt), Len(rt) <= RetryCap, RetryCap \in Nat,
         \A i \in 1..Len(due) : \A j \in 1..Len(rest) : Apart(rest[j], due[i])
  PROVE  QueuesInOrder(rest, due \o ev, << >>, b)
<1>1. PICK k : QueuesAt(k, rt, << >>, ev, b)
  BY OrderIsAt
<1>2. k = 0
  BY <1>1 DEF QueuesAt
<1>. DEFINE bt == due \o ev
            d == Len(due)
<1>3. due \in Seq(Event) /\ rest \in Seq(Event) /\ d \in Nat /\ Len(rest) \in Nat /\ Len(ev) \in Nat
  BY DEF PickedFrom
<1>4. /\ OldPairs(0, rt, << >>)
      /\ \A x, y \in Old(0, rt, << >>) : Rising(x, y, b)
      /\ \A y \in Fresh(0, << >>, ev) : ~y.tried
      /\ \A x \in Old(0, rt, << >>) : \A y \in Fresh(0, << >>, ev) : Before(x, y, b)
      /\ FreshPairs(0, << >>, ev, b)
  BY <1>1, <1>2, OldAsPairs, FreshAsPairs DEF QueuesAt
<1>5. Old(0, rt, << >>) = Entries(rt) /\ Fresh(0, << >>, ev) = Entries(ev)
  BY DEF Old, Fresh
<1>6. /\ bt \in Seq(Event) /\ Len(bt) = d + Len(ev)
      /\ \A i \in 1..d : bt[i] = due[i]
      /\ \A i \in 1..Len(ev) : bt[d + i] = ev[i]
      /\ \A i \in 1..d + Len(ev) : i \in 1..d \/ \E m \in 1..Len(ev) : i = d + m
  BY <1>3, JoinQueues
<1>. HIDE DEF bt
<1>7. /\ Entries(due) \subseteq Entries(rt) /\ Entries(rest) \subseteq Entries(rt)
      /\ Ordered(due) /\ Ordered(rest)
  BY <1>4, PickedEntries DEF OldPairs, PickedFrom
<1>8. \A i \in d + 1..Len(bt) : \E m \in 1..Len(ev) : i = d + m /\ bt[i] = ev[m]
  <2>. TAKE i \in d + 1..Len(bt)
  <2>1. i \in 1..d + Len(ev) /\ i \notin 1..d
    BY <1>3, <1>6
  <2>. QED  BY <2>1, <1>6
<1>9. Old(d, rest, bt) \subseteq Entries(rt)
  <2>1. \A i \in 1..d : bt[i] \in Entries(rt)
    BY <1>6, <1>7 DEF Entries
  <2>. QED  BY <2>1, <1>7 DEF Old
<1>10. Fresh(d, bt, << >>) \subseteq Entries(ev)
  <2>1. \A i \in d + 1..Len(bt) : bt[i] \in Entries(ev)
    BY <1>8 DEF Entries
  <2>2. Entries(<< >>) = {}
    BY DEF Entries
  <2>. QED  BY <2>1, <2>2 DEF Fresh
<1>11. OldInOrder(d, rest, bt, b)
  <2>1. \A i, j \in 1..d : i < j => InOrder(bt[i], bt[j])
    BY <1>6, <1>7 DEF Ordered
  <2>2. \A x \in Entries(rest) : \A j \in 1..d : Apart(x, bt[j])
    BY <1>6 DEF Entries
  <2>3. OldPairs(d, rest, bt)
    BY <2>1, <2>2, <1>7 DEF OldPairs
  <2>. QED  BY <2>3, <1>4, <1>5, <1>9, OldAsPairs
<1>12. FreshPairs(d, bt, << >>, b)
  <2>1. ASSUME NEW i \in d + 1..Len(bt), NEW j \in d + 1..Len(bt), i < j PROVE Before(bt[i], bt[j], b)
    <3>1. PICK m \in 1..Len(ev) : i = d + m /\ bt[i] = ev[m]
      BY <1>8
    <3>2. PICK n \in 1..Len(ev) : j = d + n /\ bt[j] = ev[n]
      BY <1>8
    <3>3. m < n
      BY <2>1, <3>1, <3>2, <1>3
    <3>. QED  BY <3>1, <3>2, <3>3, <1>4 DEF FreshPairs
  <2>2. Entries(<< >>) = {} /\ Len(<< >>) = 0
    BY DEF Entries
  <2>. QED  BY <2>1, <2>2 DEF FreshPairs
<1>13. FreshInOrder(d, rest, bt, << >>, b)
  <2>1. \A y \in Fresh(d, bt, << >>) : ~y.tried
    BY <1>4, <1>5, <1>10
  <2>2. \A x \in Old(d, rest, bt) : \A y \in Fresh(d, bt, << >>) : Before(x, y, b)
    BY <1>4, <1>5, <1>9, <1>10
  <2>. QED  BY <2>1, <2>2, <1>12, FreshAsPairs
<1>14. d \in 0..Len(bt) /\ Len(rest) + d <= RetryCap
  BY <1>3, <1>6
<1>15. QueuesAt(d, rest, bt, << >>, b)
  BY <1>11, <1>13, <1>14 DEF QueuesAt
<1>. QED  BY <1>15, OrderIsAt DEF bt

(* After a reset of the controller less is trusted. *)
LEMMA ResetOrder ==
  ASSUME NEW rt \in Seq(Event), NEW bt \in Seq(Event), NEW ev \in Seq(Event), NEW b \in Nat,
         QueuesInOrder(rt, bt, ev, b),
         \A x \in Waiting(rt, bt, ev) : x.boot <= b
  PROVE  QueuesInOrder(rt, bt, ev, b + 1)
<1>1. PICK k : QueuesAt(k, rt, bt, ev, b)
  BY OrderIsAt
<1>2. k \in Nat /\ k <= Len(bt) /\ Len(bt) \in Nat
  <2>1. Len(bt) \in Nat
    OBVIOUS
  <2>. QED  BY <1>1, <2>1 DEF QueuesAt
<1>3. ASSUME NEW x \in Waiting(rt, bt, ev) PROVE Trusted(x, b + 1) => Trusted(x, b)
  <2>1. x \in Event
    BY EntriesAreEvents DEF Waiting
  <2>2. x.boot \in Nat /\ x.boot <= b
    BY <2>1, EventFields, CountAssumption DEF Boots
  <2>. QED  BY <2>2 DEF Trusted
<1>4. ASSUME NEW x \in Waiting(rt, bt, ev), NEW y \in Waiting(rt, bt, ev)
      PROVE  /\ Before(x, y, b) => Before(x, y, b + 1)
             /\ Rising(x, y, b) => Rising(x, y, b + 1)
  BY <1>3 DEF Before, Rising
<1>5. /\ \A i \in 1..Len(bt) : bt[i] \in Waiting(rt, bt, ev)
      /\ \A i \in 1..Len(ev) : ev[i] \in Waiting(rt, bt, ev)
      /\ Entries(rt) \subseteq Waiting(rt, bt, ev) /\ Entries(ev) \subseteq Waiting(rt, bt, ev)
  BY DEF Waiting, Entries
<1>6. (\A i \in 1..k : i \in 1..Len(bt)) /\ (\A i \in k + 1..Len(bt) : i \in 1..Len(bt))
  BY <1>2
<1>7. Old(k, rt, bt) \subseteq Waiting(rt, bt, ev) /\ Fresh(k, bt, ev) \subseteq Waiting(rt, bt, ev)
  BY <1>5, <1>6 DEF Old, Fresh
<1>8. OldInOrder(k, rt, bt, b + 1)
  <2>1. /\ OldPairs(k, rt, bt)
        /\ \A x, y \in Old(k, rt, bt) : Rising(x, y, b)
    BY <1>1, OldAsPairs DEF QueuesAt
  <2>2. \A x, y \in Old(k, rt, bt) : Rising(x, y, b + 1)
    BY <2>1, <1>4, <1>7
  <2>. QED  BY <2>1, <2>2, OldAsPairs
<1>9. FreshInOrder(k, rt, bt, ev, b + 1)
  <2>1. /\ \A y \in Fresh(k, bt, ev) : ~y.tried
        /\ \A x \in Old(k, rt, bt) : \A y \in Fresh(k, bt, ev) : Before(x, y, b)
        /\ FreshPairs(k, bt, ev, b)
    BY <1>1, FreshAsPairs DEF QueuesAt
  <2>2. \A x \in Old(k, rt, bt) : \A y \in Fresh(k, bt, ev) : Before(x, y, b + 1)
    BY <2>1, <1>4, <1>7
  <2>3. FreshPairs(k, bt, ev, b + 1)
    BY <2>1, <1>4, <1>5, <1>6 DEF FreshPairs
  <2>. QED  BY <2>1, <2>2, <2>3, FreshAsPairs
<1>10. QueuesAt(k, rt, bt, ev, b + 1)
  BY <1>1, <1>8, <1>9 DEF QueuesAt
<1>. QED  BY <1>10, OrderIsAt

LEMMA NothingWaits ==
  ASSUME NEW b
  PROVE  QueuesInOrder(<< >>, << >>, << >>, b) /\ Waiting(<< >>, << >>, << >>) = {}
<1>1. Entries(<< >>) = {} /\ Len(<< >>) = 0
  BY DEF Entries
<1>2. Old(0, << >>, << >>) = {} /\ Fresh(0, << >>, << >>) = {}
  BY <1>1 DEF Old, Fresh
<1>3. QueuesAt(0, << >>, << >>, << >>, b)
  BY <1>1, <1>2, CountAssumption DEF QueuesAt, OldInOrder, FreshInOrder
<1>. QED  BY <1>1, <1>3, OrderIsAt DEF Waiting

(* The head of the batch has been in the retry queue, or is an observation *)
(* made after all that is in there.                                        *)
HeadIsOld(rt, bt, ev, b) ==
  /\ Len(rt) < RetryCap
  /\ \A z \in Entries(rt) : Apart(z, Head(bt)) /\ Rising(Head(bt), z, b)
  /\ \A y \in Entries(Tail(bt)) \cup Entries(ev) :
       \/ InOrder(Head(bt), y) /\ Rising(Head(bt), y, b)
       \/ Before(Head(bt), y, b)

HeadIsFresh(rt, bt, ev, b) ==
  /\ ~Head(bt).tried
  /\ \A z \in Entries(rt) : Before(z, Head(bt), b)
  /\ \A y \in Entries(Tail(bt)) \cup Entries(ev) : Before(Head(bt), y, b)

LEMMA HeadIsOldOrFresh ==
  ASSUME NEW rt \in Seq(Event), NEW bt \in Seq(Event), NEW ev \in Seq(Event), NEW b,
         bt # << >>, QueuesInOrder(rt, bt, ev, b)
  PROVE  HeadIsOld(rt, bt, ev, b) \/ HeadIsFresh(rt, bt, ev, b)
<1>1. PICK k : QueuesAt(k, rt, bt, ev, b)
  BY OrderIsAt
<1>. DEFINE n == Len(bt)
            t == Tail(bt)
            h == Head(bt)
<1>2. /\ n \in Nat /\ n > 0 /\ t \in Seq(Event) /\ Len(t) = n - 1 /\ h = bt[1] /\ h \in Event
      /\ \A i \in 1..n - 1 : t[i] = bt[i + 1]
  BY TailFacts
<1>3. \A y \in Entries(t) : \E i \in 1..n : 1 < i /\ y = bt[i]
  <2>. SUFFICES ASSUME NEW m \in 1..n - 1 PROVE \E i \in 1..n : 1 < i /\ t[m] = bt[i]
    BY <1>2 DEF Entries
  <2>1. m + 1 \in 1..n /\ 1 < m + 1
    BY <1>2
  <2>. QED  BY <2>1, <1>2
<1>. HIDE DEF n, t, h
<1>4. /\ OldPairs(k, rt, bt)
      /\ \A x, y \in Old(k, rt, bt) : Rising(x, y, b)
      /\ \A y \in Fresh(k, bt, ev) : ~y.tried
      /\ \A x \in Old(k, rt, bt) : \A y \in Fresh(k, bt, ev) : Before(x, y, b)
      /\ FreshPairs(k, bt, ev, b)
      /\ k \in 0..n /\ Len(rt) + k <= RetryCap
  BY <1>1, OldAsPairs, FreshAsPairs DEF QueuesAt, n
<1>5. Entries(rt) \subseteq Old(k, rt, bt) /\ Entries(ev) \subseteq Fresh(k, bt, ev)
  BY DEF Old, Fresh
<1>6. RetryCap \in Nat /\ Len(rt) \in Nat /\ k \in Nat
  BY <1>2, <1>4, CountAssumption
<1>7. CASE k = 0
  <2>1. 1 \in k + 1..n
    BY <1>2, <1>7
  <2>2. h \in Fresh(k, bt, ev)
    BY <2>1, <1>2 DEF Fresh, n
  <2>3. ASSUME NEW y \in Entries(t) PROVE Before(h, y, b)
    <3>1. PICK i \in 1..n : 1 < i /\ y = bt[i]
      BY <1>3
    <3>2. i \in k + 1..n
      BY <1>7
    <3>. QED  BY <2>1, <3>1, <3>2, <1>2, <1>4 DEF FreshPairs, n
  <2>4. ASSUME NEW y \in Entries(ev) PROVE Before(h, y, b)
    BY <2>1, <1>2, <1>4 DEF FreshPairs, n
  <2>5. HeadIsFresh(rt, bt, ev, b)
    BY <2>2, <2>3, <2>4, <1>4, <1>5 DEF HeadIsFresh, h, t
  <2>. QED  BY <2>5
<1>8. CASE k # 0
  <2>1. 1 \in 1..k
    BY <1>6, <1>8
  <2>2. h \in Old(k, rt, bt)
    BY <2>1, <1>2 DEF Old
  <2>3. ASSUME NEW y \in Entries(t) PROVE \/ InOrder(h, y) /\ Rising(h, y, b)
                                          \/ Before(h, y, b)
    <3>1. PICK i \in 1..n : 1 < i /\ y = bt[i]
      BY <1>3
    <3>2. CASE i \in 1..k
      <4>1. y \in Old(k, rt, bt)
        BY <3>1, <3>2 DEF Old
      <4>2. InOrder(h, y)
        BY <2>1, <3>1, <3>2, <1>2, <1>4 DEF OldPairs
      <4>. QED  BY <4>1, <4>2, <2>2, <1>4
    <3>3. CASE i \in k + 1..n
      <4>1. y \in Fresh(k, bt, ev)
        BY <3>1, <3>3 DEF Fresh, n
      <4>. QED  BY <4>1, <2>2, <1>4
    <3>. QED  BY <3>2, <3>3, <1>6
  <2>4. ASSUME NEW y \in Entries(ev) PROVE Before(h, y, b)
    BY <2>2, <1>4, <1>5
  <2>5. ASSUME NEW z \in Entries(rt) PROVE Apart(z, h) /\ Rising(h, z, b)
    BY <2>1, <2>2, <1>2, <1>4, <1>5 DEF OldPairs
  <2>6. Len(rt) < RetryCap
    BY <1>4, <1>6, <1>8
  <2>7. HeadIsOld(rt, bt, ev, b)
    BY <2>3, <2>4, <2>5, <2>6 DEF HeadIsOld, h, t
  <2>. QED  BY <2>7
<1>. QED  BY <1>7, <1>8

LEMMA QueuesFacts ==
  ASSUME NEW rt \in Seq(Event), NEW bt \in Seq(Event), NEW ev \in Seq(Event), NEW b,
         QueuesInOrder(rt, bt, ev, b)
  PROVE  /\ Ordered(rt)
         /\ Entries(rt) \subseteq Waiting(rt, bt, ev) /\ Entries(bt) \subseteq Waiting(rt, bt, ev)
         /\ Entries(ev) \subseteq Waiting(rt, bt, ev)
         /\ Waiting(rt, bt, ev) \subseteq Event
<1>1. PICK k : QueuesAt(k, rt, bt, ev, b)
  BY OrderIsAt
<1>2. Ordered(rt)
  BY <1>1, OldAsPairs DEF QueuesAt, OldPairs
<1>. QED  BY <1>2, EntriesAreEvents DEF Waiting
-------------------------------------------------------------------------------
(***************************************************************************)
(* The system.                                                             *)
(***************************************************************************)
AllWitnessed == \A e \in Waiting(retries, batch, events) : Witnessed(e)
Waits == Waiting(retries, batch, events)

LEMMA InvParts ==
  Inv <=> /\ TypeOK
          /\ RecoveredOnce
          /\ QueuesInOrder(retries, batch, events, dev.boot)
          /\ KegsSeenInOrder
          /\ AllWitnessed
          /\ CountersWait(Waits)
          /\ ResultsWait(Waits)
          /\ ManagerFollows /\ FirstBootRises
          /\ MeasurementsKeepTheirKeg
BY DEF Inv, AllWitnessed, Waits

QueueTypes ==
  /\ events \in Seq(Event) /\ Len(events) <= QueueCap
  /\ retries \in Seq(Event) /\ Len(retries) <= RetryCap
  /\ batch \in Seq(Event)

LEMMA TypeFacts ==
  ASSUME TypeOK
  PROVE  /\ QueueTypes
         /\ dev.boot \in Boots /\ dev.boot \in Nat /\ dev.made \in 0..MaxSeq
         /\ dev.recovery \in 0..MaxRecovery /\ dev.uptime \in 0..MaxUptime
         /\ dev.retained \subseteq 1..MaxSeq
         /\ keg \in Kegs /\ keg \in Nat
         /\ mgr.boot \in 0..MaxBoot /\ mgr.uptime \in Nat /\ mgr.connected \in BOOLEAN
         /\ \A b \in Boots : /\ db.checkpoints[b] \in Checkpoint
                             /\ db.checkpoints[b].recovery \in 0..MaxRecovery
                             /\ db.checkpoints[b].accepted \in Nat
                             /\ db.checkpoints[b].uptime \in Nat
         /\ \A b \in Boots : \A p \in 1..MaxRecovery : seen.counters[b][p] \in Nat
         /\ \A b \in Boots : \A s \in 1..MaxSeq : seen.results[b][s] \in Nat
<1>1. MaxBoot \in Nat /\ MaxKeg \in Nat
  BY CountAssumption
<1>2. QueueTypes
  BY DEF TypeOK, QueueTypes
<1>3. /\ dev.boot \in Boots /\ dev.made \in 0..MaxSeq
      /\ dev.recovery \in 0..MaxRecovery /\ dev.uptime \in 0..MaxUptime
      /\ dev.retained \subseteq 1..MaxSeq
  BY DEF TypeOK
<1>4. mgr.boot \in 0..MaxBoot /\ mgr.uptime \in Nat /\ mgr.connected \in BOOLEAN
  BY DEF TypeOK
<1>5. db.checkpoints \in [Boots -> Checkpoint]
  BY DEF TypeOK
<1>6. \A b \in Boots : db.checkpoints[b] \in Checkpoint
  BY <1>5
<1>7. \A c \in Checkpoint : c.recovery \in 0..MaxRecovery /\ c.accepted \in Nat /\ c.uptime \in Nat
  BY DEF Checkpoint
<1>8. /\ seen.counters \in [Boots -> [1..MaxRecovery -> Kegs \cup {NoKeg}]]
      /\ seen.results \in [Boots -> [1..MaxSeq -> Kegs \cup {NoKeg}]]
  BY DEF TypeOK
<1>9. Kegs \cup {NoKeg} \subseteq Nat
  BY <1>1 DEF Kegs, NoKeg
<1>10. /\ \A b \in Boots : \A p \in 1..MaxRecovery : seen.counters[b][p] \in Nat
       /\ \A b \in Boots : \A s \in 1..MaxSeq : seen.results[b][s] \in Nat
  BY ZenonT(60), <1>8, <1>9
<1>11. keg \in Kegs /\ keg \in Nat /\ dev.boot \in Nat
  BY <1>1, <1>3 DEF TypeOK, Kegs, Boots
<1>. QED  BY <1>2, <1>3, <1>4, <1>6, <1>7, <1>10, <1>11

LEMMA WitnessedAlike ==
  ASSUME NEW x, NEW y, Like(y, x), Witnessed(x)
  PROVE  Witnessed(y)
<1>1. /\ y.kind = x.kind /\ y.boot = x.boot /\ y.value = x.value
      /\ y.accepted = x.accepted /\ y.uptime = x.uptime /\ y.keg = x.keg
  BY DEF Like
<1>. QED  BY <1>1 DEF Witnessed

(* What the database says and what was seen, left alone. *)
LEMMA StoreUnchanged ==
  ASSUME UNCHANGED <<db, seen, diagnosed>>
  PROVE  /\ RecoveredOnce => RecoveredOnce'
         /\ MeasurementsKeepTheirKeg => MeasurementsKeepTheirKeg'
         /\ \A ws : CountersWait(ws) => CountersWait(ws)'
         /\ \A ws : ResultsWait(ws) => ResultsWait(ws)'
BY DEF RecoveredOnce, MeasurementsKeepTheirKeg, RecoveredPulsesKeepTheirKeg,
       ResultsKeepTheirKeg, CountersWait, ResultsWait
-------------------------------------------------------------------------------
(***************************************************************************)
(* The head of the batch leaves for the retry queue.                       *)
(***************************************************************************)
HeadScheduled(e) ==
  /\ batch # << >> /\ e \in Event /\ Like(e, Head(batch))
  /\ Schedule(e)
  /\ batch' = Tail(batch)
  /\ UNCHANGED <<dev, keg, mgr, events, db, seen>>

LEMMA ScheduledQueues ==
  ASSUME Inv, NEW e, HeadScheduled(e)
  PROVE  /\ Kept(retries, e, retries')
         /\ QueueTypes'
         /\ QueuesInOrder(retries, batch, events, dev.boot)'
         /\ \A y \in Waits' : \E x \in Waits : Like(y, x)
<1>. DEFINE h == Head(batch)
<1>1. QueueTypes
  BY InvParts, TypeFacts
<1>2. retries \in Seq(Event) /\ batch \in Seq(Event) /\ events \in Seq(Event) /\ Len(retries) <= RetryCap
  BY <1>1 DEF QueueTypes
<1>3. QueuesInOrder(retries, batch, events, dev.boot)
  BY InvParts
<1>4. Ordered(retries)
  BY <1>2, <1>3, QueuesFacts
<1>5. e \in Event /\ Like(e, h) /\ retries' = Scheduled(e) /\ batch # << >> /\ batch' = Tail(batch)
      /\ events' = events /\ dev' = dev
  BY DEF HeadScheduled, Schedule
<1>6. Kept(retries, e, retries')
  BY <1>2, <1>4, <1>5, ScheduledKeeps
<1>7. /\ h \in Event /\ Tail(batch) \in Seq(Event)
      /\ Entries(batch) = {h} \cup Entries(Tail(batch))
  BY <1>2, <1>5, TailFacts
<1>. HIDE DEF h
<1>8. \A y \in Entries(retries') : \E x \in Entries(retries) \cup {h} : Like(y, x)
  <2>. TAKE y \in Entries(retries')
  <2>1. PICK x \in Entries(retries) \cup {e} : Like(y, x)
    BY <1>6 DEF Kept
  <2>2. CASE x \in Entries(retries)
    BY <2>1, <2>2
  <2>3. CASE x = e
    BY <2>1, <2>3, <1>5 DEF Like
  <2>. QED  BY <2>2, <2>3
<1>9. Renewed(retries, h, retries')
  BY <1>6, <1>8 DEF Renewed, Kept
<1>10. QueuesInOrder(retries', Tail(batch), events, dev.boot)
  BY <1>2, <1>3, <1>5, <1>9, HeadTaken DEF h
<1>11. QueueTypes'
  BY <1>1, <1>5, <1>6, <1>7 DEF QueueTypes, Kept
<1>12. \A y \in Waits' : \E x \in Waits : Like(y, x)
  <2>. TAKE y \in Waits'
  <2>1. Waits' = Entries(retries') \cup Entries(Tail(batch)) \cup Entries(events)
    BY <1>5 DEF Waits, Waiting
  <2>2. Waits = Entries(retries) \cup {h} \cup Entries(Tail(batch)) \cup Entries(events)
    BY <1>7 DEF Waits, Waiting
  <2>3. CASE y \in Entries(retries')
    BY <2>2, <2>3, <1>8
  <2>4. CASE y \in Entries(Tail(batch)) \cup Entries(events)
    BY <2>2, <2>4, LikeItself
  <2>. QED  BY <2>1, <2>3, <2>4
<1>. QED  BY <1>5, <1>6, <1>10, <1>11, <1>12

(* A twin of the head has the keg that the head was seen with. *)
LEMMA TwinCounterKeg ==
  ASSUME Inv, batch # << >>, NEW z \in Entries(retries), Twin(z, Head(batch)),
         NEW b \in Boots, NEW p \in 1..MaxRecovery, seen.counters[b][p] # NoKeg,
         Head(batch).kind = "counters", Head(batch).boot = b, Head(batch).value >= p,
         Head(batch).keg = seen.counters[b][p]
  PROVE  z.keg = seen.counters[b][p]
<1>. DEFINE h == Head(batch)
            v == z.value
<1>1. /\ retries \in Seq(Event) /\ batch \in Seq(Event) /\ events \in Seq(Event)
      /\ \A q \in 1..MaxRecovery : seen.counters[b][q] \in Nat
  BY InvParts, TypeFacts DEF QueueTypes
<1>2. QueuesInOrder(retries, batch, events, dev.boot)
  BY InvParts
<1>3. z \in Waits /\ z \in Event
  BY <1>1, <1>2, QueuesFacts DEF Waits
<1>4. h \in Event
  BY <1>1, TailFacts
<1>5. z.kind = "counters" /\ z.boot = b /\ v = h.value /\ v >= p /\ v \in Nat /\ z.keg \in Nat /\ h.keg \in Nat
  BY <1>3, <1>4, EventFields, CountAssumption DEF Twin, Kegs
<1>6. Witnessed(z)
  BY <1>3, InvParts DEF AllWitnessed, Waits
<1>7. v <= MaxRecovery /\ seen.counters[b][v] # NoKeg /\ seen.counters[b][v] <= z.keg
  <2>1. v > 0
    BY <1>5
  <2>. QED  BY <2>1, <1>5, <1>6 DEF Witnessed
<1>8. v \in 1..MaxRecovery
  BY <1>5, <1>7, CountAssumption
<1>9. seen.counters[b][p] <= seen.counters[b][v]
  <2>1. CASE p = v
    BY <2>1, <1>1
  <2>2. CASE p # v
    <3>1. p < v
      BY <2>2, <1>5
    <3>2. KegsSeenInOrder
      BY InvParts
    <3>. QED  BY <3>1, <3>2, <1>7, <1>8 DEF KegsSeenInOrder
  <2>. QED  BY <2>1, <2>2
<1>10. h.keg <= z.keg
  BY SMTT(40), <1>1, <1>5, <1>7, <1>8, <1>9
<1>11. z.keg <= h.keg
  <2>1. HeadIsOld(retries, batch, events, dev.boot) \/ HeadIsFresh(retries, batch, events, dev.boot)
    BY <1>1, <1>2, HeadIsOldOrFresh
  <2>2. ~HeadIsOld(retries, batch, events, dev.boot)
    <3>1. ~Apart(z, h)
      BY <1>5 DEF Apart, InStream
    <3>. QED  BY <3>1 DEF HeadIsOld
  <2>3. Before(z, h, dev.boot)
    BY <2>1, <2>2 DEF HeadIsFresh
  <2>. QED  BY <2>3, <1>5 DEF Before
<1>. QED  BY <1>5, <1>10, <1>11

LEMMA TwinResultKeg ==
  ASSUME Inv, batch # << >>, NEW z \in Entries(retries), Twin(z, Head(batch)),
         Head(batch).kind = "result",
         Head(batch).keg = seen.results[Head(batch).boot][Head(batch).value]
  PROVE  z.keg = Head(batch).keg
<1>. DEFINE h == Head(batch)
<1>1. retries \in Seq(Event) /\ batch \in Seq(Event) /\ events \in Seq(Event)
  BY InvParts, TypeFacts DEF QueueTypes
<1>2. QueuesInOrder(retries, batch, events, dev.boot)
  BY InvParts
<1>3. z \in Waits /\ z \in Event
  BY <1>1, <1>2, QueuesFacts DEF Waits
<1>4. h \in Event
  BY <1>1, TailFacts
<1>5. z.kind = "result" /\ z.boot = h.boot /\ z.value = h.value /\ z.keg \in Nat /\ h.keg \in Nat
  BY <1>3, <1>4, EventFields, CountAssumption DEF Twin, Kegs
<1>6. Witnessed(z)
  BY <1>3, InvParts DEF AllWitnessed, Waits
<1>7. h.keg <= z.keg
  BY <1>5, <1>6 DEF Witnessed
<1>8. z.keg <= h.keg
  <2>1. HeadIsOld(retries, batch, events, dev.boot) \/ HeadIsFresh(retries, batch, events, dev.boot)
    BY <1>1, <1>2, HeadIsOldOrFresh
  <2>2. ~HeadIsOld(retries, batch, events, dev.boot)
    <3>1. ~Apart(z, h)
      BY <1>5 DEF Apart, SameResult, SameEvent
    <3>. QED  BY <3>1 DEF HeadIsOld
  <2>3. Before(z, h, dev.boot)
    BY <2>1, <2>2 DEF HeadIsFresh
  <2>. QED  BY <2>3, <1>5 DEF Before
<1>. QED  BY <1>5, <1>7, <1>8

(* The head is in the retry queue afterwards, or an entry that says the    *)
(* same was there before, or that it is given up is reported.              *)
LEMMA HeadIsHeld ==
  ASSUME Inv, NEW e, HeadScheduled(e), e.kind # "status",
         e.kind = "counters" => e.value > 0,
         "queue_full" \notin diagnosed'
  PROVE  \/ \E y \in Entries(retries') : Stands(y, e)
         \/ \E z \in Entries(retries) : Twin(z, Head(batch))
<1>. DEFINE h == Head(batch)
<1>1. /\ retries \in Seq(Event) /\ batch \in Seq(Event) /\ events \in Seq(Event)
      /\ Len(retries) <= RetryCap
  BY InvParts, TypeFacts DEF QueueTypes
<1>2. QueuesInOrder(retries, batch, events, dev.boot)
  BY InvParts
<1>3. /\ batch # << >> /\ e \in Event /\ Like(e, h)
      /\ diagnosed' = IF e.kind # "status" /\ ~HoldsEvent(retries', e)
                      THEN diagnosed \cup {"queue_full"} ELSE diagnosed
  BY DEF HeadScheduled, Schedule
<1>4. HoldsEvent(retries', e)
  BY <1>3
<1>5. /\ e.kind = h.kind /\ e.boot = h.boot /\ e.value = h.value
  BY <1>3 DEF Like
<1>6. Kept(retries, e, retries')
  BY ScheduledQueues
<1>7. CASE retries' = retries /\ Len(retries) >= RetryCap
  <2>1. HeadIsFresh(retries, batch, events, dev.boot)
    <3>1. HeadIsOld(retries, batch, events, dev.boot) \/ HeadIsFresh(retries, batch, events, dev.boot)
      BY <1>1, <1>2, <1>3, HeadIsOldOrFresh
    <3>2. Len(retries) \in Nat /\ RetryCap \in Nat
      BY <1>1, CountAssumption
    <3>. QED  BY <1>7, <3>1, <3>2 DEF HeadIsOld
  <2>2. PICK i \in 1..Len(retries) :
          \/ SameEvent(retries[i], e) /\ e.kind # "counters"
          \/ InStream(retries[i], e) /\ retries[i].value >= e.value
    BY <1>1, <1>4, <1>7 DEF HoldsEvent
  <2>. DEFINE z == retries[i]
  <2>3. z \in Entries(retries) /\ z \in Event
    BY <1>1, EntriesAreEvents
  <2>. HIDE DEF z
  <2>4. z.value \in Nat /\ e.value \in Nat /\ e.kind \in {"result", "counters", "status"}
    BY <2>3, <1>3, EventFields
  <2>5. CASE SameEvent(z, e) /\ e.kind # "counters"
    <3>1. e.kind = "result"
      BY <2>4, <2>5
    <3>2. Twin(z, h)
      BY <2>5, <3>1, <1>5 DEF Twin, SameEvent
    <3>. QED  BY <3>2, <2>3
  <2>6. CASE InStream(z, e) /\ z.value >= e.value
    <3>1. z.kind = "counters" /\ e.kind = "counters" /\ z.boot = e.boot
      BY <2>6 DEF InStream
    <3>2. Trusted(z, dev.boot) /\ Trusted(h, dev.boot)
      BY <2>4, <2>6, <3>1, <1>5 DEF Trusted
    <3>3. Before(z, h, dev.boot)
      BY <2>1, <2>3 DEF HeadIsFresh
    <3>4. z.value <= h.value
      BY <3>1, <3>2, <3>3, <1>5 DEF Before, InStream
    <3>5. Twin(z, h)
      BY <2>4, <2>6, <3>1, <3>4, <1>5 DEF Twin
    <3>. QED  BY <3>5, <2>3
  <2>. QED  BY <2>2, <2>5, <2>6 DEF z
<1>8. (\E z \in Entries(retries) : Twin(z, e)) => \E z \in Entries(retries) : Twin(z, h)
  BY <1>5 DEF Twin
<1>. QED  BY <1>6, <1>7, <1>8 DEF Kept

LEMMA WaitsSplit ==
  ASSUME QueueTypes, batch # << >>
  PROVE  Waits = Entries(retries) \cup {Head(batch)} \cup Entries(Tail(batch)) \cup Entries(events)
BY TailFacts DEF Waits, Waiting, QueueTypes

LEMMA ScheduledCountersWait ==
  ASSUME Inv, NEW e, HeadScheduled(e)
  PROVE  CountersWait(Waits)'
<1>. DEFINE h == Head(batch)
<1>1. /\ batch # << >> /\ e \in Event /\ Like(e, h)
      /\ diagnosed' = IF e.kind # "status" /\ ~HoldsEvent(retries', e)
                      THEN diagnosed \cup {"queue_full"} ELSE diagnosed
      /\ batch' = Tail(batch) /\ events' = events /\ db' = db /\ seen' = seen
  BY DEF HeadScheduled, Schedule
<1>2. Waits' = Entries(retries') \cup Entries(Tail(batch)) \cup Entries(events)
  BY <1>1 DEF Waits, Waiting
<1>3. Waits = Entries(retries) \cup {h} \cup Entries(Tail(batch)) \cup Entries(events)
  BY <1>1, InvParts, TypeFacts, WaitsSplit
<1>4. Kept(retries, e, retries')
  BY ScheduledQueues
<1>. SUFFICES ASSUME diagnosed' = {}, NEW b \in Boots, NEW p \in 1..MaxRecovery,
                     seen.counters[b][p] # NoKeg, p > db.checkpoints[b].recovery
              PROVE  \E y \in Waits' : /\ y.kind = "counters" /\ y.boot = b
                                       /\ y.value >= p /\ y.keg = seen.counters[b][p]
  BY <1>1 DEF CountersWait
<1>5. diagnosed = {}
  BY <1>1
<1>6. PICK w \in Waits : /\ w.kind = "counters" /\ w.boot = b
                         /\ w.value >= p /\ w.keg = seen.counters[b][p]
  BY <1>5, InvParts DEF CountersWait
<1>7. w.value \in Nat /\ \A y \in Entries(retries') : y.value \in Nat
  <2>1. w \in Event /\ \A y \in Entries(retries') : y \in Event
    BY InvParts, TypeFacts, ScheduledQueues, QueuesFacts, EntriesAreEvents DEF QueueTypes, Waits
  <2>. QED  BY <2>1, EventFields
<1>8. ASSUME NEW x, x.kind = "counters", x.boot = b, x.value \in Nat, x.value >= p,
             x.keg = seen.counters[b][p], NEW y \in Entries(retries'), Stands(y, x)
      PROVE  /\ y \in Waits' /\ y.kind = "counters" /\ y.boot = b
             /\ y.value >= p /\ y.keg = seen.counters[b][p]
  BY <1>2, <1>7, <1>8 DEF Stands
<1>9. ASSUME NEW x \in Entries(retries), x.kind = "counters", x.boot = b, x.value \in Nat,
             x.value >= p, x.keg = seen.counters[b][p]
      PROVE  \E y \in Waits' : /\ y.kind = "counters" /\ y.boot = b
                               /\ y.value >= p /\ y.keg = seen.counters[b][p]
  <2>1. PICK y \in Entries(retries') : Stands(y, x)
    BY <1>4, <1>9 DEF Kept
  <2>. QED  BY <2>1, <1>8, <1>9
<1>10. CASE w \in Entries(Tail(batch)) \cup Entries(events)
  BY <1>2, <1>6, <1>10
<1>11. CASE w \in Entries(retries)
  BY <1>6, <1>7, <1>9, <1>11
<1>12. CASE w = h
  <2>1. e.kind = "counters" /\ e.boot = b /\ e.value = w.value /\ e.keg = w.keg
    BY <1>1, <1>6, <1>12 DEF Like
  <2>2. e.value > 0
    BY <2>1, <1>6, <1>7
  <2>3. "queue_full" \notin diagnosed'
    OBVIOUS
  <2>4. \/ \E y \in Entries(retries') : Stands(y, e)
        \/ \E z \in Entries(retries) : Twin(z, h)
    BY <2>1, <2>2, <2>3, HeadIsHeld
  <2>5. CASE \E y \in Entries(retries') : Stands(y, e)
    BY <2>1, <2>5, <1>6, <1>7, <1>8
  <2>6. CASE \E z \in Entries(retries) : Twin(z, h)
    <3>1. PICK z \in Entries(retries) : Twin(z, h)
      BY <2>6
    <3>2. z.kind = "counters" /\ z.boot = b /\ z.value = w.value
      BY <3>1, <1>6, <1>12 DEF Twin
    <3>3. z.keg = seen.counters[b][p]
      BY <3>1, <1>1, <1>6, <1>12, TwinCounterKeg
    <3>. QED  BY <3>2, <3>3, <1>6, <1>7, <1>9
  <2>. QED  BY <2>4, <2>5, <2>6
<1>. QED  BY <1>3, <1>10, <1>11, <1>12

LEMMA ScheduledResultsWait ==
  ASSUME Inv, NEW e, HeadScheduled(e)
  PROVE  ResultsWait(Waits)'
<1>. DEFINE h == Head(batch)
<1>1. /\ batch # << >> /\ e \in Event /\ Like(e, h)
      /\ diagnosed' = IF e.kind # "status" /\ ~HoldsEvent(retries', e)
                      THEN diagnosed \cup {"queue_full"} ELSE diagnosed
      /\ batch' = Tail(batch) /\ events' = events /\ db' = db /\ seen' = seen
  BY DEF HeadScheduled, Schedule
<1>2. Waits' = Entries(retries') \cup Entries(Tail(batch)) \cup Entries(events)
  BY <1>1 DEF Waits, Waiting
<1>3. Waits = Entries(retries) \cup {h} \cup Entries(Tail(batch)) \cup Entries(events)
  BY <1>1, InvParts, TypeFacts, WaitsSplit
<1>4. Kept(retries, e, retries')
  BY ScheduledQueues
<1>. SUFFICES ASSUME "queue_full" \notin diagnosed', NEW b \in Boots, NEW s \in 1..MaxSeq,
                     seen.results[b][s] # NoKeg,
                     \A row \in db.results : row.boot = b => row.seq # s
              PROVE  \E y \in Waits' : /\ y.kind = "result" /\ y.boot = b /\ y.value = s
                                       /\ y.keg = seen.results[b][s]
  BY <1>1 DEF ResultsWait
<1>5. "queue_full" \notin diagnosed
  BY <1>1
<1>6. PICK w \in Waits : /\ w.kind = "result" /\ w.boot = b /\ w.value = s
                         /\ w.keg = seen.results[b][s]
  BY <1>5, InvParts DEF ResultsWait
<1>7. ASSUME NEW x \in Entries(retries), x.kind = "result", x.boot = b, x.value = s,
             x.keg = seen.results[b][s]
      PROVE  \E y \in Waits' : /\ y.kind = "result" /\ y.boot = b /\ y.value = s
                               /\ y.keg = seen.results[b][s]
  <2>1. PICK y \in Entries(retries') : Stands(y, x)
    BY <1>4, <1>7 DEF Kept
  <2>. QED  BY <2>1, <1>2, <1>7 DEF Stands
<1>8. CASE w \in Entries(Tail(batch)) \cup Entries(events)
  BY <1>2, <1>6, <1>8
<1>9. CASE w \in Entries(retries)
  BY <1>6, <1>7, <1>9
<1>10. CASE w = h
  <2>1. e.kind = "result" /\ e.boot = b /\ e.value = s /\ e.keg = seen.results[b][s]
    BY <1>1, <1>6, <1>10 DEF Like
  <2>2. \/ \E y \in Entries(retries') : Stands(y, e)
        \/ \E z \in Entries(retries) : Twin(z, h)
    BY <2>1, HeadIsHeld
  <2>3. CASE \E y \in Entries(retries') : Stands(y, e)
    BY <2>1, <2>3, <1>2 DEF Stands
  <2>4. CASE \E z \in Entries(retries) : Twin(z, h)
    <3>1. PICK z \in Entries(retries) : Twin(z, h)
      BY <2>4
    <3>2. z.kind = "result" /\ z.boot = b /\ z.value = s
      BY <3>1, <1>6, <1>10 DEF Twin
    <3>3. z.keg = h.keg
      BY <3>1, <1>1, <1>6, <1>10, TwinResultKeg
    <3>. QED  BY <3>2, <3>3, <1>6, <1>7, <1>10
  <2>. QED  BY <2>2, <2>3, <2>4
<1>. QED  BY <1>3, <1>8, <1>9, <1>10

(* The queues change among themselves. *)
Shuffled ==
  /\ UNCHANGED <<dev, keg, mgr, db, seen>>
  /\ diagnosed' = diagnosed \/ diagnosed' = diagnosed \cup {"queue_full"}
  /\ events' = events \/ events' = << >>
  /\ \A y \in Waits' : \E x \in Waits : Like(y, x)

LEMMA ShuffledKeeps ==
  ASSUME Inv, Shuffled, QueueTypes'
  PROVE  /\ TypeOK' /\ RecoveredOnce' /\ KegsSeenInOrder' /\ AllWitnessed'
         /\ ManagerFollows' /\ FirstBootRises' /\ MeasurementsKeepTheirKeg'
<1>1. /\ dev' = dev /\ keg' = keg /\ mgr' = mgr /\ db' = db /\ seen' = seen
      /\ diagnosed' = diagnosed \/ diagnosed' = diagnosed \cup {"queue_full"}
      /\ events' = events \/ events' = << >>
  BY DEF Shuffled
<1>2. \A y \in Waits' : \E x \in Waits : Like(y, x)
  BY DEF Shuffled
<1>3. TypeOK'
  <2>1. TypeOK
    BY InvParts
  <2>2. diagnosed' \subseteq {"quarantined", "queue_full"}
    BY <1>1, <2>1 DEF TypeOK
  <2>. QED  BY <1>1, <2>1, <2>2 DEF TypeOK, QueueTypes
<1>4. RecoveredOnce' /\ KegsSeenInOrder' /\ MeasurementsKeepTheirKeg'
  <2>1. RecoveredOnce /\ KegsSeenInOrder /\ MeasurementsKeepTheirKeg
    BY InvParts
  <2>2. RecoveredOnce'
    BY <1>1, <2>1 DEF RecoveredOnce
  <2>3. KegsSeenInOrder'
    BY <1>1, <2>1 DEF KegsSeenInOrder
  <2>4. (diagnosed' = {} => diagnosed = {}) /\ ("queue_full" \notin diagnosed' => "queue_full" \notin diagnosed)
    BY <1>1
  <2>5. MeasurementsKeepTheirKeg'
    BY <1>1, <2>1, <2>4 DEF MeasurementsKeepTheirKeg, RecoveredPulsesKeepTheirKeg, ResultsKeepTheirKeg
  <2>. QED  BY <2>2, <2>3, <2>5
<1>5. AllWitnessed'
  <2>1. \A x \in Waits : Witnessed(x)
    BY InvParts DEF AllWitnessed, Waits
  <2>2. ASSUME NEW y \in Waits' PROVE Witnessed(y)'
    <3>1. PICK x \in Waits : Like(y, x)
      BY <1>2
    <3>2. Witnessed(y)
      BY <2>1, <3>1, WitnessedAlike
    <3>. QED  BY <1>1, <3>2 DEF Witnessed
  <2>. QED  BY <2>2 DEF AllWitnessed, Waits
<1>6. ManagerFollows'
  <2>1. ManagerFollows
    BY InvParts
  <2>2. mgr.boot = 0 => events' = << >>
    BY <1>1, <2>1 DEF ManagerFollows
  <2>. QED  BY <1>1, <2>1, <2>2 DEF ManagerFollows
<1>7. FirstBootRises'
  <2>1. FirstBootRises
    BY InvParts
  <2>. DEFINE cp == db.checkpoints[1]
  <2>2. ASSUME dev.boot = 1, NEW y \in Waits', y.kind = "counters"
        PROVE  /\ cp.recovery <= y.value /\ cp.accepted + y.value <= y.accepted + cp.recovery
               /\ NeverWraps => cp.uptime <= y.uptime
    <3>1. PICK x \in Waits : Like(y, x)
      BY <1>2
    <3>2. /\ x.kind = "counters" /\ x.value = y.value /\ x.accepted = y.accepted /\ x.uptime = y.uptime
      BY <2>2, <3>1 DEF Like
    <3>3. /\ cp.recovery <= x.value /\ cp.accepted + x.value <= x.accepted + cp.recovery
          /\ NeverWraps => cp.uptime <= x.uptime
      BY <2>1, <2>2, <3>2 DEF FirstBootRises, Waits
    <3>. QED  BY <3>2, <3>3
  <2>3. "quarantined" \in diagnosed' => "quarantined" \in diagnosed
    BY <1>1
  <2>. QED  BY <1>1, <2>1, <2>2, <2>3 DEF FirstBootRises, Waits
<1>. QED  BY <1>3, <1>4, <1>5, <1>6, <1>7

LEMMA ScheduledKeepsInv ==
  ASSUME Inv, NEW e, HeadScheduled(e)
  PROVE  Inv'
<1>1. /\ QueueTypes' /\ QueuesInOrder(retries, batch, events, dev.boot)'
      /\ \A y \in Waits' : \E x \in Waits : Like(y, x)
  BY ScheduledQueues
<1>2. Shuffled
  BY <1>1 DEF Shuffled, HeadScheduled, Schedule
<1>3. /\ TypeOK' /\ RecoveredOnce' /\ KegsSeenInOrder' /\ AllWitnessed'
      /\ ManagerFollows' /\ FirstBootRises' /\ MeasurementsKeepTheirKeg'
  BY <1>1, <1>2, ShuffledKeeps
<1>4. CountersWait(Waits)' /\ ResultsWait(Waits)'
  BY ScheduledCountersWait, ScheduledResultsWait
<1>. QED  BY <1>1, <1>3, <1>4 DEF Inv, AllWitnessed, Waits

(* The head of the batch is dropped; it is no measurement. *)
LEMMA OtherDropped ==
  ASSUME Inv, batch # << >>, Head(batch).kind = "status", batch' = Tail(batch),
         UNCHANGED <<dev, keg, mgr, events, retries, db, diagnosed, seen>>
  PROVE  Inv'
<1>. DEFINE h == Head(batch)
<1>0. QueueTypes
  BY InvParts, TypeFacts
<1>1. /\ retries \in Seq(Event) /\ batch \in Seq(Event) /\ events \in Seq(Event)
      /\ Len(retries) <= RetryCap /\ Len(retries) \in Nat
  BY <1>0 DEF QueueTypes
<1>2. QueuesInOrder(retries, batch, events, dev.boot)
  BY InvParts
<1>3. /\ Tail(batch) \in Seq(Event)
      /\ Waits = Entries(retries) \cup {h} \cup Entries(Tail(batch)) \cup Entries(events)
  BY <1>0, <1>1, TailFacts, WaitsSplit
<1>4. Waits' = Entries(retries) \cup Entries(Tail(batch)) \cup Entries(events)
  BY DEF Waits, Waiting
<1>5. Renewed(retries, h, retries)
  BY <1>1, <1>2, QueuesFacts, LikeItself DEF Renewed
<1>6. QueuesInOrder(retries, Tail(batch), events, dev.boot)
  BY <1>1, <1>2, <1>5, HeadTaken
<1>7. QueueTypes'
  BY <1>0, <1>3 DEF QueueTypes
<1>8. Shuffled
  BY <1>3, <1>4, LikeItself DEF Shuffled
<1>9. /\ TypeOK' /\ RecoveredOnce' /\ KegsSeenInOrder' /\ AllWitnessed'
      /\ ManagerFollows' /\ FirstBootRises' /\ MeasurementsKeepTheirKeg'
  BY <1>7, <1>8, ShuffledKeeps
<1>10. \A w \in Waits : w.kind # "status" => w \in Waits'
  BY <1>3, <1>4
<1>11. CountersWait(Waits)'
  <2>. SUFFICES ASSUME diagnosed = {}, NEW b \in Boots, NEW p \in 1..MaxRecovery,
                       seen.counters[b][p] # NoKeg, p > db.checkpoints[b].recovery
                PROVE  \E y \in Waits' : /\ y.kind = "counters" /\ y.boot = b
                                         /\ y.value >= p /\ y.keg = seen.counters[b][p]
    BY DEF CountersWait
  <2>. QED  BY <1>10, InvParts DEF CountersWait
<1>12. ResultsWait(Waits)'
  <2>. SUFFICES ASSUME "queue_full" \notin diagnosed, NEW b \in Boots, NEW s \in 1..MaxSeq,
                       seen.results[b][s] # NoKeg,
                       \A row \in db.results : row.boot = b => row.seq # s
                PROVE  \E y \in Waits' : /\ y.kind = "result" /\ y.boot = b /\ y.value = s
                                         /\ y.keg = seen.results[b][s]
    BY DEF ResultsWait
  <2>. QED  BY <1>10, InvParts DEF ResultsWait
<1>. QED  BY <1>6, <1>9, <1>11, <1>12 DEF Inv, AllWitnessed, Waits
-------------------------------------------------------------------------------
(***************************************************************************)
(* The event loop, but for the commits.                                    *)
(***************************************************************************)
LEMMA PartsApart ==
  ASSUME NEW rt \in Seq(Event), Ordered(rt), NEW places, NEW due, NEW rest,
         PickedFrom(rt, places, due), PickedFrom(rt, DOMAIN rt \ places, rest)
  PROVE  \A i \in 1..Len(due) : \A j \in 1..Len(rest) : Apart(rest[j], due[i])
<1>. TAKE i \in 1..Len(due)
<1>. TAKE j \in 1..Len(rest)
<1>1. PICK m \in 1..Len(rt) : m \in places /\ due[i] = rt[m]
  BY DEF PickedFrom
<1>2. PICK n \in 1..Len(rt) : n \in DOMAIN rt \ places /\ rest[j] = rt[n]
  BY DEF PickedFrom
<1>3. rt[m].value \in Nat /\ rt[n].value \in Nat
  BY EntriesAreEvents, EventFields
<1>4. m < n \/ n < m
  BY <1>1, <1>2
<1>5. InOrder(rt[m], rt[n]) \/ InOrder(rt[n], rt[m])
  BY <1>4 DEF Ordered
<1>6. Apart(rt[n], rt[m])
  BY <1>3, <1>5 DEF InOrder, Apart, SameResult, SameEvent, InStream
<1>. QED  BY <1>1, <1>2, <1>6

LEMMA StartPassKeeps ==
  ASSUME Inv, StartPass
  PROVE  Inv'
<1>0. QueueTypes
  BY InvParts, TypeFacts
<1>1. /\ retries \in Seq(Event) /\ events \in Seq(Event)
      /\ Len(retries) <= RetryCap /\ DOMAIN retries = 1..Len(retries) /\ RetryCap \in Nat
  BY <1>0, CountAssumption DEF QueueTypes
<1>2. PICK places : /\ batch' = Picked(retries, places) \o events
                    /\ retries' = Picked(retries, DOMAIN retries \ places)
  BY DEF StartPass
<1>3. batch = << >> /\ events' = << >> /\ UNCHANGED <<dev, keg, mgr, db, diagnosed, seen>>
  BY DEF StartPass
<1>. DEFINE due == Picked(retries, places)
            rest == Picked(retries, DOMAIN retries \ places)
<1>4. QueuesInOrder(retries, << >>, events, dev.boot) /\ Ordered(retries)
  <2>1. QueuesInOrder(retries, batch, events, dev.boot)
    BY InvParts
  <2>. QED  BY <2>1, <1>0, <1>3, QueuesFacts DEF QueueTypes
<1>5. /\ PickedFrom(retries, places, due)
      /\ PickedFrom(retries, DOMAIN retries \ places, rest)
      /\ Len(due) \in Nat /\ Len(rest) \in Nat /\ Len(due) + Len(rest) = Len(retries)
  <2>1. \A i \in 1..Len(retries) : i \in DOMAIN retries \ places <=> i \notin places
    BY <1>1
  <2>. DEFINE staying == DOMAIN retries \ places
  <2>2. \A i \in 1..Len(retries) : i \in staying <=> i \notin places
    BY ZenonT(60), <2>1
  <2>. HIDE DEF staying
  <2>3. /\ PickedFrom(retries, places, Picked(retries, places))
        /\ PickedFrom(retries, staying, Picked(retries, staying))
        /\ Len(Picked(retries, places)) \in Nat /\ Len(Picked(retries, staying)) \in Nat
        /\ Len(Picked(retries, places)) + Len(Picked(retries, staying)) = Len(retries)
    BY ZenonT(60), <2>2, <1>1, PickedIsFrom
  <2>. QED  BY <2>3 DEF staying
<1>6. batch' = due \o events /\ retries' = rest
  BY <1>2
<1>. HIDE DEF due, rest
<1>7. /\ due \in Seq(Event) /\ rest \in Seq(Event)
      /\ Entries(due) \subseteq Entries(retries) /\ Entries(rest) \subseteq Entries(retries)
  BY <1>1, <1>5, PickedEntries DEF PickedFrom
<1>8. QueuesInOrder(rest, due \o events, << >>, dev.boot)
  <2>1. \A i \in 1..Len(due) : \A j \in 1..Len(rest) : Apart(rest[j], due[i])
    BY <1>1, <1>4, <1>5, PartsApart
  <2>. QED  BY <2>1, <1>1, <1>4, <1>5, PassStarted
<1>9. due \o events \in Seq(Event) /\ Entries(due \o events) = Entries(due) \cup Entries(events)
  BY <1>1, <1>7, JoinQueues
<1>10. Waits' = Waits
  <2>1. Entries(<< >>) = {}
    BY DEF Entries
  <2>2. Waits = Entries(retries) \cup Entries(events)
    BY <1>3, <2>1 DEF Waits, Waiting
  <2>3. Waits' = Entries(rest) \cup Entries(due) \cup Entries(events)
    BY <1>3, <1>6, <1>9, <2>1 DEF Waits, Waiting
  <2>4. ASSUME NEW x \in Entries(retries) PROVE x \in Entries(rest) \cup Entries(due)
    <3>1. PICK m \in 1..Len(retries) : x = retries[m]
      BY DEF Entries
    <3>2. m \in places \/ m \in DOMAIN retries \ places
      BY <1>1
    <3>. QED  BY <3>1, <3>2, <1>1, <1>5, PickedEntries
  <2>. QED  BY <2>2, <2>3, <2>4, <1>7
<1>11. QueueTypes'
  <2>1. Len(<< >>) = 0 /\ QueueCap \in Nat
    BY CountAssumption
  <2>. QED  BY <2>1, <1>1, <1>3, <1>5, <1>6, <1>7, <1>9 DEF QueueTypes
<1>12. Shuffled
  BY <1>3, <1>10, LikeItself DEF Shuffled
<1>13. /\ TypeOK' /\ RecoveredOnce' /\ KegsSeenInOrder' /\ AllWitnessed'
       /\ ManagerFollows' /\ FirstBootRises' /\ MeasurementsKeepTheirKeg'
  BY <1>11, <1>12, ShuffledKeeps
<1>14. CountersWait(Waits)' /\ ResultsWait(Waits)'
  <2>1. CountersWait(Waits) /\ ResultsWait(Waits)
    BY InvParts
  <2>. QED  BY <2>1, <1>3, <1>10 DEF CountersWait, ResultsWait
<1>15. QueuesInOrder(retries, batch, events, dev.boot)'
  BY <1>3, <1>6, <1>8
<1>. QED  BY <1>13, <1>14, <1>15 DEF Inv, AllWitnessed, Waits

LEMMA DeferKeeps ==
  ASSUME Inv, Defer
  PROVE  Inv'
<1>1. Head(batch) \in Event
  BY InvParts, TypeFacts, TailFacts DEF Defer, QueueTypes
<1>2. HeadScheduled(Head(batch))
  BY <1>1, LikeItself DEF Defer, HeadScheduled
<1>. QED  BY <1>2, ScheduledKeepsInv

LEMMA StorageFailsKeeps ==
  ASSUME Inv, StorageFails
  PROVE  Inv'
<1>. DEFINE h == Head(batch)
            e == [h EXCEPT !.tried = TRUE]
<1>1. h \in Event
  BY InvParts, TypeFacts, TailFacts DEF StorageFails, QueueTypes
<1>2. e \in Event /\ Like(e, h)
  BY <1>1, TriedFacts
<1>3. CASE Schedule(e)
  <2>1. HeadScheduled(e)
    BY <1>2, <1>3 DEF StorageFails, HeadScheduled
  <2>. HIDE DEF e
  <2>. QED  BY <2>1, ScheduledKeepsInv
<1>4. CASE h.kind = "status" /\ UNCHANGED <<retries, diagnosed>>
  <2>1. /\ batch # << >> /\ batch' = Tail(batch)
        /\ UNCHANGED <<dev, keg, mgr, events, retries, db, diagnosed, seen>>
    BY <1>4 DEF StorageFails
  <2>. QED  BY <1>4, <2>1, OtherDropped
<1>. QED  BY <1>3, <1>4 DEF StorageFails

LEMMA ProcessStatusKeeps ==
  ASSUME Inv, ProcessStatus
  PROVE  Inv'
BY OtherDropped DEF ProcessStatus
-------------------------------------------------------------------------------
(***************************************************************************)
(* The head of the batch is committed.                                     *)
(***************************************************************************)
HeadLeaves ==
  /\ batch # << >> /\ batch' = Tail(batch)
  /\ UNCHANGED <<keg, mgr, events, retries, seen>>
  /\ dev'.boot = dev.boot /\ dev'.made = dev.made
  /\ dev'.recovery = dev.recovery /\ dev'.uptime = dev.uptime

LEMMA HeadLeft ==
  ASSUME Inv, HeadLeaves
  PROVE  /\ QueueTypes' /\ QueuesInOrder(retries, batch, events, dev.boot)'
         /\ Waits' \subseteq Waits /\ \A w \in Waits : w = Head(batch) \/ w \in Waits'
         /\ AllWitnessed' /\ KegsSeenInOrder' /\ ManagerFollows'
<1>. DEFINE h == Head(batch)
<1>0. QueueTypes
  BY InvParts, TypeFacts
<1>1. /\ retries \in Seq(Event) /\ batch \in Seq(Event) /\ events \in Seq(Event)
      /\ Len(retries) <= RetryCap /\ Len(retries) \in Nat /\ batch # << >>
  BY <1>0 DEF QueueTypes, HeadLeaves
<1>2. QueuesInOrder(retries, batch, events, dev.boot)
  BY InvParts
<1>3. /\ Tail(batch) \in Seq(Event)
      /\ Waits = Entries(retries) \cup {h} \cup Entries(Tail(batch)) \cup Entries(events)
  BY <1>0, <1>1, TailFacts, WaitsSplit
<1>4. /\ batch' = Tail(batch) /\ events' = events /\ retries' = retries
      /\ keg' = keg /\ mgr' = mgr /\ seen' = seen
      /\ dev'.boot = dev.boot /\ dev'.made = dev.made
      /\ dev'.recovery = dev.recovery /\ dev'.uptime = dev.uptime
  BY DEF HeadLeaves
<1>5. Waits' = Entries(retries) \cup Entries(Tail(batch)) \cup Entries(events)
  BY <1>4 DEF Waits, Waiting
<1>6. Renewed(retries, h, retries)
  BY <1>1, <1>2, QueuesFacts, LikeItself DEF Renewed
<1>7. QueuesInOrder(retries, Tail(batch), events, dev.boot)
  BY <1>1, <1>2, <1>6, HeadTaken
<1>8. QueuesInOrder(retries, batch, events, dev.boot)'
  BY <1>4, <1>7
<1>9. QueueTypes'
  BY <1>0, <1>3, <1>4 DEF QueueTypes
<1>10. Waits' \subseteq Waits /\ \A w \in Waits : w = h \/ w \in Waits'
  BY <1>3, <1>5
<1>11. AllWitnessed'
  <2>1. ASSUME NEW y \in Waits' PROVE Witnessed(y)'
    <3>1. Witnessed(y)
      BY <1>10, InvParts DEF AllWitnessed, Waits
    <3>. QED  BY <1>4, <3>1 DEF Witnessed
  <2>. QED  BY <2>1 DEF AllWitnessed, Waits
<1>12. KegsSeenInOrder' /\ ManagerFollows'
  <2>1. KegsSeenInOrder /\ ManagerFollows
    BY InvParts
  <2>. QED  BY <1>4, <2>1 DEF KegsSeenInOrder, ManagerFollows
<1>. QED  BY <1>8, <1>9, <1>10, <1>11, <1>12

(* What waits in the stream of a counter that is not deferred says no less *)
(* than it does, and was observed no earlier.                              *)
LEMMA NothingBelow ==
  ASSUME Inv, batch # << >>, Head(batch).kind = "counters", ~Deferred(Head(batch)),
         NEW f \in Waits, InStream(Head(batch), f),
         Trusted(Head(batch), dev.boot), Trusted(f, dev.boot)
  PROVE  f = Head(batch) \/ (Head(batch).value <= f.value /\ NoLess(Head(batch), f))
<1>. DEFINE h == Head(batch)
<1>0. QueueTypes
  BY InvParts, TypeFacts
<1>1. retries \in Seq(Event) /\ batch \in Seq(Event) /\ events \in Seq(Event)
  BY <1>0 DEF QueueTypes
<1>2. QueuesInOrder(retries, batch, events, dev.boot)
  BY InvParts
<1>3. Waits = Entries(retries) \cup {h} \cup Entries(Tail(batch)) \cup Entries(events)
  BY <1>0, WaitsSplit
<1>4. h \in Event /\ f \in Event
  BY <1>1, <1>2, TailFacts, QueuesFacts DEF Waits
<1>5. h.value \in Nat /\ f.value \in Nat /\ h.kind = "counters" /\ f.kind = "counters" /\ f.boot = h.boot
  BY <1>4, EventFields DEF InStream
<1>6. HeadIsOld(retries, batch, events, dev.boot) \/ HeadIsFresh(retries, batch, events, dev.boot)
  BY <1>1, <1>2, HeadIsOldOrFresh
<1>7. InStream(f, h)
  BY <1>5 DEF InStream
<1>8. CASE f \in Entries(retries)
  <2>1. ~(f.value < h.value) /\ (f.value = h.value => h.tried)
    <3>1. PICK i \in 1..Len(retries) : f = retries[i]
      BY <1>8 DEF Entries
    <3>2. i \in DOMAIN retries
      BY <1>1
    <3>. QED  BY <3>1, <3>2, <1>7 DEF Deferred
  <2>2. CASE HeadIsOld(retries, batch, events, dev.boot)
    <3>1. Apart(f, h) /\ Rising(h, f, dev.boot)
      BY <1>8, <2>2 DEF HeadIsOld
    <3>2. h.value < f.value
      BY <2>1, <3>1, <1>5, <1>7 DEF Apart
    <3>3. NoLess(h, f)
      BY <3>1, <3>2 DEF Rising
    <3>. QED  BY <3>2, <3>3, <1>5
  <2>3. CASE HeadIsFresh(retries, batch, events, dev.boot)
    <3>1. Before(f, h, dev.boot) /\ ~h.tried
      BY <1>8, <2>3 DEF HeadIsFresh
    <3>2. f.value <= h.value
      BY <3>1, <1>5, <1>7 DEF Before
    <3>. QED  BY <2>1, <3>1, <3>2, <1>5
  <2>. QED  BY <1>6, <2>2, <2>3
<1>9. CASE f \in Entries(Tail(batch)) \cup Entries(events)
  <2>1. \/ InOrder(h, f) /\ Rising(h, f, dev.boot)
        \/ Before(h, f, dev.boot)
    BY <1>6, <1>9 DEF HeadIsOld, HeadIsFresh
  <2>2. CASE InOrder(h, f) /\ Rising(h, f, dev.boot)
    <3>1. h.value < f.value
      BY <2>2 DEF InOrder
    <3>2. NoLess(h, f)
      BY <2>2, <3>1 DEF Rising
    <3>. QED  BY <3>1, <3>2, <1>5
  <2>3. CASE Before(h, f, dev.boot)
    BY <2>3, <1>5 DEF Before
  <2>. QED  BY <2>1, <2>2, <2>3
<1>. QED  BY <1>3, <1>8, <1>9

(* The pulses that a checkpoint recovers are charged to the keg that each  *)
(* was first seen with.                                                    *)
LEMMA CheckpointChargesSeen ==
  ASSUME Inv, batch # << >>, Head(batch).kind = "counters", ~Deferred(Head(batch)),
         diagnosed = {}, NEW p \in Nat,
         db.checkpoints[Head(batch).boot].recovery < p, p <= Head(batch).value
  PROVE  p \in 1..MaxRecovery /\ seen.counters[Head(batch).boot][p] = Head(batch).keg
<1>. DEFINE h == Head(batch)
            v == h.value
<1>0. QueueTypes
  BY InvParts, TypeFacts
<1>1. h \in Event /\ h \in Waits
  BY <1>0, TailFacts, WaitsSplit DEF QueueTypes
<1>2. h.boot \in Boots /\ v \in Nat /\ h.keg \in Nat /\ h.kind = "counters"
  BY <1>1, EventFields, CountAssumption DEF Kegs
<1>3. db.checkpoints[h.boot].recovery \in Nat /\ \A q \in 1..MaxRecovery : seen.counters[h.boot][q] \in Nat
  BY SMTT(40), <1>2, InvParts, TypeFacts
<1>4. v > 0
  BY <1>2, <1>3
<1>5. v <= MaxRecovery /\ seen.counters[h.boot][v] # NoKeg /\ seen.counters[h.boot][v] <= h.keg
  BY <1>1, <1>2, <1>4, InvParts DEF AllWitnessed, Waits, Witnessed
<1>6. v \in 1..MaxRecovery /\ p \in 1..MaxRecovery
  BY SMTT(40), <1>2, <1>3, <1>4, <1>5, CountAssumption
<1>7. seen.counters[h.boot][p] # NoKeg /\ seen.counters[h.boot][p] <= h.keg
  <2>1. CASE p = v
    BY <2>1, <1>5
  <2>2. CASE p # v
    <3>1. p < v /\ KegsSeenInOrder
      BY <2>2, <1>2, InvParts
    <3>2. seen.counters[h.boot][p] # NoKeg /\ seen.counters[h.boot][p] <= seen.counters[h.boot][v]
      BY <3>1, <1>2, <1>5, <1>6 DEF KegsSeenInOrder
    <3>. QED  BY SMTT(40), <3>2, <1>2, <1>3, <1>5, <1>6
  <2>. QED  BY <2>1, <2>2
<1>8. PICK f \in Waits : /\ f.kind = "counters" /\ f.boot = h.boot
                         /\ f.value >= p /\ f.keg = seen.counters[h.boot][p]
  <2>1. CountersWait(Waits)
    BY InvParts
  <2>. QED  BY <2>1, <1>2, <1>6, <1>7 DEF CountersWait
<1>9. f \in Event
  BY <1>0, InvParts, QueuesFacts DEF QueueTypes, Waits
<1>10. f.value \in Nat /\ f.keg \in Nat
  BY <1>9, EventFields, CountAssumption DEF Kegs
<1>11. InStream(h, f) /\ Trusted(h, dev.boot) /\ Trusted(f, dev.boot)
  BY <1>2, <1>4, <1>6, <1>8, <1>10 DEF InStream, Trusted
<1>12. f = h \/ h.keg <= f.keg
  BY <1>11, NothingBelow DEF NoLess
<1>. QED  BY <1>2, <1>6, <1>7, <1>8, <1>10, <1>12

LEMMA HeadIsKnown ==
  ASSUME Inv, batch # << >>
  PROVE  /\ Head(batch) \in Event /\ Head(batch) \in Waits /\ Witnessed(Head(batch))
         /\ Head(batch).boot \in Boots /\ Head(batch).value \in Nat /\ Head(batch).keg \in Kegs
         /\ Head(batch).accepted \in Nat /\ Head(batch).uptime \in Nat
         /\ dev.boot = 1 => Head(batch).boot = 1
<1>. DEFINE h == Head(batch)
<1>0. QueueTypes
  BY InvParts, TypeFacts
<1>1. h \in Event /\ h \in Waits
  BY <1>0, TailFacts, WaitsSplit DEF QueueTypes
<1>2. /\ h.boot \in Boots /\ h.value \in Nat /\ h.keg \in Kegs
      /\ h.accepted \in Nat /\ h.uptime \in Nat
  BY <1>1, EventFields
<1>3. Witnessed(h)
  BY <1>1, InvParts DEF AllWitnessed, Waits
<1>4. dev.boot = 1 => h.boot = 1
  <2>1. h.boot <= dev.boot
    BY <1>3 DEF Witnessed
  <2>. QED  BY <2>1, <1>2, CountAssumption DEF Boots
<1>. QED  BY <1>1, <1>2, <1>3, <1>4

LEMMA NotWrapped ==
  ASSUME NEW c \in Nat, NEW u \in Nat, NEW top \in Nat, NEW modulus \in Nat,
         c <= u, u <= top, 2 * top < modulus
  PROVE  /\ (u + modulus - c) % modulus \in Nat
         /\ 2 * ((u + modulus - c) % modulus) < modulus
<1>. DEFINE x == u - c
<1>1. x \in Nat /\ x < modulus /\ 2 * x < modulus
  OBVIOUS
<1>2. u + modulus - c = x + modulus
  OBVIOUS
<1>. HIDE DEF x
<1>3. (x + modulus) % modulus = x
  BY <1>1
<1>. QED  BY <1>1, <1>2, <1>3 DEF x

(* No counter of the first boot is taken for a corrupt one. *)
LEMMA FirstBootAccepts ==
  ASSUME Inv, batch # << >>, Head(batch).kind = "counters", dev.boot = 1, NeverWraps
  PROVE  ~Rejected(Head(batch))
<1>. DEFINE h == Head(batch)
            cp == db.checkpoints[h.boot]
<1>1. /\ h \in Waits /\ Witnessed(h) /\ h.boot = 1 /\ h.boot \in Boots
      /\ h.value \in Nat /\ h.accepted \in Nat /\ h.uptime \in Nat
  BY HeadIsKnown
<1>2. cp.recovery \in Nat /\ cp.accepted \in Nat /\ cp.uptime \in Nat
  BY SMTT(40), <1>1, InvParts, TypeFacts
<1>3. /\ cp.recovery <= h.value /\ cp.accepted + h.value <= h.accepted + cp.recovery
      /\ cp.uptime <= h.uptime
  BY <1>1, InvParts DEF FirstBootRises, Waits
<1>4. h.uptime <= MaxUptime
  <2>1. h.uptime <= mgr.uptime
    BY <1>1 DEF Witnessed
  <2>2. mgr.uptime <= dev.uptime
    BY InvParts DEF ManagerFollows
  <2>3. mgr.uptime \in Nat /\ dev.uptime \in 0..MaxUptime
    BY InvParts, TypeFacts
  <2>. QED  BY <2>1, <2>2, <2>3, <1>1, CountAssumption
<1>5. MaxUptime \in Nat /\ UptimeModulus \in Nat /\ 2 * MaxUptime < UptimeModulus
  BY CountAssumption DEF NeverWraps
<1>. DEFINE elapsed == (h.uptime + UptimeModulus - cp.uptime) % UptimeModulus
<1>6. elapsed \in Nat /\ 2 * elapsed < UptimeModulus
  <2>. DEFINE u == h.uptime
              c == cp.uptime
  <2>1. u \in Nat /\ c \in Nat /\ c <= u /\ u <= MaxUptime
    BY <1>1, <1>2, <1>3, <1>4
  <2>. HIDE DEF u, c
  <2>2. /\ (u + UptimeModulus - c) % UptimeModulus \in Nat
        /\ 2 * ((u + UptimeModulus - c) % UptimeModulus) < UptimeModulus
    BY <2>1, <1>5, NotWrapped
  <2>. QED  BY ZenonT(60), <2>2 DEF u, c
<1>7. ~(cp.exists /\ 2 * Elapsed(h, cp) >= UptimeModulus)
  <2>1. cp.exists => Elapsed(h, cp) = elapsed
    BY DEF Elapsed
  <2>. HIDE DEF elapsed
  <2>. QED  BY <2>1, <1>5, <1>6
<1>8. ~(h.value - cp.recovery > h.accepted - cp.accepted)
  BY <1>1, <1>2, <1>3
<1>9. ~(h.value < cp.recovery) /\ ~(h.accepted < cp.accepted)
  BY <1>1, <1>2, <1>3
<1>. QED  BY <1>7, <1>8, <1>9 DEF Rejected

LEMMA QuarantineKeeps ==
  ASSUME Inv, CheckpointCounter, Rejected(Head(batch))
  PROVE  Inv'
<1>. DEFINE h == Head(batch)
<1>1. /\ batch # << >> /\ h.kind = "counters" /\ HeadLeaves
      /\ diagnosed' = diagnosed \cup {"quarantined"}
      /\ UNCHANGED <<db, dev, keg, mgr, events, retries, seen>>
  BY DEF CheckpointCounter, HeadLeaves
<1>2. /\ QueueTypes' /\ QueuesInOrder(retries, batch, events, dev.boot)'
      /\ Waits' \subseteq Waits /\ \A w \in Waits : w = h \/ w \in Waits'
      /\ AllWitnessed' /\ KegsSeenInOrder' /\ ManagerFollows'
  BY <1>1, HeadLeft
<1>3. TypeOK'
  <2>1. TypeOK
    BY InvParts
  <2>2. /\ events' \in Seq(Event) /\ Len(events') <= QueueCap
        /\ retries' \in Seq(Event) /\ Len(retries') <= RetryCap
        /\ batch' \in Seq(Event)
    BY <1>2 DEF QueueTypes
  <2>. QED  BY <2>1, <2>2, <1>1 DEF TypeOK
<1>4. RecoveredOnce'
  BY <1>1, InvParts DEF RecoveredOnce
<1>5. CountersWait(Waits)'
  BY <1>1 DEF CountersWait
<1>6. ResultsWait(Waits)'
  <2>. SUFFICES ASSUME "queue_full" \notin diagnosed, NEW b \in Boots, NEW s \in 1..MaxSeq,
                       seen.results[b][s] # NoKeg,
                       \A row \in db.results : row.boot = b => row.seq # s
                PROVE  \E y \in Waits' : /\ y.kind = "result" /\ y.boot = b /\ y.value = s
                                         /\ y.keg = seen.results[b][s]
    BY <1>1 DEF ResultsWait
  <2>1. PICK w \in Waits : /\ w.kind = "result" /\ w.boot = b /\ w.value = s
                           /\ w.keg = seen.results[b][s]
    BY InvParts DEF ResultsWait
  <2>2. w # h
    BY <2>1, <1>1
  <2>. QED  BY <2>1, <2>2, <1>2
<1>7. FirstBootRises'
  <2>. SUFFICES ASSUME dev.boot = 1 PROVE FirstBootRises'
    BY <1>1 DEF FirstBootRises
  <2>1. ~NeverWraps
    BY <1>1, FirstBootAccepts
  <2>2. FirstBootRises
    BY InvParts
  <2>. QED  BY <2>1, <2>2, <1>1, <1>2 DEF FirstBootRises, Waits
<1>8. MeasurementsKeepTheirKeg'
  <2>1. MeasurementsKeepTheirKeg
    BY InvParts
  <2>. QED  BY <2>1, <1>1 DEF MeasurementsKeepTheirKeg, RecoveredPulsesKeepTheirKeg, ResultsKeepTheirKeg
<1>. QED  BY <1>2, <1>3, <1>4, <1>5, <1>6, <1>7, <1>8 DEF Inv, AllWitnessed, Waits

NewPour(e) ==
  [boot |-> e.boot, from |-> db.checkpoints[e.boot].recovery, to |-> e.value, keg |-> e.keg]

NewCheckpoint(e) ==
  [recovery |-> e.value, accepted |-> e.accepted, uptime |-> e.uptime, exists |-> TRUE]

Committed(e) ==
  /\ db'.checkpoints[e.boot] = NewCheckpoint(e)
  /\ \A b \in Boots : b # e.boot => db'.checkpoints[b] = db.checkpoints[b]
  /\ e.value = db.checkpoints[e.boot].recovery => db'.recovered = db.recovered
  /\ e.value # db.checkpoints[e.boot].recovery =>
       db'.recovered = db.recovered \cup {NewPour(e)}
  /\ db'.results = db.results

LEMMA CheckpointWritten ==
  ASSUME Inv, CheckpointCounter, ~Rejected(Head(batch))
  PROVE  /\ batch # << >> /\ Head(batch).kind = "counters" /\ ~Deferred(Head(batch))
         /\ HeadLeaves /\ UNCHANGED <<dev, keg, mgr, events, retries, seen, diagnosed>>
         /\ Head(batch).value <= MaxRecovery
         /\ db.checkpoints[Head(batch).boot].recovery <= Head(batch).value
         /\ Committed(Head(batch)) /\ TypeOK'
<1>. DEFINE h == Head(batch)
            previous == db.checkpoints[h.boot].recovery
<1>1. /\ batch # << >> /\ h.kind = "counters" /\ ~Deferred(h) /\ HeadLeaves
      /\ db' = WithCheckpoint(h)
      /\ UNCHANGED <<dev, keg, mgr, events, retries, seen, diagnosed>>
  BY DEF CheckpointCounter, HeadLeaves
<1>2. /\ h \in Event /\ Witnessed(h) /\ h.boot \in Boots /\ h.value \in Nat /\ h.keg \in Kegs
      /\ h.accepted \in Nat /\ h.uptime \in Nat
  BY <1>1, HeadIsKnown
<1>. HIDE DEF h
<1>3. h.value <= MaxRecovery /\ h.value \in 0..MaxRecovery
  <2>1. h.value > 0 => h.value <= MaxRecovery
    BY <1>1, <1>2 DEF Witnessed
  <2>. QED  BY <2>1, <1>2, CountAssumption
<1>4. previous \in Nat /\ previous <= h.value
  <2>1. previous \in Nat
    BY <1>2, InvParts, TypeFacts, CountAssumption
  <2>2. ~Rejected(h)
    BY DEF h
  <2>. QED  BY <2>1, <2>2, <1>2 DEF Rejected
<1>5. db \in [checkpoints : [Boots -> Checkpoint], recovered : SUBSET Recovered,
              results : SUBSET ResultRow]
  BY InvParts DEF TypeOK
<1>6. NewCheckpoint(h) \in Checkpoint /\ NewPour(h) \in Recovered
  BY <1>2, <1>3, <1>4 DEF NewCheckpoint, NewPour, Checkpoint, Recovered
<1>7. /\ db'.checkpoints = [db.checkpoints EXCEPT ![h.boot] = NewCheckpoint(h)]
      /\ db'.recovered = IF h.value = previous THEN db.recovered
                         ELSE db.recovered \cup {NewPour(h)}
      /\ db'.results = db.results
      /\ db' = [checkpoints |-> db'.checkpoints, recovered |-> db'.recovered,
                results |-> db'.results]
  BY <1>1, <1>5 DEF WithCheckpoint, NewCheckpoint, NewPour
<1>8. Committed(h)
  <2>1. db.checkpoints \in [Boots -> Checkpoint]
    BY <1>5
  <2>. QED  BY <2>1, <1>2, <1>7 DEF Committed
<1>9. db' \in [checkpoints : [Boots -> Checkpoint], recovered : SUBSET Recovered,
               results : SUBSET ResultRow]
  <2>1. db.checkpoints \in [Boots -> Checkpoint] /\ db.recovered \subseteq Recovered
        /\ db.results \subseteq ResultRow
    BY <1>5
  <2>2. db'.checkpoints \in [Boots -> Checkpoint]
    BY <2>1, <1>2, <1>6, <1>7
  <2>3. db'.recovered \subseteq Recovered
    BY <2>1, <1>6, <1>7
  <2>. QED  BY <2>1, <2>2, <2>3, <1>7
<1>10. TypeOK'
  <2>1. TypeOK
    BY InvParts
  <2>2. /\ events' \in Seq(Event) /\ Len(events') <= QueueCap
        /\ retries' \in Seq(Event) /\ Len(retries') <= RetryCap
        /\ batch' \in Seq(Event)
    BY <1>1, HeadLeft DEF QueueTypes
  <2>. QED  BY <2>1, <2>2, <1>1, <1>9 DEF TypeOK
<1>. QED  BY <1>1, <1>3, <1>4, <1>8, <1>10 DEF h

LEMMA CheckpointRecoversOnce ==
  ASSUME Inv, CheckpointCounter, ~Rejected(Head(batch))
  PROVE  RecoveredOnce'
<1>. DEFINE h == Head(batch)
            previous == db.checkpoints[h.boot].recovery
            pour == NewPour(h)
<1>1. Committed(h) /\ previous <= h.value
  BY CheckpointWritten
<1>2. h.boot \in Boots /\ h.value \in Nat
  BY HeadIsKnown DEF CheckpointCounter
<1>3. previous \in Nat
  BY <1>2, InvParts, TypeFacts, CountAssumption
<1>4. \A r \in db.recovered : r.from \in Nat /\ r.to \in Nat
  BY InvParts DEF TypeOK, Recovered
<1>5. pour.boot = h.boot /\ pour.from = previous /\ pour.to = h.value
  BY DEF NewPour
<1>. HIDE DEF h, previous, pour
<1>6. ASSUME NEW b \in Boots
      PROVE  /\ \A p \in 1..db.checkpoints[b].recovery :
                  Cardinality({r \in {q \in db.recovered : q.boot = b} : p \in (r.from + 1)..r.to}) = 1
             /\ \A r \in {q \in db.recovered : q.boot = b} : r.to <= db.checkpoints[b].recovery
  BY InvParts DEF RecoveredOnce
<1>7. \A r \in db'.recovered : r \in db.recovered \/ (r = pour /\ h.value # previous)
  BY <1>1 DEF Committed, previous, pour
<1>8. db.recovered \subseteq db'.recovered
  BY <1>1 DEF Committed, previous
<1>. SUFFICES ASSUME NEW b \in Boots
     PROVE  /\ \A p \in 1..db'.checkpoints[b].recovery :
                 Cardinality({r \in {q \in db'.recovered : q.boot = b} : p \in (r.from + 1)..r.to}) = 1
            /\ \A r \in {q \in db'.recovered : q.boot = b} : r.to <= db'.checkpoints[b].recovery
  BY DEF RecoveredOnce
<1>9. CASE b # h.boot
  <2>1. {q \in db'.recovered : q.boot = b} = {q \in db.recovered : q.boot = b}
    BY <1>5, <1>7, <1>8, <1>9
  <2>2. db'.checkpoints[b] = db.checkpoints[b]
    BY <1>1, <1>9 DEF Committed
  <2>. QED  BY <2>1, <2>2, <1>6
<1>10. CASE b = h.boot
  <2>1. db'.checkpoints[b].recovery = h.value /\ db.checkpoints[b].recovery = previous
    BY <1>1, <1>10 DEF Committed, NewCheckpoint, previous
  <2>2. \A r \in {q \in db'.recovered : q.boot = b} : r.to <= h.value
    <3>. TAKE r \in {q \in db'.recovered : q.boot = b}
    <3>1. CASE r \in db.recovered
      BY <3>1, <2>1, <1>1, <1>2, <1>3, <1>4, <1>6
    <3>2. CASE r = pour
      BY <3>2, <1>2, <1>5
    <3>. QED  BY <3>1, <3>2, <1>7
  <2>3. ASSUME NEW p \in 1..h.value
        PROVE  Cardinality({r \in {q \in db'.recovered : q.boot = b} : p \in (r.from + 1)..r.to}) = 1
    <3>. DEFINE charged(rs) == {r \in {q \in rs : q.boot = b} : p \in (r.from + 1)..r.to}
    <3>1. CASE p <= previous
      <4>1. p \in 1..db.checkpoints[b].recovery
        BY <2>1, <2>3, <3>1, <1>2, <1>3
      <4>2. p \notin (pour.from + 1)..pour.to
        BY <2>3, <3>1, <1>2, <1>3, <1>5
      <4>3. charged(db'.recovered) = charged(db.recovered)
        BY <4>2, <1>7, <1>8
      <4>. QED  BY <4>1, <4>3, <1>6
    <3>2. CASE p > previous
      <4>1. h.value # previous /\ pour \in db'.recovered
        BY <2>3, <3>2, <1>1, <1>2, <1>3 DEF Committed, previous, pour
      <4>2. p \in (pour.from + 1)..pour.to
        BY <2>3, <3>2, <1>2, <1>3, <1>5
      <4>3. \A r \in db.recovered : r.boot = b => p \notin (r.from + 1)..r.to
        <5>. SUFFICES ASSUME NEW r \in db.recovered, r.boot = b PROVE ~(p <= r.to)
          BY <1>4, <2>3
        <5>1. r.to <= previous
          BY <2>1, <1>6
        <5>. QED  BY <5>1, <2>3, <3>2, <1>2, <1>3, <1>4
      <4>4. charged(db'.recovered) = {pour}
        BY <4>1, <4>2, <4>3, <1>5, <1>7, <1>10
      <4>. QED  BY <4>4, FS_Singleton
    <3>. QED  BY <3>1, <3>2, <2>3, <1>2, <1>3
  <2>. QED  BY <2>1, <2>2, <2>3
<1>. QED  BY <1>9, <1>10

LEMMA CheckpointKeepsKegs ==
  ASSUME Inv, CheckpointCounter, ~Rejected(Head(batch))
  PROVE  MeasurementsKeepTheirKeg'
<1>. DEFINE h == Head(batch)
            previous == db.checkpoints[h.boot].recovery
<1>1. /\ Committed(h) /\ seen' = seen /\ diagnosed' = diagnosed
      /\ batch # << >> /\ h.kind = "counters" /\ ~Deferred(h)
  BY CheckpointWritten
<1>2. h.boot \in Boots /\ h.value \in Nat
  BY <1>1, HeadIsKnown
<1>3. previous \in Nat
  BY <1>2, InvParts, TypeFacts, CountAssumption
<1>4. RecoveredPulsesKeepTheirKeg /\ ResultsKeepTheirKeg
  BY InvParts DEF MeasurementsKeepTheirKeg
<1>5. ResultsKeepTheirKeg'
  BY <1>1, <1>4 DEF ResultsKeepTheirKeg, Committed
<1>6. RecoveredPulsesKeepTheirKeg'
  <2>. SUFFICES ASSUME diagnosed = {}, NEW r \in db'.recovered, NEW p \in (r.from + 1)..r.to
                PROVE  seen.counters[r.boot][p] = r.keg
    BY <1>1 DEF RecoveredPulsesKeepTheirKeg
  <2>1. CASE r \in db.recovered
    BY <2>1, <1>4 DEF RecoveredPulsesKeepTheirKeg
  <2>2. CASE r = NewPour(h)
    <3>1. /\ r.boot = h.boot /\ r.from = previous /\ r.to = h.value /\ r.keg = h.keg
      BY <2>2 DEF NewPour
    <3>2. p \in Nat /\ previous < p /\ p <= h.value
      BY <3>1, <1>2, <1>3
    <3>3. seen.counters[h.boot][p] = h.keg
      BY <3>2, <1>1, CheckpointChargesSeen
    <3>. QED  BY <3>1, <3>3
  <2>. QED  BY <2>1, <2>2, <1>1 DEF Committed
<1>. QED  BY <1>5, <1>6 DEF MeasurementsKeepTheirKeg

LEMMA CheckpointLeavesTheRest ==
  ASSUME Inv, CheckpointCounter, ~Rejected(Head(batch))
  PROVE  CountersWait(Waits)' /\ ResultsWait(Waits)'
<1>. DEFINE h == Head(batch)
            previous == db.checkpoints[h.boot].recovery
<1>1. /\ Committed(h) /\ seen' = seen /\ diagnosed' = diagnosed /\ HeadLeaves
      /\ batch # << >> /\ h.kind = "counters" /\ previous <= h.value
  BY CheckpointWritten
<1>2. h.boot \in Boots /\ h.value \in Nat
  BY <1>1, HeadIsKnown
<1>3. previous \in Nat
  BY <1>2, InvParts, TypeFacts, CountAssumption
<1>4. \A w \in Waits : w = h \/ w \in Waits'
  BY <1>1, HeadLeft
<1>5. CountersWait(Waits)'
  <2>. SUFFICES ASSUME diagnosed = {}, NEW b \in Boots, NEW p \in 1..MaxRecovery,
                       seen.counters[b][p] # NoKeg, p > db'.checkpoints[b].recovery
                PROVE  \E y \in Waits' : /\ y.kind = "counters" /\ y.boot = b
                                         /\ y.value >= p /\ y.keg = seen.counters[b][p]
    BY <1>1 DEF CountersWait
  <2>1. p > db.checkpoints[b].recovery /\ (b = h.boot => h.value < p)
    <3>1. CASE b = h.boot
      BY <3>1, <1>1, <1>2, <1>3 DEF Committed, NewCheckpoint
    <3>2. CASE b # h.boot
      BY <3>2, <1>1 DEF Committed
    <3>. QED  BY <3>1, <3>2
  <2>2. PICK w \in Waits : /\ w.kind = "counters" /\ w.boot = b
                           /\ w.value >= p /\ w.keg = seen.counters[b][p]
    BY <2>1, InvParts DEF CountersWait
  <2>3. w # h
    BY <2>1, <2>2, <1>2
  <2>. QED  BY <2>2, <2>3, <1>4
<1>6. ResultsWait(Waits)'
  <2>. SUFFICES ASSUME "queue_full" \notin diagnosed, NEW b \in Boots, NEW s \in 1..MaxSeq,
                       seen.results[b][s] # NoKeg,
                       \A row \in db.results : row.boot = b => row.seq # s
                PROVE  \E y \in Waits' : /\ y.kind = "result" /\ y.boot = b /\ y.value = s
                                         /\ y.keg = seen.results[b][s]
    BY <1>1 DEF ResultsWait, Committed
  <2>1. PICK w \in Waits : /\ w.kind = "result" /\ w.boot = b /\ w.value = s
                           /\ w.keg = seen.results[b][s]
    BY InvParts DEF ResultsWait
  <2>2. w # h
    BY <2>1, <1>1
  <2>. QED  BY <2>1, <2>2, <1>4
<1>. QED  BY <1>5, <1>6

LEMMA CheckpointRises ==
  ASSUME Inv, CheckpointCounter, ~Rejected(Head(batch))
  PROVE  FirstBootRises'
<1>. DEFINE h == Head(batch)
            cp == db'.checkpoints[1]
<1>1. /\ Committed(h) /\ HeadLeaves
      /\ UNCHANGED <<dev, keg, mgr, events, retries, seen, diagnosed>>
      /\ batch # << >> /\ h.kind = "counters" /\ ~Deferred(h)
  BY CheckpointWritten
<1>. SUFFICES ASSUME dev.boot = 1 PROVE FirstBootRises'
  BY <1>1 DEF FirstBootRises
<1>2. /\ h \in Waits /\ h.boot = 1 /\ h.boot \in Boots /\ h.value \in Nat
      /\ h.accepted \in Nat /\ h.uptime \in Nat /\ Witnessed(h)
  BY <1>1, HeadIsKnown
<1>3. cp.recovery = h.value /\ cp.accepted = h.accepted /\ cp.uptime = h.uptime
  BY <1>1, <1>2 DEF Committed, NewCheckpoint
<1>4. /\ h.value <= dev.recovery /\ h.accepted <= dev.made + h.value
      /\ NeverWraps => h.uptime <= mgr.uptime
  BY <1>1, <1>2 DEF Witnessed
<1>5. NeverWraps => mgr.uptime <= dev.uptime
  BY InvParts DEF ManagerFollows
<1>6. NeverWraps => h.uptime <= dev.uptime
  <2>1. mgr.uptime \in Nat /\ dev.uptime \in Nat
    BY InvParts, TypeFacts, CountAssumption
  <2>. QED  BY <2>1, <1>2, <1>4, <1>5
<1>7. ASSUME NEW f \in Waits', f.kind = "counters"
      PROVE  /\ cp.recovery <= f.value /\ cp.accepted + f.value <= f.accepted + cp.recovery
             /\ NeverWraps => cp.uptime <= f.uptime
  <2>1. f \in Waits /\ Witnessed(f)
    BY <1>1, <1>7, HeadLeft, InvParts DEF AllWitnessed, Waits
  <2>2. f \in Event
    BY <2>1, InvParts, TypeFacts, QueuesFacts DEF QueueTypes, Waits
  <2>3. f.boot \in Boots /\ f.boot <= 1
    BY <2>1, <2>2, EventFields DEF Witnessed
  <2>4. f.boot = 1
    BY <2>3, CountAssumption DEF Boots
  <2>5. InStream(h, f) /\ Trusted(h, dev.boot) /\ Trusted(f, dev.boot)
    BY <2>4, <1>1, <1>2, <1>7 DEF InStream, Trusted
  <2>6. f = h \/ (h.value <= f.value /\ NoLess(h, f))
    BY <2>1, <2>5, <1>1, NothingBelow
  <2>. QED  BY <2>6, <1>2, <1>3 DEF NoLess
<1>8. NeverWraps => "quarantined" \notin diagnosed
  BY InvParts DEF FirstBootRises
<1>. QED  BY <1>1, <1>3, <1>4, <1>6, <1>7, <1>8 DEF FirstBootRises, Waits

LEMMA CheckpointCounterKeeps ==
  ASSUME Inv, CheckpointCounter
  PROVE  Inv'
<1>1. CASE Rejected(Head(batch))
  BY <1>1, QuarantineKeeps
<1>2. CASE ~Rejected(Head(batch))
  <2>1. HeadLeaves /\ TypeOK'
    BY <1>2, CheckpointWritten
  <2>2. /\ QueuesInOrder(retries, batch, events, dev.boot)' /\ AllWitnessed'
        /\ KegsSeenInOrder' /\ ManagerFollows'
    BY <2>1, HeadLeft
  <2>3. RecoveredOnce' /\ MeasurementsKeepTheirKeg' /\ FirstBootRises'
    BY <1>2, CheckpointRecoversOnce, CheckpointKeepsKegs, CheckpointRises
  <2>4. CountersWait(Waits)' /\ ResultsWait(Waits)'
    BY <1>2, CheckpointLeavesTheRest
  <2>. QED  BY <2>1, <2>2, <2>3, <2>4 DEF Inv, AllWitnessed, Waits
<1>. QED  BY <1>1, <1>2

(* The result that is committed first is the one that was seen first. *)
LEMMA ResultAsSeen ==
  ASSUME Inv, batch # << >>, Head(batch).kind = "result", ~Deferred(Head(batch)),
         "queue_full" \notin diagnosed,
         \A row \in db.results : row.boot = Head(batch).boot => row.seq # Head(batch).value
  PROVE  seen.results[Head(batch).boot][Head(batch).value] = Head(batch).keg
<1>. DEFINE h == Head(batch)
            first == seen.results[h.boot][h.value]
<1>0. QueueTypes
  BY InvParts, TypeFacts
<1>1. retries \in Seq(Event) /\ batch \in Seq(Event) /\ events \in Seq(Event)
  BY <1>0 DEF QueueTypes
<1>2. QueuesInOrder(retries, batch, events, dev.boot)
  BY InvParts
<1>3. Waits = Entries(retries) \cup {h} \cup Entries(Tail(batch)) \cup Entries(events)
  BY <1>0, WaitsSplit
<1>4. /\ h.boot \in Boots /\ h.value \in 1..MaxSeq /\ first # NoKeg /\ first <= h.keg
      /\ h.kind = "result"
  BY HeadIsKnown DEF Witnessed
<1>5. first \in Nat
  BY <1>4, InvParts, TypeFacts
<1>6. PICK f \in Waits : /\ f.kind = "result" /\ f.boot = h.boot /\ f.value = h.value
                         /\ f.keg = first
  <2>1. ResultsWait(Waits)
    BY InvParts
  <2>2. \A row \in db.results : row.boot = h.boot => row.seq # h.value
    OBVIOUS
  <2>. HIDE DEF h
  <2>. QED  BY <2>1, <2>2, <1>4 DEF ResultsWait
<1>7. h.keg \in Nat
  BY HeadIsKnown, CountAssumption DEF Kegs
<1>8. SameEvent(f, h) /\ SameResult(f, h) /\ SameResult(h, f)
  BY <1>4, <1>6 DEF SameEvent, SameResult
<1>9. HeadIsOld(retries, batch, events, dev.boot) \/ HeadIsFresh(retries, batch, events, dev.boot)
  BY <1>1, <1>2, HeadIsOldOrFresh
<1>10. f \notin Entries(retries)
  <2>. SUFFICES ASSUME f \in Entries(retries) PROVE FALSE
    OBVIOUS
  <2>1. PICK i \in 1..Len(retries) : f = retries[i]
    BY DEF Entries
  <2>2. i \in DOMAIN retries
    BY <1>1
  <2>3. h.tried
    BY <2>1, <2>2, <1>4, <1>8 DEF Deferred
  <2>4. HeadIsOld(retries, batch, events, dev.boot)
    BY <2>3, <1>9 DEF HeadIsFresh
  <2>. QED  BY <2>4, <1>8 DEF HeadIsOld, Apart
<1>11. CASE f \in Entries(Tail(batch)) \cup Entries(events)
  <2>1. InOrder(h, f) \/ Before(h, f, dev.boot)
    BY <1>9, <1>11 DEF HeadIsOld, HeadIsFresh
  <2>2. Before(h, f, dev.boot)
    BY <2>1, <1>8 DEF InOrder
  <2>3. h.keg <= first
    BY <2>2, <1>4, <1>6 DEF Before
  <2>. QED  BY <2>3, <1>4, <1>5, <1>7
<1>. QED  BY <1>3, <1>6, <1>10, <1>11

LEMMA CommitResultKeeps ==
  ASSUME Inv, CommitResult
  PROVE  Inv'
<1>. DEFINE h == Head(batch)
            row0 == [boot |-> h.boot, seq |-> h.value, keg |-> h.keg]
<1>1. /\ batch # << >> /\ batch' = Tail(batch) /\ h.kind = "result" /\ ~Deferred(h)
      /\ db' = WithResult(h)
      /\ UNCHANGED <<keg, mgr, events, retries, diagnosed, seen>>
  BY DEF CommitResult
<1>2. /\ h.boot \in Boots /\ h.value \in 1..MaxSeq /\ h.value \in Nat /\ h.keg \in Kegs
  BY <1>1, HeadIsKnown DEF Witnessed
<1>3. /\ dev' \in [boot : Boots, made : 0..MaxSeq, retained : SUBSET (1..MaxSeq),
                   recovery : 0..MaxRecovery, uptime : 0..MaxUptime]
      /\ dev'.boot = dev.boot /\ dev'.made = dev.made
      /\ dev'.recovery = dev.recovery /\ dev'.uptime = dev.uptime
  <2>1. dev \in [boot : Boots, made : 0..MaxSeq, retained : SUBSET (1..MaxSeq),
                 recovery : 0..MaxRecovery, uptime : 0..MaxUptime]
    BY InvParts DEF TypeOK
  <2>2. dev' = dev \/ dev' = [dev EXCEPT !.retained = @ \ {h.value}]
    BY DEF CommitResult
  <2>. QED  BY <2>1, <2>2
<1>4. HeadLeaves
  BY <1>1, <1>3 DEF HeadLeaves
<1>5. /\ QueueTypes' /\ QueuesInOrder(retries, batch, events, dev.boot)'
      /\ Waits' \subseteq Waits /\ \A w \in Waits : w = h \/ w \in Waits'
      /\ AllWitnessed' /\ KegsSeenInOrder' /\ ManagerFollows'
  BY <1>4, HeadLeft
<1>6. db \in [checkpoints : [Boots -> Checkpoint], recovered : SUBSET Recovered,
              results : SUBSET ResultRow]
  BY InvParts DEF TypeOK
<1>7. row0.boot = h.boot /\ row0.seq = h.value
  OBVIOUS
<1>8. /\ db'.checkpoints = db.checkpoints /\ db'.recovered = db.recovered
      /\ \/ db' = db /\ \E row \in db.results : row.boot = h.boot /\ row.seq = h.value
         \/ /\ db'.results = db.results \cup {row0}
            /\ \A row \in db.results : row.boot = h.boot => row.seq # h.value
      /\ db' \in [checkpoints : [Boots -> Checkpoint], recovered : SUBSET Recovered,
                  results : SUBSET ResultRow]
  <2>1. CASE \E row \in db.results : row.boot = h.boot /\ row.seq = h.value
    <3>1. db' = db
      BY <1>1, <2>1 DEF WithResult
    <3>. QED  BY <3>1, <2>1, <1>6
  <2>2. CASE ~\E row \in db.results : row.boot = h.boot /\ row.seq = h.value
    <3>1. db' = [db EXCEPT !.results = @ \cup {row0}]
      BY <1>1, <2>2 DEF WithResult
    <3>2. row0 \in ResultRow
      BY <1>2 DEF ResultRow
    <3>. HIDE DEF row0
    <3>3. db'.results = db.results \cup {row0}
      BY <3>1, <1>6
    <3>. QED  BY <3>1, <3>2, <3>3, <2>2, <1>6
  <2>. QED  BY <2>1, <2>2
<1>9. TypeOK'
  <2>1. TypeOK
    BY InvParts
  <2>2. /\ events' \in Seq(Event) /\ Len(events') <= QueueCap
        /\ retries' \in Seq(Event) /\ Len(retries') <= RetryCap
        /\ batch' \in Seq(Event)
    BY <1>5 DEF QueueTypes
  <2>. QED  BY <2>1, <2>2, <1>1, <1>3, <1>8 DEF TypeOK
<1>10. RecoveredOnce' /\ FirstBootRises'
  <2>1. RecoveredOnce /\ FirstBootRises
    BY InvParts
  <2>. QED  BY SMTT(40), <2>1, <1>1, <1>3, <1>5, <1>8 DEF RecoveredOnce, FirstBootRises, Waits
<1>11. CountersWait(Waits)'
  <2>. SUFFICES ASSUME diagnosed = {}, NEW b \in Boots, NEW p \in 1..MaxRecovery,
                       seen.counters[b][p] # NoKeg, p > db.checkpoints[b].recovery
                PROVE  \E y \in Waits' : /\ y.kind = "counters" /\ y.boot = b
                                         /\ y.value >= p /\ y.keg = seen.counters[b][p]
    BY <1>1, <1>8 DEF CountersWait
  <2>1. PICK w \in Waits : /\ w.kind = "counters" /\ w.boot = b
                           /\ w.value >= p /\ w.keg = seen.counters[b][p]
    BY InvParts DEF CountersWait
  <2>. QED  BY <2>1, <1>1, <1>5
<1>12. ResultsWait(Waits)'
  <2>. SUFFICES ASSUME "queue_full" \notin diagnosed, NEW b \in Boots, NEW s \in 1..MaxSeq,
                       seen.results[b][s] # NoKeg,
                       \A row \in db'.results : row.boot = b => row.seq # s
                PROVE  \E y \in Waits' : /\ y.kind = "result" /\ y.boot = b /\ y.value = s
                                         /\ y.keg = seen.results[b][s]
    BY <1>1 DEF ResultsWait
  <2>1. \A row \in db.results : row.boot = b => row.seq # s
    BY <1>8
  <2>2. PICK w \in Waits : /\ w.kind = "result" /\ w.boot = b /\ w.value = s
                           /\ w.keg = seen.results[b][s]
    BY <2>1, InvParts DEF ResultsWait
  <2>3. w # h
    <3>. SUFFICES ASSUME w = h PROVE FALSE
      OBVIOUS
    <3>. HIDE DEF row0
    <3>1. \E row \in db'.results : row.boot = h.boot /\ row.seq = h.value
      <4>1. CASE db' = db /\ \E row \in db.results : row.boot = h.boot /\ row.seq = h.value
        BY <4>1
      <4>2. CASE db'.results = db.results \cup {row0}
        BY <4>2, <1>7
      <4>. QED  BY <4>1, <4>2, <1>8
    <3>. QED  BY <3>1, <2>2
  <2>. QED  BY <2>2, <2>3, <1>5
<1>13. MeasurementsKeepTheirKeg'
  <2>1. RecoveredPulsesKeepTheirKeg /\ ResultsKeepTheirKeg
    BY InvParts DEF MeasurementsKeepTheirKeg
  <2>2. RecoveredPulsesKeepTheirKeg'
    BY <2>1, <1>1, <1>8 DEF RecoveredPulsesKeepTheirKeg
  <2>3. ResultsKeepTheirKeg'
    <3>. SUFFICES ASSUME "queue_full" \notin diagnosed, NEW row \in db'.results
                  PROVE  seen.results[row.boot][row.seq] = row.keg
      BY <1>1 DEF ResultsKeepTheirKeg
    <3>1. CASE row \in db.results
      BY <3>1, <2>1 DEF ResultsKeepTheirKeg
    <3>2. CASE row \notin db.results
      <4>1. row = row0 /\ \A r \in db.results : r.boot = h.boot => r.seq # h.value
        BY <3>2, <1>8
      <4>2. seen.results[h.boot][h.value] = h.keg
        BY <4>1, <1>1, ResultAsSeen
      <4>. QED  BY <4>1, <4>2
    <3>. QED  BY <3>1, <3>2
  <2>. QED  BY <2>2, <2>3 DEF MeasurementsKeepTheirKeg
<1>. QED  BY <1>5, <1>9, <1>10, <1>11, <1>12, <1>13 DEF Inv, AllWitnessed, Waits
-------------------------------------------------------------------------------
(***************************************************************************)
(* The controller counts on, is reset, and kegs are replaced.              *)
(***************************************************************************)
TypeOfDevice == [boot : Boots, made : 0..MaxSeq, retained : SUBSET (1..MaxSeq),
                 recovery : 0..MaxRecovery, uptime : 0..MaxUptime]

CountsOn ==
  /\ UNCHANGED host
  /\ dev' \in TypeOfDevice /\ dev'.boot = dev.boot /\ dev.made <= dev'.made
  /\ dev.recovery <= dev'.recovery /\ dev.uptime <= dev'.uptime
  /\ dev'.recovery = dev.recovery \/ (mgr.connected => mgr.boot = dev.boot)
  /\ keg' \in Kegs /\ keg <= keg'

LEMMA EventCounts ==
  ASSUME Inv
  PROVE  \A e \in Waits : /\ e.boot \in Boots /\ e.boot \in Nat /\ e.value \in Nat
                          /\ e.accepted \in Nat /\ e.uptime \in Nat
                          /\ e.keg \in Kegs /\ e.keg \in Nat
<1>1. Waits \subseteq Event
  BY InvParts, TypeFacts, QueuesFacts DEF QueueTypes, Waits
<1>. QED  BY <1>1, EventFields, CountAssumption DEF Boots, Kegs

LEMMA CountsOnKeeps ==
  ASSUME Inv, CountsOn
  PROVE  Inv'
<1>1. /\ UNCHANGED <<mgr, events, retries, batch, db, diagnosed, seen>>
      /\ dev'.boot = dev.boot /\ dev.made <= dev'.made
      /\ dev.recovery <= dev'.recovery /\ dev.uptime <= dev'.uptime
      /\ dev'.recovery = dev.recovery \/ (mgr.connected => mgr.boot = dev.boot)
      /\ keg' \in Kegs /\ keg <= keg' /\ dev' \in TypeOfDevice
  BY DEF CountsOn, host
<1>2. /\ dev.boot \in Nat /\ dev.made \in Nat /\ dev.recovery \in Nat /\ dev.uptime \in Nat
      /\ mgr.boot \in Nat /\ mgr.uptime \in Nat /\ keg \in Nat
      /\ dev'.made \in Nat /\ dev'.recovery \in Nat /\ dev'.uptime \in Nat /\ keg' \in Nat
  BY <1>1, InvParts, TypeFacts, CountAssumption DEF TypeOfDevice, Kegs
<1>3. Waits' = Waits
  BY <1>1 DEF Waits
<1>4. TypeOK'
  BY <1>1, InvParts DEF TypeOK, TypeOfDevice
<1>5. RecoveredOnce' /\ MeasurementsKeepTheirKeg' /\ CountersWait(Waits)' /\ ResultsWait(Waits)'
  <2>1. RecoveredOnce /\ MeasurementsKeepTheirKeg /\ CountersWait(Waits) /\ ResultsWait(Waits)
    BY InvParts
  <2>. QED  BY <2>1, <1>1, <1>3 DEF RecoveredOnce, MeasurementsKeepTheirKeg,
            RecoveredPulsesKeepTheirKeg, ResultsKeepTheirKeg, CountersWait, ResultsWait
<1>6. QueuesInOrder(retries, batch, events, dev.boot)'
  <2>1. QueuesInOrder(retries, batch, events, dev.boot)
    BY InvParts
  <2>. QED  BY <2>1, <1>1
<1>7. KegsSeenInOrder'
  <2>1. KegsSeenInOrder
    BY InvParts
  <2>2. ASSUME NEW b \in Boots
        PROVE  /\ \A p \in 1..MaxRecovery : seen.counters[b][p] <= keg'
               /\ \A s \in 1..MaxSeq : seen.results[b][s] <= keg'
    <3>1. /\ \A p \in 1..MaxRecovery : seen.counters[b][p] \in Nat
          /\ \A s \in 1..MaxSeq : seen.results[b][s] \in Nat
      BY InvParts, TypeFacts
    <3>2. /\ \A p \in 1..MaxRecovery : seen.counters[b][p] <= keg
          /\ \A s \in 1..MaxSeq : seen.results[b][s] <= keg
      BY <2>1 DEF KegsSeenInOrder
    <3>. QED  BY <3>1, <3>2, <1>1, <1>2
  <2>. QED  BY <2>1, <2>2, <1>1 DEF KegsSeenInOrder
<1>8. AllWitnessed'
  <2>1. ASSUME NEW e \in Waits PROVE Witnessed(e)'
    <3>1. Witnessed(e)
      BY InvParts DEF AllWitnessed, Waits
    <3>2. e.boot \in Nat /\ e.value \in Nat /\ e.accepted \in Nat /\ e.keg \in Nat
      BY EventCounts
    <3>3. e.keg <= keg'
      BY <3>1, <3>2, <1>1, <1>2 DEF Witnessed
    <3>4. e.kind = "counters" /\ e.boot = dev.boot =>
            e.value <= dev'.recovery /\ e.accepted <= dev'.made + e.value
      BY <3>1, <3>2, <1>1, <1>2 DEF Witnessed
    <3>. QED  BY <3>1, <3>3, <3>4, <1>1 DEF Witnessed
  <2>. QED  BY <2>1, <1>3 DEF AllWitnessed, Waits
<1>9. ManagerFollows'
  <2>1. ManagerFollows
    BY InvParts
  <2>2. mgr.connected /\ mgr.boot < dev.boot => dev'.recovery = 0
    BY <2>1, <1>1, <1>2 DEF ManagerFollows
  <2>3. dev.boot = 1 /\ NeverWraps => mgr.uptime <= dev'.uptime
    BY <2>1, <1>1, <1>2 DEF ManagerFollows
  <2>4. dev.boot = 1 /\ mgr.sent # << >> => mgr.sent.recovery <= dev'.recovery
    <3>. SUFFICES ASSUME dev.boot = 1, mgr.sent # << >> PROVE mgr.sent.recovery <= dev'.recovery
      OBVIOUS
    <3>1. mgr.sent.recovery \in Nat
      BY InvParts DEF TypeOK, Reading
    <3>2. mgr.sent.recovery <= dev.recovery
      BY <2>1 DEF ManagerFollows
    <3>. QED  BY <3>1, <3>2, <1>1, <1>2
  <2>. QED  BY <2>1, <2>2, <2>3, <2>4, <1>1 DEF ManagerFollows
<1>10. FirstBootRises'
  <2>. SUFFICES ASSUME dev.boot = 1 PROVE FirstBootRises'
    BY <1>1 DEF FirstBootRises
  <2>. DEFINE cp == db.checkpoints[1]
  <2>1. FirstBootRises
    BY InvParts
  <2>2. cp.recovery \in Nat /\ cp.accepted \in Nat /\ cp.uptime \in Nat
    <3>1. 1 \in Boots
      BY CountAssumption DEF Boots
    <3>. QED  BY <3>1, InvParts, TypeFacts, CountAssumption
  <2>3. cp.recovery <= dev'.recovery /\ cp.accepted <= dev'.made + cp.recovery
    BY <2>1, <2>2, <1>1, <1>2 DEF FirstBootRises
  <2>4. NeverWraps => cp.uptime <= dev'.uptime
    BY <2>1, <2>2, <1>1, <1>2 DEF FirstBootRises
  <2>. QED  BY <2>1, <2>3, <2>4, <1>1 DEF FirstBootRises
<1>. QED  BY <1>3, <1>4, <1>5, <1>6, <1>7, <1>8, <1>9, <1>10 DEF Inv, AllWitnessed, Waits

LEMMA DeviceCountsOn ==
  ASSUME Inv, ResultEnds \/ RecoveryPulse \/ TimePasses \/ ReplaceKeg
  PROVE  CountsOn
<1>1. dev \in TypeOfDevice /\ keg \in Kegs
  BY InvParts DEF TypeOK, TypeOfDevice
<1>2. /\ dev.made \in Nat /\ dev.recovery \in Nat /\ dev.uptime \in Nat /\ keg \in Nat
      /\ MaxSeq \in Nat /\ MaxRecovery \in Nat /\ MaxUptime \in Nat /\ MaxKeg \in Nat
  BY InvParts, TypeFacts, CountAssumption
<1>3. CASE ResultEnds
  <2>1. /\ dev' = [dev EXCEPT !.made = @ + 1, !.retained = @ \cup {dev.made + 1}]
        /\ dev.made < MaxSeq /\ UNCHANGED <<keg, host>>
    BY <1>3 DEF ResultEnds
  <2>2. dev.made + 1 \in 0..MaxSeq /\ dev.made + 1 \in 1..MaxSeq
    BY <2>1, <1>2
  <2>3. dev' \in TypeOfDevice
    BY <2>1, <2>2, <1>1 DEF TypeOfDevice
  <2>4. dev'.boot = dev.boot /\ dev'.made = dev.made + 1 /\ dev'.recovery = dev.recovery
        /\ dev'.uptime = dev.uptime
    BY <2>1, <1>1 DEF TypeOfDevice
  <2>. QED  BY <2>1, <2>3, <2>4, <1>1, <1>2 DEF CountsOn
<1>4. CASE RecoveryPulse
  <2>1. /\ dev' = [dev EXCEPT !.recovery = @ + 1] /\ dev.recovery < MaxRecovery
        /\ mgr.connected => mgr.boot = dev.boot
        /\ UNCHANGED <<keg, host>>
    BY <1>4 DEF RecoveryPulse
  <2>2. dev.recovery + 1 \in 0..MaxRecovery
    BY <2>1, <1>2
  <2>3. dev' \in TypeOfDevice
    BY <2>1, <2>2, <1>1 DEF TypeOfDevice
  <2>4. dev'.boot = dev.boot /\ dev'.made = dev.made /\ dev'.recovery = dev.recovery + 1
        /\ dev'.uptime = dev.uptime
    BY <2>1, <1>1 DEF TypeOfDevice
  <2>. QED  BY <2>1, <2>3, <2>4, <1>1, <1>2 DEF CountsOn
<1>5. CASE TimePasses
  <2>1. /\ dev' = [dev EXCEPT !.uptime = @ + 1] /\ dev.uptime < MaxUptime
        /\ UNCHANGED <<keg, host>>
    BY <1>5 DEF TimePasses
  <2>2. dev.uptime + 1 \in 0..MaxUptime
    BY <2>1, <1>2
  <2>3. dev' \in TypeOfDevice
    BY <2>1, <2>2, <1>1 DEF TypeOfDevice
  <2>4. dev'.boot = dev.boot /\ dev'.made = dev.made /\ dev'.recovery = dev.recovery
        /\ dev'.uptime = dev.uptime + 1
    BY <2>1, <1>1 DEF TypeOfDevice
  <2>. QED  BY <2>1, <2>3, <2>4, <1>1, <1>2 DEF CountsOn
<1>6. CASE ReplaceKeg
  <2>1. keg' = keg + 1 /\ keg < MaxKeg /\ UNCHANGED <<dev, host>>
    BY <1>6 DEF ReplaceKeg
  <2>2. keg' \in Kegs
    BY <2>1, <1>2 DEF Kegs
  <2>. QED  BY <2>1, <2>2, <1>1, <1>2 DEF CountsOn
<1>. QED  BY <1>3, <1>4, <1>5, <1>6

LEMMA CountsOnAlwaysKeeps ==
  ASSUME Inv, ResultEnds \/ RecoveryPulse \/ TimePasses \/ ReplaceKeg
  PROVE  Inv'
<1>1. CountsOn
  BY DeviceCountsOn
<1>. QED  BY <1>1, CountsOnKeeps

LEMMA DeviceResetKeeps ==
  ASSUME Inv, DeviceReset
  PROVE  Inv'
<1>1. /\ dev.boot < MaxBoot /\ dev' = NewDevice(dev.boot + 1)
      /\ UNCHANGED <<keg, mgr, events, retries, batch, db, diagnosed, seen>>
  BY DEF DeviceReset, host
<1>2. dev.boot \in Boots /\ dev.boot \in Nat /\ mgr.boot \in Nat /\ QueueTypes /\ TypeOK
  BY InvParts, TypeFacts
<1>3. /\ dev'.boot = dev.boot + 1 /\ dev'.recovery = 0 /\ dev'.boot # 1
      /\ dev' \in TypeOfDevice
  <2>1. dev.boot + 1 \in Boots /\ dev.boot + 1 # 1
    BY <1>1, <1>2, CountAssumption DEF Boots
  <2>2. 0 \in 0..MaxSeq /\ 0 \in 0..MaxRecovery /\ 0 \in 0..MaxUptime
    BY CountAssumption
  <2>. QED  BY <2>1, <2>2, <1>1 DEF NewDevice, TypeOfDevice
<1>4. Waits' = Waits
  BY <1>1 DEF Waits
<1>5. TypeOK'
  BY <1>1, <1>2, <1>3 DEF TypeOK, TypeOfDevice
<1>6. RecoveredOnce' /\ MeasurementsKeepTheirKeg' /\ CountersWait(Waits)' /\ ResultsWait(Waits)'
      /\ KegsSeenInOrder'
  <2>1. RecoveredOnce /\ MeasurementsKeepTheirKeg /\ CountersWait(Waits) /\ ResultsWait(Waits)
        /\ KegsSeenInOrder
    BY InvParts
  <2>. QED  BY <2>1, <1>1, <1>4 DEF RecoveredOnce, MeasurementsKeepTheirKeg, KegsSeenInOrder,
            RecoveredPulsesKeepTheirKeg, ResultsKeepTheirKeg, CountersWait, ResultsWait
<1>7. \A e \in Waits : Witnessed(e) /\ e.boot <= dev.boot /\ e.boot \in Nat
  <2>1. \A e \in Waits : Witnessed(e) /\ e.boot <= dev.boot
    BY InvParts DEF AllWitnessed, Waits, Witnessed
  <2>. QED  BY <2>1, EventCounts
<1>8. QueuesInOrder(retries, batch, events, dev.boot)'
  <2>1. QueuesInOrder(retries, batch, events, dev.boot)
    BY InvParts
  <2>2. QueuesInOrder(retries, batch, events, dev.boot + 1)
    BY <2>1, <1>2, <1>7, ResetOrder DEF QueueTypes, Waits
  <2>. QED  BY <2>2, <1>1, <1>3
<1>9. AllWitnessed'
  <2>1. ASSUME NEW e \in Waits PROVE Witnessed(e)'
    <3>1. Witnessed(e) /\ e.boot <= dev'.boot /\ e.boot # dev'.boot
      BY <1>2, <1>3, <1>7
    <3>. QED  BY <3>1, <1>1 DEF Witnessed
  <2>. QED  BY <2>1, <1>4 DEF AllWitnessed, Waits
<1>10. ManagerFollows'
  <2>1. ManagerFollows
    BY InvParts
  <2>2. mgr.boot <= dev'.boot
    BY <2>1, <1>2, <1>3 DEF ManagerFollows
  <2>. QED  BY <2>1, <2>2, <1>1, <1>3 DEF ManagerFollows
<1>11. FirstBootRises'
  BY <1>3 DEF FirstBootRises
<1>. QED  BY <1>4, <1>5, <1>6, <1>8, <1>9, <1>10, <1>11 DEF Inv, AllWitnessed, Waits

LEMMA HostCrashKeeps ==
  ASSUME Inv, HostCrash
  PROVE  Inv'
<1>1. /\ mgr' = NoManager /\ events' = << >> /\ retries' = << >> /\ batch' = << >>
      /\ UNCHANGED <<dev, keg, db, diagnosed>>
  BY DEF HostCrash
<1>2. TypeOK /\ QueueTypes
  BY InvParts, TypeFacts
<1>3. /\ \A b \in Boots : \A p \in 1..MaxRecovery :
           seen'.counters[b][p] = IF p <= db.checkpoints[b].recovery
                                  THEN seen.counters[b][p] ELSE NoKeg
      /\ \A b \in Boots : \A s \in 1..MaxSeq :
           seen'.results[b][s] = IF \E row \in db.results : row.boot = b /\ row.seq = s
                                 THEN seen.results[b][s] ELSE NoKeg
  BY DEF HostCrash
<1>4. seen' \in [counters : [Boots -> [1..MaxRecovery -> Kegs \cup {NoKeg}]],
                 results : [Boots -> [1..MaxSeq -> Kegs \cup {NoKeg}]]]
  <2>1. /\ seen.counters \in [Boots -> [1..MaxRecovery -> Kegs \cup {NoKeg}]]
        /\ seen.results \in [Boots -> [1..MaxSeq -> Kegs \cup {NoKeg}]]
    BY <1>2 DEF TypeOK
  <2>2. [b \in Boots |-> [p \in 1..MaxRecovery |->
           IF p <= db.checkpoints[b].recovery THEN seen.counters[b][p] ELSE NoKeg]]
          \in [Boots -> [1..MaxRecovery -> Kegs \cup {NoKeg}]]
    BY <2>1
  <2>3. [b \in Boots |-> [s \in 1..MaxSeq |->
           IF \E row \in db.results : row.boot = b /\ row.seq = s
           THEN seen.results[b][s] ELSE NoKeg]]
          \in [Boots -> [1..MaxSeq -> Kegs \cup {NoKeg}]]
    BY <2>1
  <2>. QED  BY <2>2, <2>3 DEF HostCrash
<1>5. TypeOK'
  <2>1. /\ << >> \in Seq(Event) /\ Len(<< >>) = 0 /\ QueueCap \in Nat /\ RetryCap \in Nat
    BY CountAssumption
  <2>2. NoManager \in [connected : BOOLEAN, boot : 0..MaxBoot, sent : Reading \cup {<< >>},
                       uptime : Nat]
    BY CountAssumption DEF NoManager
  <2>. QED  BY <2>1, <2>2, <1>1, <1>2, <1>4 DEF TypeOK
<1>6. Waits' = {} /\ QueuesInOrder(retries, batch, events, dev.boot)'
  BY <1>1, NothingWaits DEF Waits
<1>7. RecoveredOnce'
  BY SMTT(40), <1>1, InvParts DEF RecoveredOnce
<1>8. \A b \in Boots : db.checkpoints[b].recovery \in 0..MaxRecovery
  BY <1>2, TypeFacts
<1>9. KegsSeenInOrder'
  <2>1. KegsSeenInOrder
    BY InvParts
  <2>2. NoKeg <= keg
    BY <1>2, TypeFacts DEF NoKeg
  <2>3. ASSUME NEW b \in Boots
        PROVE  /\ \A p \in 1..MaxRecovery : seen'.counters[b][p] <= keg
               /\ \A s \in 1..MaxSeq : seen'.results[b][s] <= keg
    BY <2>1, <2>2, <1>3 DEF KegsSeenInOrder
  <2>4. ASSUME NEW b \in Boots, NEW p \in 1..MaxRecovery, NEW q \in 1..MaxRecovery,
               p < q, seen'.counters[b][q] # NoKeg
        PROVE  seen'.counters[b][p] # NoKeg /\ seen'.counters[b][p] <= seen'.counters[b][q]
    <3>1. q <= db.checkpoints[b].recovery /\ seen'.counters[b][q] = seen.counters[b][q]
      BY <2>4, <1>3
    <3>2. p <= db.checkpoints[b].recovery
      BY <2>4, <3>1, <1>8
    <3>3. seen'.counters[b][p] = seen.counters[b][p]
      BY <3>2, <1>3
    <3>. QED  BY <3>1, <3>3, <2>1, <2>4 DEF KegsSeenInOrder
  <2>. QED  BY <2>3, <2>4, <1>1 DEF KegsSeenInOrder
<1>10. CountersWait(Waits)'
  <2>1. ASSUME NEW b \in Boots, NEW p \in 1..MaxRecovery, seen'.counters[b][p] # NoKeg,
               p > db.checkpoints[b].recovery
        PROVE  FALSE
    <3>1. ~(p <= db.checkpoints[b].recovery)
      BY <2>1, <1>8
    <3>. QED  BY <2>1, <3>1, <1>3
  <2>. QED  BY <2>1, <1>1 DEF CountersWait
<1>11. ResultsWait(Waits)'
  <2>1. ASSUME NEW b \in Boots, NEW s \in 1..MaxSeq, seen'.results[b][s] # NoKeg,
               \A row \in db.results : row.boot = b => row.seq # s
        PROVE  FALSE
    BY <2>1, <1>3
  <2>. QED  BY <2>1, <1>1 DEF ResultsWait
<1>12. AllWitnessed'
  BY <1>6 DEF AllWitnessed, Waits
<1>13. ManagerFollows'
  <2>1. dev.boot \in Nat /\ dev.uptime \in Nat
    BY <1>2, TypeFacts
  <2>. QED  BY <2>1, <1>1 DEF ManagerFollows, NoManager
<1>14. FirstBootRises'
  <2>1. FirstBootRises
    BY InvParts
  <2>. QED  BY <2>1, <1>1, <1>6 DEF FirstBootRises, NoManager, Waits
<1>15. MeasurementsKeepTheirKeg'
  <2>1. RecoveredPulsesKeepTheirKeg /\ ResultsKeepTheirKeg
    BY InvParts DEF MeasurementsKeepTheirKeg
  <2>2. RecoveredPulsesKeepTheirKeg'
    <3>. SUFFICES ASSUME diagnosed = {}, NEW r \in db.recovered, NEW p \in (r.from + 1)..r.to
                  PROVE  seen'.counters[r.boot][p] = r.keg
      BY <1>1 DEF RecoveredPulsesKeepTheirKeg
    <3>1. r.boot \in Boots /\ r.from \in Nat /\ r.to \in Nat
      BY <1>2 DEF TypeOK, Recovered
    <3>2. r.to <= db.checkpoints[r.boot].recovery
      BY <3>1, InvParts DEF RecoveredOnce
    <3>3. p \in 1..MaxRecovery /\ p <= db.checkpoints[r.boot].recovery
      BY <3>1, <3>2, <1>8, CountAssumption
    <3>. QED  BY <3>1, <3>3, <2>1, <1>3 DEF RecoveredPulsesKeepTheirKeg
  <2>3. ResultsKeepTheirKeg'
    <3>. SUFFICES ASSUME "queue_full" \notin diagnosed, NEW row \in db.results
                  PROVE  seen'.results[row.boot][row.seq] = row.keg
      BY <1>1 DEF ResultsKeepTheirKeg
    <3>1. row.boot \in Boots /\ row.seq \in 1..MaxSeq
      BY <1>2 DEF TypeOK, ResultRow
    <3>. QED  BY <3>1, <2>1, <1>3 DEF ResultsKeepTheirKeg
  <2>. QED  BY <2>2, <2>3 DEF MeasurementsKeepTheirKeg
<1>. QED  BY <1>5, <1>6, <1>7, <1>9, <1>10, <1>11, <1>12, <1>13, <1>14, <1>15
          DEF Inv, AllWitnessed, Waits
-------------------------------------------------------------------------------
(***************************************************************************)
(* The manager's thread.                                                   *)
(***************************************************************************)
(* The link is given up. *)
LEMMA LinkDownKeeps ==
  ASSUME Inv, mgr' = [mgr EXCEPT !.connected = FALSE], UNCHANGED <<events, seen, others>>
  PROVE  Inv'
<1>1. UNCHANGED <<dev, keg, events, retries, batch, db, diagnosed, seen>>
  BY DEF others
<1>2. TypeOK
  BY InvParts
<1>3. /\ mgr' \in [connected : BOOLEAN, boot : 0..MaxBoot, sent : Reading \cup {<< >>},
                   uptime : Nat]
      /\ mgr'.connected = FALSE /\ mgr'.boot = mgr.boot /\ mgr'.sent = mgr.sent
      /\ mgr'.uptime = mgr.uptime
  BY <1>2 DEF TypeOK
<1>4. TypeOK'
  BY <1>1, <1>2, <1>3 DEF TypeOK
<1>5. Waits' = Waits
  BY <1>1 DEF Waits
<1>6. /\ RecoveredOnce' /\ MeasurementsKeepTheirKeg' /\ CountersWait(Waits)' /\ ResultsWait(Waits)'
      /\ KegsSeenInOrder'
  <2>1. /\ RecoveredOnce /\ MeasurementsKeepTheirKeg /\ CountersWait(Waits) /\ ResultsWait(Waits)
        /\ KegsSeenInOrder
    BY InvParts
  <2>. QED  BY <2>1, <1>1, <1>5 DEF RecoveredOnce, MeasurementsKeepTheirKeg, KegsSeenInOrder,
            RecoveredPulsesKeepTheirKeg, ResultsKeepTheirKeg, CountersWait, ResultsWait
<1>7. QueuesInOrder(retries, batch, events, dev.boot)'
  <2>1. QueuesInOrder(retries, batch, events, dev.boot)
    BY InvParts
  <2>. QED  BY <2>1, <1>1
<1>8. AllWitnessed'
  <2>1. ASSUME NEW e \in Waits PROVE Witnessed(e)'
    <3>1. Witnessed(e)
      BY InvParts DEF AllWitnessed, Waits
    <3>. QED  BY <3>1, <1>1, <1>3 DEF Witnessed
  <2>. QED  BY <2>1, <1>5 DEF AllWitnessed, Waits
<1>9. ManagerFollows'
  <2>1. ManagerFollows
    BY InvParts
  <2>. QED  BY <2>1, <1>1, <1>3 DEF ManagerFollows
<1>10. FirstBootRises'
  <2>1. FirstBootRises
    BY InvParts
  <2>. QED  BY <2>1, <1>1, <1>3, <1>5 DEF FirstBootRises, Waits
<1>. QED  BY <1>4, <1>5, <1>6, <1>7, <1>8, <1>9, <1>10 DEF Inv, AllWitnessed, Waits

(* An event is queued behind all others. *)
LEMMA EventQueued ==
  ASSUME Inv, NEW f \in Event, ~f.tried, HasRoom, events' = Append(events, f),
         UNCHANGED <<dev, retries, batch>>,
         \A x \in Waits : Before(x, f, dev.boot)
  PROVE  /\ QueueTypes' /\ QueuesInOrder(retries, batch, events, dev.boot)'
         /\ Waits' = Waits \cup {f}
<1>1. QueueTypes /\ QueuesInOrder(retries, batch, events, dev.boot)
  BY InvParts, TypeFacts
<1>2. retries \in Seq(Event) /\ batch \in Seq(Event) /\ events \in Seq(Event)
  BY <1>1 DEF QueueTypes
<1>3. QueuesInOrder(retries, batch, events', dev.boot)
  BY <1>1, <1>2, Observed DEF Waits
<1>4. /\ events' \in Seq(Event) /\ Len(events') = Len(events) + 1
      /\ Entries(events') = Entries(events) \cup {f}
  BY <1>2, AppendQueue
<1>5. Len(events') <= QueueCap
  <2>1. Len(events) \in Nat /\ QueueCap \in Nat /\ Len(events) < QueueCap
    BY <1>2, CountAssumption DEF HasRoom
  <2>. QED  BY <2>1, <1>4
<1>6. QueueTypes'
  BY <1>1, <1>4, <1>5 DEF QueueTypes
<1>7. Waits' = Waits \cup {f}
  BY <1>4 DEF Waits, Waiting
<1>. QED  BY <1>3, <1>6, <1>7

LEMMA StatusFacts ==
  ASSUME NEW b \in Boots
  PROVE  StatusOf(b) \in Event /\ StatusOf(b).kind = "status" /\ ~StatusOf(b).tried
         /\ StatusOf(b).keg = 1 /\ StatusOf(b).boot = b
BY CountAssumption DEF StatusOf, Event, Kegs

(* The manager knows the controller and the time of its last status.       *)
Known ==
  /\ UNCHANGED <<dev, keg, retries, batch, db, diagnosed, seen>>
  /\ mgr'.connected = TRUE /\ mgr'.boot = dev.boot /\ mgr'.sent = mgr.sent
  /\ \/ events' = events /\ mgr'.uptime = mgr.uptime /\ mgr.boot # 0
     \/ /\ HasRoom /\ events' = Append(events, StatusOf(dev.boot))
        /\ mgr'.uptime = dev.uptime % UptimeModulus

LEMMA KnownKeeps ==
  ASSUME Inv, Known,
         mgr' \in [connected : BOOLEAN, boot : 0..MaxBoot, sent : Reading \cup {<< >>},
                   uptime : Nat]
  PROVE  Inv'
<1>1. /\ UNCHANGED <<dev, keg, retries, batch, db, diagnosed, seen>>
      /\ mgr'.connected = TRUE /\ mgr'.boot = dev.boot /\ mgr'.sent = mgr.sent
      /\ mgr'.uptime \in Nat
  BY DEF Known
<1>2. /\ TypeOK /\ QueueTypes /\ dev.boot \in Boots /\ dev.boot \in Nat /\ dev.boot # 0
      /\ dev.uptime \in Nat /\ dev.uptime <= MaxUptime /\ mgr.uptime \in Nat /\ mgr.boot \in Nat
  BY SMTT(40), InvParts, TypeFacts, CountAssumption DEF Boots
<1>3. ManagerFollows /\ FirstBootRises
  BY InvParts
<1>. DEFINE f == StatusOf(dev.boot)
<1>4. f \in Event /\ f.kind = "status" /\ ~f.tried /\ f.keg = 1 /\ f.boot = dev.boot
  BY <1>2, StatusFacts
<1>. HIDE DEF f
<1>5. /\ QueueTypes' /\ QueuesInOrder(retries, batch, events, dev.boot)'
      /\ Waits \subseteq Waits' /\ Waits' \subseteq Waits \cup {f}
  <2>1. CASE events' = events
    <3>1. QueuesInOrder(retries, batch, events, dev.boot)
      BY InvParts
    <3>. QED  BY <2>1, <3>1, <1>1, <1>2 DEF QueueTypes, Waits
  <2>2. CASE HasRoom /\ events' = Append(events, f)
    <3>1. \A x \in Waits : Before(x, f, dev.boot)
      BY <1>4 DEF Before
    <3>2. /\ QueueTypes' /\ QueuesInOrder(retries, batch, events, dev.boot)'
          /\ Waits' = Waits \cup {f}
      BY <2>2, <3>1, <1>1, <1>4, EventQueued
    <3>. QED  BY <3>2
  <2>. QED  BY <2>1, <2>2 DEF Known, f
<1>6. dev.boot = 1 /\ NeverWraps => mgr.uptime <= mgr'.uptime /\ mgr'.uptime <= dev.uptime
  <2>. SUFFICES ASSUME dev.boot = 1, NeverWraps
                PROVE  mgr.uptime <= mgr'.uptime /\ mgr'.uptime <= dev.uptime
    OBVIOUS
  <2>1. mgr.uptime <= dev.uptime
    BY <1>3 DEF ManagerFollows
  <2>2. dev.uptime % UptimeModulus = dev.uptime
    <3>1. dev.uptime < UptimeModulus /\ UptimeModulus \in Nat
      BY <1>2, CountAssumption DEF NeverWraps
    <3>. QED  BY <3>1, <1>2
  <2>3. mgr'.uptime = mgr.uptime \/ mgr'.uptime = dev.uptime
    BY <2>2 DEF Known
  <2>. QED  BY <2>1, <2>3, <1>2
<1>7. TypeOK'
  <2>1. /\ events' \in Seq(Event) /\ Len(events') <= QueueCap
        /\ retries' \in Seq(Event) /\ Len(retries') <= RetryCap
        /\ batch' \in Seq(Event)
    BY <1>5 DEF QueueTypes
  <2>. QED  BY <2>1, <1>1, <1>2 DEF TypeOK
<1>8. RecoveredOnce' /\ MeasurementsKeepTheirKeg' /\ KegsSeenInOrder'
  <2>1. RecoveredOnce /\ MeasurementsKeepTheirKeg /\ KegsSeenInOrder
    BY InvParts
  <2>. QED  BY <2>1, <1>1 DEF RecoveredOnce, MeasurementsKeepTheirKeg, KegsSeenInOrder,
            RecoveredPulsesKeepTheirKeg, ResultsKeepTheirKeg
<1>9. CountersWait(Waits)' /\ ResultsWait(Waits)'
  <2>1. CountersWait(Waits) /\ ResultsWait(Waits)
    BY InvParts
  <2>2. CountersWait(Waits')
    BY <2>1, <1>5 DEF CountersWait
  <2>3. ResultsWait(Waits')
    BY <2>1, <1>5 DEF ResultsWait
  <2>. QED  BY <2>2, <2>3, <1>1 DEF CountersWait, ResultsWait
<1>10. AllWitnessed'
  <2>1. ASSUME NEW e \in Waits PROVE Witnessed(e)'
    <3>1. Witnessed(e)
      BY InvParts DEF AllWitnessed, Waits
    <3>2. e.uptime \in Nat
      BY EventCounts
    <3>3. NeverWraps /\ e.kind = "counters" /\ e.boot = dev.boot /\ e.boot = 1 => e.uptime <= mgr'.uptime
      BY <3>1, <3>2, <1>1, <1>2, <1>6 DEF Witnessed
    <3>. QED  BY <3>1, <3>3, <1>1 DEF Witnessed
  <2>2. ASSUME NEW e, e = f PROVE Witnessed(e)'
    <3>1. e.keg <= keg
      BY <2>2, <1>2, <1>4, TypeFacts, CountAssumption DEF Kegs
    <3>. QED  BY <2>2, <3>1, <1>1, <1>2, <1>4 DEF Witnessed
  <2>. QED  BY <2>1, <2>2, <1>5 DEF AllWitnessed, Waits
<1>11. ManagerFollows'
  <2>1. dev.boot = 1 /\ NeverWraps => mgr'.uptime <= dev.uptime
    BY <1>6
  <2>. QED  BY <2>1, <1>1, <1>2, <1>3 DEF ManagerFollows
<1>12. FirstBootRises'
  <2>. SUFFICES ASSUME dev.boot = 1 PROVE FirstBootRises'
    BY <1>1 DEF FirstBootRises
  <2>. DEFINE cp == db.checkpoints[1]
  <2>1. cp.uptime \in Nat
    BY <1>2, TypeFacts, CountAssumption DEF Boots
  <2>2. NeverWraps => cp.uptime <= mgr'.uptime
    <3>. SUFFICES ASSUME NeverWraps PROVE cp.uptime <= mgr'.uptime
      OBVIOUS
    <3>1. CASE mgr'.uptime = mgr.uptime /\ mgr.boot # 0
      <4>1. mgr.boot = 1
        BY <3>1, <1>2, <1>3 DEF ManagerFollows
      <4>. QED  BY <3>1, <4>1, <1>3 DEF FirstBootRises
    <3>2. CASE mgr'.uptime = dev.uptime % UptimeModulus
      <4>1. dev.uptime < UptimeModulus /\ UptimeModulus \in Nat
        BY <1>2, CountAssumption DEF NeverWraps
      <4>2. mgr'.uptime = dev.uptime
        BY <3>2, <4>1, <1>2
      <4>. QED  BY <4>2, <1>3 DEF FirstBootRises
    <3>. QED  BY <3>1, <3>2 DEF Known
  <2>3. \A e \in Waits' : e.kind = "counters" => e \in Waits
    BY <1>4, <1>5
  <2>. QED  BY <2>2, <2>3, <1>1, <1>3 DEF FirstBootRises, Waits
<1>. QED  BY <1>5, <1>7, <1>8, <1>9, <1>10, <1>11, <1>12 DEF Inv, AllWitnessed, Waits

LEMMA StatusRecordedKeeps ==
  ASSUME Inv, RecordStatus(dev.boot), UNCHANGED <<seen, others>>
  PROVE  Inv'
<1>1. UNCHANGED <<dev, keg, retries, batch, db, diagnosed, seen>>
  BY DEF others
<1>2. dev.boot \in 0..MaxBoot /\ dev.uptime \in Nat /\ QueueCap \in Nat \ {0} /\ UptimeModulus \in Nat \ {0}
  BY InvParts, TypeFacts, CountAssumption DEF Boots
<1>3. mgr \in [connected : BOOLEAN, boot : 0..MaxBoot, sent : Reading \cup {<< >>}, uptime : Nat]
  BY InvParts DEF TypeOK
<1>4. dev.uptime % UptimeModulus \in Nat
  BY <1>2
<1>5. CASE HasRoom
  <2>1. /\ events' = Append(events, StatusOf(dev.boot))
        /\ mgr' = [mgr EXCEPT !.connected = TRUE, !.boot = dev.boot,
                              !.uptime = dev.uptime % UptimeModulus]
    BY <1>5 DEF RecordStatus
  <2>2. mgr' \in [connected : BOOLEAN, boot : 0..MaxBoot, sent : Reading \cup {<< >>}, uptime : Nat]
    BY <2>1, <1>2, <1>3, <1>4
  <2>3. Known
    BY <2>1, <1>1, <1>3, <1>5 DEF Known
  <2>. QED  BY <2>2, <2>3, KnownKeeps
<1>6. CASE ~HasRoom
  <2>1. mgr' = [mgr EXCEPT !.connected = TRUE, !.boot = dev.boot] /\ events' = events
    BY <1>6 DEF RecordStatus
  <2>2. mgr' \in [connected : BOOLEAN, boot : 0..MaxBoot, sent : Reading \cup {<< >>}, uptime : Nat]
    BY <2>1, <1>2, <1>3
  <2>3. mgr.boot # 0
    <3>1. Len(<< >>) = 0
      OBVIOUS
    <3>2. events # << >>
      BY <3>1, <1>2, <1>6 DEF HasRoom
    <3>. QED  BY <3>2, InvParts DEF ManagerFollows
  <2>4. Known
    BY <2>1, <2>3, <1>1, <1>3 DEF Known
  <2>. QED  BY <2>2, <2>4, KnownKeeps
<1>. QED  BY <1>5, <1>6

(* What is observed for the first time is seen with the open keg. *)
SeenMore ==
  /\ \A b \in Boots : \A p \in 1..MaxRecovery :
       \/ seen'.counters[b][p] = seen.counters[b][p]
       \/ seen.counters[b][p] = NoKeg /\ seen'.counters[b][p] = keg
  /\ \A b \in Boots : \A s \in 1..MaxSeq :
       \/ seen'.results[b][s] = seen.results[b][s]
       \/ seen.results[b][s] = NoKeg /\ seen'.results[b][s] = keg

LEMMA SeenMoreKeeps ==
  ASSUME Inv, SeenMore, UNCHANGED <<dev, keg, db, diagnosed>>, mgr'.uptime = mgr.uptime
  PROVE  /\ MeasurementsKeepTheirKeg' /\ RecoveredOnce' /\ \A e \in Waits : Witnessed(e)'
         /\ \A b \in Boots : /\ \A p \in 1..MaxRecovery : seen'.counters[b][p] <= keg
                             /\ \A s \in 1..MaxSeq : seen'.results[b][s] <= keg
<1>1. TypeOK /\ keg \in Nat /\ keg # NoKeg
  BY InvParts, TypeFacts, CountAssumption DEF Kegs, NoKeg
<1>2. \A k \in Kegs : k # NoKeg
  BY CountAssumption DEF Kegs, NoKeg
<1>3. MeasurementsKeepTheirKeg'
  <2>1. RecoveredPulsesKeepTheirKeg /\ ResultsKeepTheirKeg
    BY InvParts DEF MeasurementsKeepTheirKeg
  <2>2. RecoveredPulsesKeepTheirKeg'
    <3>. SUFFICES ASSUME diagnosed = {}, NEW r \in db.recovered, NEW p \in (r.from + 1)..r.to
                  PROVE  seen'.counters[r.boot][p] = r.keg
      BY DEF RecoveredPulsesKeepTheirKeg
    <3>1. r.boot \in Boots /\ r.from \in Nat /\ r.to \in Nat /\ r.keg \in Kegs
      BY <1>1 DEF TypeOK, Recovered
    <3>2. r.to <= db.checkpoints[r.boot].recovery
      BY <3>1, InvParts DEF RecoveredOnce
    <3>3. db.checkpoints[r.boot].recovery \in 0..MaxRecovery
      BY <3>1, <1>1, TypeFacts
    <3>4. p \in 1..MaxRecovery
      BY <3>1, <3>2, <3>3, CountAssumption
    <3>5. seen.counters[r.boot][p] = r.keg
      BY <2>1 DEF RecoveredPulsesKeepTheirKeg
    <3>. QED  BY <3>1, <3>4, <3>5, <1>2 DEF SeenMore
  <2>3. ResultsKeepTheirKeg'
    <3>. SUFFICES ASSUME "queue_full" \notin diagnosed, NEW row \in db.results
                  PROVE  seen'.results[row.boot][row.seq] = row.keg
      BY DEF ResultsKeepTheirKeg
    <3>1. row.boot \in Boots /\ row.seq \in 1..MaxSeq /\ row.keg \in Kegs
      BY <1>1 DEF TypeOK, ResultRow
    <3>2. seen.results[row.boot][row.seq] = row.keg
      BY <2>1 DEF ResultsKeepTheirKeg
    <3>. QED  BY <3>1, <3>2, <1>2 DEF SeenMore
  <2>. QED  BY <2>2, <2>3 DEF MeasurementsKeepTheirKeg
<1>4. RecoveredOnce'
  BY InvParts DEF RecoveredOnce
<1>5. ASSUME NEW e \in Waits PROVE Witnessed(e)'
  <2>1. Witnessed(e)
    BY InvParts DEF AllWitnessed, Waits
  <2>2. e.boot \in Boots /\ e.value \in Nat
    BY EventCounts
  <2>3. e.kind = "counters" /\ e.value > 0 =>
          /\ seen'.counters[e.boot][e.value] # NoKeg /\ seen'.counters[e.boot][e.value] <= e.keg
    <3>. SUFFICES ASSUME e.kind = "counters", e.value > 0
                  PROVE  seen'.counters[e.boot][e.value] = seen.counters[e.boot][e.value]
      BY <2>1 DEF Witnessed
    <3>1. e.value \in 1..MaxRecovery /\ seen.counters[e.boot][e.value] # NoKeg
      BY <2>1, <2>2, CountAssumption DEF Witnessed
    <3>. QED  BY <3>1, <2>2 DEF SeenMore
  <2>4. e.kind = "result" =>
          /\ seen'.results[e.boot][e.value] # NoKeg /\ seen'.results[e.boot][e.value] <= e.keg
    <3>. SUFFICES ASSUME e.kind = "result"
                  PROVE  seen'.results[e.boot][e.value] = seen.results[e.boot][e.value]
      BY <2>1 DEF Witnessed
    <3>1. e.value \in 1..MaxSeq /\ seen.results[e.boot][e.value] # NoKeg
      BY <2>1 DEF Witnessed
    <3>. QED  BY <3>1, <2>2 DEF SeenMore
  <2>. QED  BY <2>1, <2>3, <2>4 DEF Witnessed
<1>6. ASSUME NEW b \in Boots
      PROVE  /\ \A p \in 1..MaxRecovery : seen'.counters[b][p] <= keg
             /\ \A s \in 1..MaxSeq : seen'.results[b][s] <= keg
  <2>1. /\ \A p \in 1..MaxRecovery : seen.counters[b][p] <= keg
        /\ \A s \in 1..MaxSeq : seen.results[b][s] <= keg
    BY InvParts DEF KegsSeenInOrder
  <2>. QED  BY <2>1, <1>1 DEF SeenMore
<1>. QED  BY <1>3, <1>4, <1>5, <1>6

LEMMA FirstSeenFacts ==
  ASSUME TypeOK, NEW S, NEW owners \in [S -> Kegs \cup {NoKeg}], NEW kegs
  PROVE  /\ FirstSeen(owners, kegs) \in [S -> Kegs \cup {NoKeg}]
         /\ \A p \in S : FirstSeen(owners, kegs)[p] =
                           IF p \in kegs /\ owners[p] = NoKeg THEN keg ELSE owners[p]
<1>1. keg \in Kegs /\ DOMAIN owners = S
  BY TypeFacts
<1>. QED  BY <1>1 DEF FirstSeen

LEMMA CountersObserved ==
  ASSUME Inv, PollCounters
  PROVE  /\ HasRoom /\ events' = Append(events, CounterNow) /\ UNCHANGED others
         /\ mgr'.connected = TRUE /\ mgr'.boot = mgr.boot /\ mgr'.uptime = mgr.uptime
         /\ mgr'.sent = ReadingNow /\ mgr.boot \in Boots
         /\ mgr' \in [connected : BOOLEAN, boot : 0..MaxBoot, sent : Reading \cup {<< >>},
                      uptime : Nat]
         /\ CounterNow \in Event /\ CounterNow.kind = "counters" /\ CounterNow.boot = mgr.boot
         /\ CounterNow.value = dev.recovery /\ CounterNow.accepted = dev.made + dev.recovery
         /\ CounterNow.uptime = mgr.uptime /\ CounterNow.keg = keg /\ ~CounterNow.tried
         /\ seen' \in [counters : [Boots -> [1..MaxRecovery -> Kegs \cup {NoKeg}]],
                       results : [Boots -> [1..MaxSeq -> Kegs \cup {NoKeg}]]]
         /\ seen'.results = seen.results
         /\ \A b \in Boots : b # mgr.boot => seen'.counters[b] = seen.counters[b]
         /\ \A p \in 1..MaxRecovery : seen'.counters[mgr.boot][p] =
              IF p \in 1..dev.recovery /\ seen.counters[mgr.boot][p] = NoKeg
              THEN keg ELSE seen.counters[mgr.boot][p]
<1>1. /\ mgr.connected /\ HasRoom /\ events' = Append(events, CounterNow) /\ UNCHANGED others
      /\ mgr' = [mgr EXCEPT !.sent = ReadingNow]
      /\ seen' = [seen EXCEPT !.counters[mgr.boot] = FirstSeen(@, 1..dev.recovery)]
  BY DEF PollCounters
<1>2. /\ TypeOK /\ dev.made \in Nat /\ dev.recovery \in Nat /\ keg \in Kegs
      /\ mgr.boot \in 0..MaxBoot /\ mgr.uptime \in Nat
  BY InvParts, TypeFacts, CountAssumption
<1>3. mgr.boot \in Boots
  <2>1. mgr.boot # 0
    BY <1>1, InvParts DEF ManagerFollows
  <2>. QED  BY <2>1, <1>2, CountAssumption DEF Boots
<1>4. dev.made + dev.recovery \in Nat
  BY <1>2
<1>5. ReadingNow \in Reading
  BY <1>2, <1>4 DEF ReadingNow, Reading, Accepted
<1>6. /\ mgr'.connected = TRUE /\ mgr'.boot = mgr.boot /\ mgr'.uptime = mgr.uptime
      /\ mgr'.sent = ReadingNow
      /\ mgr' \in [connected : BOOLEAN, boot : 0..MaxBoot, sent : Reading \cup {<< >>},
                   uptime : Nat]
  <2>1. mgr \in [connected : BOOLEAN, boot : 0..MaxBoot, sent : Reading \cup {<< >>}, uptime : Nat]
    BY <1>2 DEF TypeOK
  <2>. QED  BY <2>1, <1>1, <1>5
<1>7. Measured("counters", dev.recovery) \in Event
  BY <1>2, <1>3 DEF Measured, Event
<1>8. /\ CounterNow \in Event /\ CounterNow.kind = "counters" /\ CounterNow.boot = mgr.boot
      /\ CounterNow.value = dev.recovery /\ CounterNow.accepted = dev.made + dev.recovery
      /\ CounterNow.uptime = mgr.uptime /\ CounterNow.keg = keg /\ ~CounterNow.tried
  <2>. DEFINE m == Measured("counters", dev.recovery)
              made == dev.made + dev.recovery
              n == [m EXCEPT !.accepted = made]
  <2>1. CounterNow = [n EXCEPT !.uptime = mgr.uptime]
    BY DEF CounterNow, Accepted
  <2>2. /\ m.kind = "counters" /\ m.boot = mgr.boot /\ m.value = dev.recovery
        /\ m.keg = keg /\ m.tried = FALSE
    BY DEF Measured
  <2>. HIDE DEF m, made
  <2>3. /\ n \in Event /\ n.accepted = made /\ n.kind = m.kind /\ n.boot = m.boot
        /\ n.value = m.value /\ n.keg = m.keg /\ n.tried = m.tried
    BY <1>4, <1>7 DEF Event, m, made
  <2>. HIDE DEF n
  <2>4. /\ CounterNow \in Event /\ CounterNow.uptime = mgr.uptime
        /\ CounterNow.accepted = n.accepted /\ CounterNow.kind = n.kind
        /\ CounterNow.boot = n.boot /\ CounterNow.value = n.value
        /\ CounterNow.keg = n.keg /\ CounterNow.tried = n.tried
    BY <2>1, <2>3, <1>2 DEF Event
  <2>. QED  BY <2>2, <2>3, <2>4 DEF made
<1>. DEFINE owners == seen.counters[mgr.boot]
            first == FirstSeen(owners, 1..dev.recovery)
<1>9. /\ seen.counters \in [Boots -> [1..MaxRecovery -> Kegs \cup {NoKeg}]]
      /\ seen.results \in [Boots -> [1..MaxSeq -> Kegs \cup {NoKeg}]]
      /\ seen = [counters |-> seen.counters, results |-> seen.results]
  BY <1>2 DEF TypeOK
<1>10. owners \in [1..MaxRecovery -> Kegs \cup {NoKeg}]
  BY <1>3, <1>9
<1>11. /\ first \in [1..MaxRecovery -> Kegs \cup {NoKeg}]
       /\ \A p \in 1..MaxRecovery : first[p] =
            IF p \in 1..dev.recovery /\ owners[p] = NoKeg THEN keg ELSE owners[p]
  <2>. DEFINE S == 1..MaxRecovery
              kegs == 1..dev.recovery
  <2>1. owners \in [S -> Kegs \cup {NoKeg}]
    BY <1>10
  <2>. HIDE DEF owners, S, kegs
  <2>2. /\ FirstSeen(owners, kegs) \in [S -> Kegs \cup {NoKeg}]
        /\ \A p \in S : FirstSeen(owners, kegs)[p] =
                          IF p \in kegs /\ owners[p] = NoKeg THEN keg ELSE owners[p]
    BY <2>1, <1>2, FirstSeenFacts
  <2>. QED  BY <2>2 DEF S, kegs
<1>12. /\ seen'.counters = [seen.counters EXCEPT ![mgr.boot] = first]
       /\ seen'.results = seen.results
       /\ seen' = [counters |-> seen'.counters, results |-> seen'.results]
  BY <1>1, <1>9
<1>. HIDE DEF first, owners
<1>13. seen'.counters \in [Boots -> [1..MaxRecovery -> Kegs \cup {NoKeg}]]
       /\ seen'.counters[mgr.boot] = first
       /\ \A b \in Boots : b # mgr.boot => seen'.counters[b] = seen.counters[b]
  BY <1>3, <1>9, <1>11, <1>12
<1>14. seen' \in [counters : [Boots -> [1..MaxRecovery -> Kegs \cup {NoKeg}]],
                  results : [Boots -> [1..MaxSeq -> Kegs \cup {NoKeg}]]]
  BY <1>9, <1>12, <1>13
<1>15. \A p \in 1..MaxRecovery : seen'.counters[mgr.boot][p] =
         IF p \in 1..dev.recovery /\ seen.counters[mgr.boot][p] = NoKeg
         THEN keg ELSE seen.counters[mgr.boot][p]
  BY <1>11, <1>13 DEF owners
<1>. QED  BY <1>1, <1>3, <1>6, <1>8, <1>12, <1>13, <1>14, <1>15

LEMMA PollCountersKeeps ==
  ASSUME Inv, PollCounters
  PROVE  Inv'
<1>. DEFINE f == CounterNow
            c == mgr.boot
<1>1. /\ HasRoom /\ events' = Append(events, f) /\ c \in Boots
      /\ UNCHANGED <<dev, keg, retries, batch, db, diagnosed>>
      /\ mgr'.connected = TRUE /\ mgr'.boot = c /\ mgr'.uptime = mgr.uptime
      /\ mgr'.sent = ReadingNow
  BY CountersObserved DEF others
<1>2. /\ f \in Event /\ f.kind = "counters" /\ f.boot = c
      /\ f.value = dev.recovery /\ f.accepted = dev.made + dev.recovery
      /\ f.uptime = mgr.uptime /\ f.keg = keg /\ ~f.tried
  BY CountersObserved
<1>3. /\ seen'.results = seen.results
      /\ \A b \in Boots : b # c => seen'.counters[b] = seen.counters[b]
      /\ \A p \in 1..MaxRecovery : seen'.counters[c][p] =
           IF p \in 1..dev.recovery /\ seen.counters[c][p] = NoKeg
           THEN keg ELSE seen.counters[c][p]
  BY CountersObserved
<1>4. /\ TypeOK /\ QueueTypes /\ dev.boot \in Boots /\ dev.boot \in Nat
      /\ dev.made \in Nat /\ dev.recovery \in Nat /\ dev.recovery <= MaxRecovery
      /\ dev.uptime \in Nat /\ mgr.uptime \in Nat /\ keg \in Nat /\ keg # NoKeg /\ c \in Nat
  BY InvParts, TypeFacts, CountAssumption DEF Kegs, NoKeg
<1>. HIDE DEF f
<1>5. /\ c <= dev.boot /\ (c < dev.boot => dev.recovery = 0)
      /\ dev.boot = 1 => c = 1
  <2>1. c <= dev.boot /\ (c < dev.boot => dev.recovery = 0)
    BY InvParts DEF ManagerFollows, PollCounters
  <2>. QED  BY <2>1, <1>1, <1>4, CountAssumption DEF Boots
<1>6. /\ \A b \in Boots : \A p \in 1..MaxRecovery :
           /\ seen.counters[b][p] # NoKeg => seen'.counters[b][p] = seen.counters[b][p]
           /\ seen.counters[b][p] = NoKeg /\ ~(b = c /\ p <= dev.recovery) =>
                seen'.counters[b][p] = NoKeg
           /\ seen.counters[b][p] = NoKeg /\ b = c /\ p <= dev.recovery =>
                seen'.counters[b][p] = keg
  BY <1>3, <1>4
<1>7. SeenMore
  BY <1>3, <1>6 DEF SeenMore
<1>8. /\ MeasurementsKeepTheirKeg' /\ RecoveredOnce' /\ \A e \in Waits : Witnessed(e)'
      /\ \A b \in Boots : /\ \A p \in 1..MaxRecovery : seen'.counters[b][p] <= keg
                          /\ \A s \in 1..MaxSeq : seen'.results[b][s] <= keg
  BY <1>1, <1>7, SeenMoreKeeps
<1>9. ASSUME NEW x \in Waits PROVE Before(x, f, dev.boot)
  <2>1. Witnessed(x)
    BY InvParts DEF AllWitnessed, Waits
  <2>2. /\ x.boot \in Nat /\ x.value \in Nat /\ x.accepted \in Nat /\ x.uptime \in Nat
        /\ x.keg \in Nat
    BY EventCounts
  <2>3. x.keg <= f.keg
    BY <2>1, <1>2 DEF Witnessed
  <2>4. ASSUME InStream(x, f), Trusted(f, dev.boot)
        PROVE  x.value <= f.value /\ NoLess(x, f)
    <3>1. c = dev.boot
      BY <2>4, <1>2, <1>4, <1>5 DEF Trusted
    <3>2. x.kind = "counters" /\ x.boot = dev.boot
      BY <2>4, <3>1, <1>2 DEF InStream
    <3>3. x.value <= f.value
      BY <2>1, <3>2, <1>2 DEF Witnessed
    <3>4. x.accepted + f.value <= f.accepted + x.value
      BY <2>1, <2>2, <3>2, <1>2, <1>4 DEF Witnessed
    <3>5. NeverWraps /\ x.boot = 1 => x.uptime <= f.uptime
      BY <2>1, <3>2, <1>2 DEF Witnessed
    <3>. QED  BY <2>3, <3>3, <3>4, <3>5 DEF NoLess
  <2>. QED  BY <2>3, <2>4 DEF Before
<1>10. /\ QueueTypes' /\ QueuesInOrder(retries, batch, events, dev.boot)'
       /\ Waits' = Waits \cup {f}
  BY <1>1, <1>2, <1>9, EventQueued
<1>11. TypeOK'
  <2>1. /\ events' \in Seq(Event) /\ Len(events') <= QueueCap
        /\ retries' \in Seq(Event) /\ Len(retries') <= RetryCap
        /\ batch' \in Seq(Event)
    BY <1>10 DEF QueueTypes
  <2>2. /\ mgr' \in [connected : BOOLEAN, boot : 0..MaxBoot, sent : Reading \cup {<< >>},
                     uptime : Nat]
        /\ seen' \in [counters : [Boots -> [1..MaxRecovery -> Kegs \cup {NoKeg}]],
                      results : [Boots -> [1..MaxSeq -> Kegs \cup {NoKeg}]]]
    BY CountersObserved
  <2>. QED  BY <2>1, <2>2, <1>1, <1>4 DEF TypeOK
<1>12. KegsSeenInOrder'
  <2>1. KegsSeenInOrder
    BY InvParts
  <2>2. ASSUME NEW b \in Boots, NEW p \in 1..MaxRecovery, NEW q \in 1..MaxRecovery,
               p < q, seen'.counters[b][q] # NoKeg
        PROVE  seen'.counters[b][p] # NoKeg /\ seen'.counters[b][p] <= seen'.counters[b][q]
    <3>1. CASE seen.counters[b][q] # NoKeg
      <4>1. seen.counters[b][p] # NoKeg /\ seen.counters[b][p] <= seen.counters[b][q]
        BY <2>1, <2>2, <3>1 DEF KegsSeenInOrder
      <4>. QED  BY <4>1, <3>1, <1>6
    <3>2. CASE seen.counters[b][q] = NoKeg
      <4>1. b = c /\ q <= dev.recovery /\ seen'.counters[b][q] = keg
        BY <2>2, <3>2, <1>6
      <4>2. p <= dev.recovery
        BY <2>2, <4>1, <1>4
      <4>3. seen'.counters[b][p] # NoKeg
        BY <4>1, <4>2, <1>4, <1>6
      <4>. QED  BY <4>1, <4>3, <1>8
    <3>. QED  BY <3>1, <3>2
  <2>. QED  BY <2>2, <1>1, <1>8 DEF KegsSeenInOrder
<1>13. AllWitnessed'
  <2>1. ASSUME NEW e, e = f PROVE Witnessed(e)'
    <3>1. e.value > 0 => /\ e.value <= MaxRecovery /\ seen'.counters[e.boot][e.value] # NoKeg
                         /\ seen'.counters[e.boot][e.value] <= e.keg
      <4>. SUFFICES ASSUME e.value > 0
                    PROVE  /\ e.value <= MaxRecovery /\ seen'.counters[e.boot][e.value] # NoKeg
                           /\ seen'.counters[e.boot][e.value] <= e.keg
        OBVIOUS
      <4>1. e.value \in 1..MaxRecovery /\ e.value = dev.recovery /\ e.boot = c /\ e.keg = keg
        BY <2>1, <1>2, <1>4, CountAssumption
      <4>2. seen'.counters[e.boot][e.value] # NoKeg
        <5>1. e.boot \in Boots /\ e.value <= dev.recovery
          BY <4>1, <1>1, <1>4
        <5>2. CASE seen.counters[e.boot][e.value] = NoKeg
          BY <5>1, <5>2, <4>1, <1>4, <1>6
        <5>3. CASE seen.counters[e.boot][e.value] # NoKeg
          BY <5>1, <5>3, <4>1, <1>6
        <5>. QED  BY <5>2, <5>3
      <4>. QED  BY <4>1, <4>2, <1>1, <1>8
    <3>2. e.accepted <= dev.made + e.value
      BY <2>1, <1>2, <1>4
    <3>. QED  BY <2>1, <3>1, <3>2, <1>1, <1>2, <1>4, <1>5 DEF Witnessed
  <2>. QED  BY <2>1, <1>8, <1>10 DEF AllWitnessed, Waits
<1>14. CountersWait(Waits)'
  <2>. SUFFICES ASSUME diagnosed = {}, NEW b \in Boots, NEW p \in 1..MaxRecovery,
                       seen'.counters[b][p] # NoKeg, p > db.checkpoints[b].recovery
                PROVE  \E y \in Waits' : /\ y.kind = "counters" /\ y.boot = b
                                         /\ y.value >= p /\ y.keg = seen'.counters[b][p]
    BY <1>1 DEF CountersWait
  <2>1. CASE seen.counters[b][p] # NoKeg
    <3>1. PICK w \in Waits : /\ w.kind = "counters" /\ w.boot = b
                             /\ w.value >= p /\ w.keg = seen.counters[b][p]
      BY <2>1, InvParts DEF CountersWait
    <3>. QED  BY <2>1, <3>1, <1>6, <1>10
  <2>2. CASE seen.counters[b][p] = NoKeg
    <3>1. b = c /\ p <= dev.recovery /\ seen'.counters[b][p] = keg
      BY <2>2, <1>6
    <3>2. f.value >= p
      BY <3>1, <1>2, <1>4
    <3>. QED  BY <3>1, <3>2, <1>2, <1>10
  <2>. QED  BY <2>1, <2>2
<1>15. ResultsWait(Waits)'
  <2>1. ResultsWait(Waits)
    BY InvParts
  <2>2. ResultsWait(Waits')
    BY <2>1, <1>10 DEF ResultsWait
  <2>. QED  BY <2>2, <1>1, <1>3 DEF ResultsWait
<1>16. ManagerFollows'
  <2>1. ManagerFollows
    BY InvParts
  <2>2. mgr'.sent.recovery = dev.recovery
    BY <1>1 DEF ReadingNow
  <2>3. dev.boot = 1 => \A p \in 1..dev.recovery : seen'.counters[1][p] # NoKeg
    <3>. SUFFICES ASSUME dev.boot = 1, NEW p \in 1..dev.recovery PROVE seen'.counters[1][p] # NoKeg
      OBVIOUS
    <3>1. c = 1 /\ 1 \in Boots /\ p \in 1..MaxRecovery /\ p <= dev.recovery
      BY <1>1, <1>4, <1>5, CountAssumption
    <3>. QED  BY <3>1, <1>4, <1>6
  <2>4. c # 0
    BY <1>1, CountAssumption DEF Boots
  <2>. QED  BY <2>1, <2>2, <2>3, <2>4, <1>1, <1>4, <1>5 DEF ManagerFollows
<1>17. FirstBootRises'
  <2>. SUFFICES ASSUME dev.boot = 1 PROVE FirstBootRises'
    BY <1>1 DEF FirstBootRises
  <2>. DEFINE cp == db.checkpoints[1]
  <2>1. FirstBootRises
    BY InvParts
  <2>2. c = 1 /\ cp.recovery \in Nat /\ cp.accepted \in Nat /\ cp.uptime \in Nat
    <3>1. c = 1 /\ 1 \in Boots
      BY <1>1, <1>5
    <3>. QED  BY <3>1, <1>4, TypeFacts, CountAssumption
  <2>3. /\ cp.recovery <= f.value /\ cp.accepted + f.value <= f.accepted + cp.recovery
        /\ NeverWraps => cp.uptime <= f.uptime
    BY <2>1, <2>2, <1>2, <1>4 DEF FirstBootRises
  <2>. QED  BY <2>1, <2>2, <2>3, <1>1, <1>10 DEF FirstBootRises, Waits
<1>. QED  BY <1>8, <1>10, <1>11, <1>12, <1>13, <1>14, <1>15, <1>16, <1>17
          DEF Inv, AllWitnessed, Waits

ResultQueued(s) ==
  /\ mgr.connected /\ mgr.boot = dev.boot /\ HasRoom
  /\ events' = Append(events, Measured("result", s))
  /\ seen' = [seen EXCEPT !.results[mgr.boot] = FirstSeen(@, {s})]
  /\ UNCHANGED mgr /\ UNCHANGED others

LEMMA ResultObserved ==
  ASSUME Inv, NEW s \in dev.retained, ResultQueued(s)
  PROVE  Inv'
<1>. DEFINE f == Measured("result", s)
            c == mgr.boot
            owners == seen.results[c]
            first == FirstSeen(owners, {s})
<1>1. /\ UNCHANGED <<dev, keg, retries, batch, db, diagnosed>> /\ mgr' = mgr
      /\ HasRoom /\ events' = Append(events, f) /\ c = dev.boot
  BY DEF ResultQueued, others
<1>2. /\ TypeOK /\ c \in Boots /\ dev.boot \in Nat /\ s \in 1..MaxSeq /\ s \in Nat
      /\ keg \in Kegs /\ keg \in Nat /\ keg # NoKeg
  BY SMTT(40), <1>1, InvParts, TypeFacts, CountAssumption DEF Kegs, NoKeg
<1>3. /\ f \in Event /\ f.kind = "result" /\ f.boot = c /\ f.value = s /\ f.keg = keg /\ ~f.tried
  BY <1>2 DEF Measured, Event
<1>4. /\ seen.counters \in [Boots -> [1..MaxRecovery -> Kegs \cup {NoKeg}]]
      /\ seen.results \in [Boots -> [1..MaxSeq -> Kegs \cup {NoKeg}]]
      /\ seen = [counters |-> seen.counters, results |-> seen.results]
  BY <1>2 DEF TypeOK
<1>5. owners \in [1..MaxSeq -> Kegs \cup {NoKeg}]
  BY <1>2, <1>4
<1>6. /\ first \in [1..MaxSeq -> Kegs \cup {NoKeg}]
      /\ \A q \in 1..MaxSeq : first[q] = IF q = s /\ owners[q] = NoKeg THEN keg ELSE owners[q]
  <2>. DEFINE S == 1..MaxSeq
              one == {s}
  <2>1. owners \in [S -> Kegs \cup {NoKeg}]
    BY <1>5
  <2>. HIDE DEF owners, S, one
  <2>2. /\ FirstSeen(owners, one) \in [S -> Kegs \cup {NoKeg}]
        /\ \A q \in S : FirstSeen(owners, one)[q] =
                          IF q \in one /\ owners[q] = NoKeg THEN keg ELSE owners[q]
    BY <2>1, <1>2, FirstSeenFacts
  <2>. QED  BY <2>2 DEF S, one
<1>7. /\ seen'.results = [seen.results EXCEPT ![c] = first]
      /\ seen'.counters = seen.counters
      /\ seen' = [counters |-> seen'.counters, results |-> seen'.results]
  BY <1>4 DEF ResultQueued
<1>. HIDE DEF f, first
<1>8. /\ seen'.results \in [Boots -> [1..MaxSeq -> Kegs \cup {NoKeg}]]
      /\ seen'.results[c] = first
      /\ \A b \in Boots : b # c => seen'.results[b] = seen.results[b]
  BY <1>2, <1>4, <1>6, <1>7
<1>9. seen' \in [counters : [Boots -> [1..MaxRecovery -> Kegs \cup {NoKeg}]],
                 results : [Boots -> [1..MaxSeq -> Kegs \cup {NoKeg}]]]
  BY <1>4, <1>7, <1>8
<1>10. \A b \in Boots : \A q \in 1..MaxSeq :
         /\ seen.results[b][q] # NoKeg => seen'.results[b][q] = seen.results[b][q]
         /\ seen.results[b][q] = NoKeg /\ ~(b = c /\ q = s) => seen'.results[b][q] = NoKeg
         /\ seen.results[b][q] = NoKeg /\ b = c /\ q = s => seen'.results[b][q] = keg
  BY <1>6, <1>8
<1>11. SeenMore
  BY <1>7, <1>10 DEF SeenMore
<1>12. /\ MeasurementsKeepTheirKeg' /\ RecoveredOnce' /\ \A e \in Waits : Witnessed(e)'
       /\ \A b \in Boots : /\ \A p \in 1..MaxRecovery : seen'.counters[b][p] <= keg
                           /\ \A q \in 1..MaxSeq : seen'.results[b][q] <= keg
  BY <1>1, <1>11, SeenMoreKeeps
<1>13. ASSUME NEW x \in Waits PROVE Before(x, f, dev.boot)
  <2>1. x.keg <= keg
    BY InvParts DEF AllWitnessed, Waits, Witnessed
  <2>. QED  BY <2>1, <1>3 DEF Before, InStream
<1>14. /\ QueueTypes' /\ QueuesInOrder(retries, batch, events, dev.boot)'
       /\ Waits' = Waits \cup {f}
  BY <1>1, <1>3, <1>13, EventQueued
<1>15. TypeOK'
  <2>1. /\ events' \in Seq(Event) /\ Len(events') <= QueueCap
        /\ retries' \in Seq(Event) /\ Len(retries') <= RetryCap
        /\ batch' \in Seq(Event)
    BY <1>14 DEF QueueTypes
  <2>. QED  BY <2>1, <1>1, <1>2, <1>9 DEF TypeOK
<1>16. KegsSeenInOrder'
  <2>1. KegsSeenInOrder
    BY InvParts
  <2>. QED  BY <2>1, <1>1, <1>7, <1>12 DEF KegsSeenInOrder
<1>17. AllWitnessed'
  <2>1. ASSUME NEW e, e = f PROVE Witnessed(e)'
    <3>1. seen'.results[e.boot][e.value] # NoKeg /\ seen'.results[e.boot][e.value] <= e.keg
      <4>1. e.boot = c /\ e.value = s /\ e.keg = keg
        BY <2>1, <1>3
      <4>2. seen'.results[c][s] # NoKeg
        <5>1. CASE seen.results[c][s] = NoKeg
          BY <5>1, <1>2, <1>10
        <5>2. CASE seen.results[c][s] # NoKeg
          BY <5>2, <1>2, <1>10
        <5>. QED  BY <5>1, <5>2
      <4>. QED  BY <4>1, <4>2, <1>2, <1>12
    <3>. QED  BY <2>1, <3>1, <1>1, <1>2, <1>3 DEF Witnessed
  <2>. QED  BY <2>1, <1>12, <1>14 DEF AllWitnessed, Waits
<1>18. CountersWait(Waits)'
  <2>1. CountersWait(Waits)
    BY InvParts
  <2>2. CountersWait(Waits')
    BY <2>1, <1>14 DEF CountersWait
  <2>. QED  BY <2>2, <1>1, <1>7 DEF CountersWait
<1>19. ResultsWait(Waits)'
  <2>. SUFFICES ASSUME "queue_full" \notin diagnosed, NEW b \in Boots, NEW q \in 1..MaxSeq,
                       seen'.results[b][q] # NoKeg,
                       \A row \in db.results : row.boot = b => row.seq # q
                PROVE  \E y \in Waits' : /\ y.kind = "result" /\ y.boot = b /\ y.value = q
                                         /\ y.keg = seen'.results[b][q]
    BY <1>1 DEF ResultsWait
  <2>1. CASE seen.results[b][q] # NoKeg
    <3>1. PICK w \in Waits : /\ w.kind = "result" /\ w.boot = b /\ w.value = q
                             /\ w.keg = seen.results[b][q]
      BY <2>1, InvParts DEF ResultsWait
    <3>. QED  BY <2>1, <3>1, <1>10, <1>14
  <2>2. CASE seen.results[b][q] = NoKeg
    <3>1. b = c /\ q = s /\ seen'.results[b][q] = keg
      BY <2>2, <1>10
    <3>. QED  BY <3>1, <1>3, <1>14
  <2>. QED  BY <2>1, <2>2
<1>20. ManagerFollows'
  <2>1. ManagerFollows
    BY InvParts
  <2>2. mgr.boot # 0
    BY <1>2, CountAssumption DEF Boots
  <2>. QED  BY <2>1, <2>2, <1>1, <1>7 DEF ManagerFollows
<1>21. FirstBootRises'
  <2>1. FirstBootRises
    BY InvParts
  <2>. QED  BY <2>1, <1>1, <1>3, <1>14 DEF FirstBootRises, Waits
<1>. QED  BY <1>12, <1>14, <1>15, <1>16, <1>17, <1>18, <1>19, <1>20, <1>21
          DEF Inv, AllWitnessed, Waits

LEMMA ManagerKeeps ==
  ASSUME Inv, Manager
  PROVE  Inv'
<1>1. CASE Connect
  BY <1>1, StatusRecordedKeeps DEF Connect
<1>2. CASE LinkLost
  BY <1>2, LinkDownKeeps DEF LinkLost
<1>3. CASE PollStatus
  <2>1. CASE dev.boot # mgr.boot
    BY <1>3, <2>1, LinkDownKeeps DEF PollStatus
  <2>2. CASE dev.boot = mgr.boot
    BY <1>3, <2>2, StatusRecordedKeeps DEF PollStatus
  <2>. QED  BY <2>1, <2>2
<1>4. CASE PollCounters
  BY <1>4, PollCountersKeeps
<1>5. CASE PollResult
  <2>1. mgr.connected /\ UNCHANGED others
    BY <1>5 DEF PollResult
  <2>2. PICK s \in dev.retained :
          IF dev.boot # mgr.boot
          THEN /\ mgr' = [mgr EXCEPT !.connected = FALSE]
               /\ UNCHANGED <<events, seen>>
          ELSE /\ HasRoom
               /\ events' = Append(events, Measured("result", s))
               /\ seen' = [seen EXCEPT !.results[mgr.boot] = FirstSeen(@, {s})]
               /\ UNCHANGED mgr
    BY <1>5 DEF PollResult
  <2>3. CASE dev.boot # mgr.boot
    BY <2>1, <2>2, <2>3, LinkDownKeeps
  <2>4. CASE dev.boot = mgr.boot
    <3>1. ResultQueued(s)
      BY <2>1, <2>2, <2>4 DEF ResultQueued
    <3>. QED  BY <3>1, ResultObserved
  <2>. QED  BY <2>3, <2>4
<1>. QED  BY <1>1, <1>2, <1>3, <1>4, <1>5 DEF Manager
-------------------------------------------------------------------------------
(***************************************************************************)
(* The specification.                                                      *)
(***************************************************************************)
LEMMA InitIsCorrect ==
  ASSUME Init
  PROVE  Inv
<1>1. /\ dev = NewDevice(1) /\ keg = 1 /\ mgr = NoManager
      /\ events = << >> /\ retries = << >> /\ batch = << >> /\ diagnosed = {}
      /\ db = [checkpoints |-> [b \in Boots |-> NoCheckpoint], recovered |-> {}, results |-> {}]
      /\ seen = [counters |-> [b \in Boots |-> [p \in 1..MaxRecovery |-> NoKeg]],
                 results |-> [b \in Boots |-> [s \in 1..MaxSeq |-> NoKeg]]]
  BY DEF Init
<1>2. /\ dev.boot = 1 /\ dev.made = 0 /\ dev.recovery = 0 /\ dev.uptime = 0
      /\ mgr.connected = FALSE /\ mgr.boot = 0 /\ mgr.sent = << >> /\ mgr.uptime = 0
  BY <1>1 DEF NewDevice, NoManager
<1>3. /\ \A b \in Boots : /\ db.checkpoints[b].recovery = 0 /\ db.checkpoints[b].accepted = 0
                          /\ db.checkpoints[b].uptime = 0
      /\ db.recovered = {} /\ db.results = {}
  BY <1>1 DEF NoCheckpoint
<1>4. /\ \A b \in Boots : \A p \in 1..MaxRecovery : seen.counters[b][p] = NoKeg
      /\ \A b \in Boots : \A s \in 1..MaxSeq : seen.results[b][s] = NoKeg
  BY <1>1
<1>5. 1 \in Boots /\ 1 \in Kegs /\ 0 \in 0..MaxSeq /\ 0 \in 0..MaxRecovery /\ 0 \in 0..MaxUptime
      /\ 0 \in 0..MaxBoot /\ QueueCap \in Nat /\ RetryCap \in Nat
  BY CountAssumption DEF Boots, Kegs
<1>6. TypeOK
  <2>1. NewDevice(1) \in TypeOfDevice
    BY <1>5 DEF NewDevice, TypeOfDevice
  <2>2. NoManager \in [connected : BOOLEAN, boot : 0..MaxBoot, sent : Reading \cup {<< >>},
                       uptime : Nat]
    BY <1>5 DEF NoManager
  <2>3. NoCheckpoint \in Checkpoint
    BY <1>5 DEF NoCheckpoint, Checkpoint
  <2>4. db \in [checkpoints : [Boots -> Checkpoint], recovered : SUBSET Recovered,
                results : SUBSET ResultRow]
    BY <2>3, <1>1
  <2>5. seen \in [counters : [Boots -> [1..MaxRecovery -> Kegs \cup {NoKeg}]],
                  results : [Boots -> [1..MaxSeq -> Kegs \cup {NoKeg}]]]
    BY <1>1
  <2>6. << >> \in Seq(Event) /\ Len(<< >>) = 0
    OBVIOUS
  <2>. QED  BY <2>1, <2>2, <2>4, <2>5, <2>6, <1>1, <1>5 DEF TypeOK, TypeOfDevice
<1>7. Waits = {} /\ QueuesInOrder(retries, batch, events, dev.boot)
  BY <1>1, NothingWaits DEF Waits
<1>8. RecoveredOnce
  BY <1>3 DEF RecoveredOnce
<1>9. KegsSeenInOrder
  BY <1>1, <1>4 DEF KegsSeenInOrder, NoKeg
<1>10. CountersWait(Waits) /\ ResultsWait(Waits)
  BY <1>4 DEF CountersWait, ResultsWait
<1>11. AllWitnessed
  BY <1>7 DEF AllWitnessed, Waits
<1>12. ManagerFollows
  BY <1>1, <1>2 DEF ManagerFollows
<1>13. FirstBootRises
  BY <1>1, <1>2, <1>3, <1>5, <1>7 DEF FirstBootRises, Waits
<1>14. MeasurementsKeepTheirKeg
  BY <1>3 DEF MeasurementsKeepTheirKeg, RecoveredPulsesKeepTheirKeg, ResultsKeepTheirKeg
<1>. QED  BY <1>6, <1>7, <1>8, <1>9, <1>10, <1>11, <1>12, <1>13, <1>14, InvParts

LEMMA StepKeepsInv ==
  ASSUME Inv, [Next]_vars
  PROVE  Inv'
<1>1. CASE ResultEnds \/ RecoveryPulse \/ TimePasses \/ ReplaceKeg
  BY <1>1, CountsOnAlwaysKeeps
<1>2. CASE DeviceReset
  BY <1>2, DeviceResetKeeps
<1>3. CASE Manager
  BY <1>3, ManagerKeeps
<1>4. CASE StartPass \/ Defer \/ StorageFails
  BY <1>4, StartPassKeeps, DeferKeeps, StorageFailsKeeps
<1>5. CASE CheckpointCounter \/ CommitResult \/ ProcessStatus
  BY <1>5, CheckpointCounterKeeps, CommitResultKeeps, ProcessStatusKeeps
<1>6. CASE HostCrash
  BY <1>6, HostCrashKeeps
<1>7. CASE UNCHANGED vars
  <2>1. UNCHANGED <<dev, keg, mgr, events, retries, batch, db, diagnosed, seen>>
    BY <1>7 DEF vars
  <2>2. Waits' = Waits
    BY <2>1 DEF Waits
  <2>3. /\ TypeOK /\ RecoveredOnce /\ QueuesInOrder(retries, batch, events, dev.boot)
        /\ KegsSeenInOrder /\ AllWitnessed /\ CountersWait(Waits) /\ ResultsWait(Waits)
        /\ ManagerFollows /\ FirstBootRises /\ MeasurementsKeepTheirKeg
    BY InvParts
  <2>4. TypeOK' /\ RecoveredOnce' /\ MeasurementsKeepTheirKeg'
    BY <2>1, <2>3 DEF TypeOK, RecoveredOnce, MeasurementsKeepTheirKeg,
       RecoveredPulsesKeepTheirKeg, ResultsKeepTheirKeg
  <2>5. QueuesInOrder(retries, batch, events, dev.boot)'
    BY <2>1, <2>3
  <2>6. KegsSeenInOrder' /\ ManagerFollows' /\ FirstBootRises'
    BY <2>1, <2>3 DEF KegsSeenInOrder, ManagerFollows, FirstBootRises
  <2>7. CountersWait(Waits)' /\ ResultsWait(Waits)'
    BY <2>1, <2>2, <2>3 DEF CountersWait, ResultsWait
  <2>8. AllWitnessed'
    BY <2>1, <2>2, <2>3 DEF AllWitnessed, Waits, Witnessed
  <2>. QED  BY <2>4, <2>5, <2>6, <2>7, <2>8 DEF Inv, AllWitnessed, Waits
<1>. QED  BY <1>1, <1>2, <1>3, <1>4, <1>5, <1>6, <1>7 DEF Next, Device, Coordinator

(* What waits for the database is in order, known and complete, through    *)
(* polls, retries, failed transactions, resets and crashes.                *)
THEOREM QueueInvariant == Spec => []Inv
<1>1. Init => Inv
  BY InitIsCorrect
<1>2. Inv /\ [Next]_vars => Inv'
  BY StepKeepsInv
<1>. QED  BY <1>1, <1>2, PTL DEF Spec

(* No measurement is charged to another keg than the one that was open     *)
(* when it was first observed, unless one was given up and reported.       *)
THEOREM MeasurementsAlwaysKeepTheirKeg == Spec => []MeasurementsKeepTheirKeg
<1>1. Inv => MeasurementsKeepTheirKeg
  BY InvParts
<1>. QED  BY <1>1, QueueInvariant, PTL

(* Every recovered pulse up to the checkpoint is charged exactly once.     *)
THEOREM RecoveredAlwaysOnce == Spec => []RecoveredOnce
<1>1. Inv => RecoveredOnce
  BY InvParts
<1>. QED  BY <1>1, QueueInvariant, PTL

LEMMA KnownSnapshotWaits == Inv => NoSnapshotForgotten
<1>. SUFFICES ASSUME Inv, dev.boot = 1, mgr.sent # << >>, diagnosed = {},
                     ~(db.checkpoints[1].recovery >= mgr.sent.recovery)
              PROVE  \E e \in Waits : e.kind = "counters" /\ e.value >= mgr.sent.recovery
  <2>1. Inv => retries \in Seq(Event) /\ batch \in Seq(Event) /\ events \in Seq(Event)
    BY InvParts, TypeFacts DEF QueueTypes
  <2>2. Inv => Waits = {events[i] : i \in DOMAIN events} \cup {batch[i] : i \in DOMAIN batch}
                         \cup {retries[i] : i \in DOMAIN retries}
    BY <2>1 DEF Waits, Waiting, Entries
  <2>. QED  BY <2>2 DEF NoSnapshotForgotten
<1>. DEFINE p == mgr.sent.recovery
<1>1. p \in Nat
  BY InvParts DEF TypeOK, Reading
<1>2. 1 \in Boots /\ db.checkpoints[1].recovery \in Nat /\ dev.recovery \in 0..MaxRecovery
  <2>1. 1 \in Boots
    BY CountAssumption DEF Boots
  <2>. QED  BY <2>1, InvParts, TypeFacts, CountAssumption
<1>3. p > db.checkpoints[1].recovery /\ p > 0
  BY <1>1, <1>2
<1>4. p <= dev.recovery /\ \A q \in 1..p : seen.counters[1][q] # NoKeg
  BY InvParts DEF ManagerFollows
<1>5. p \in 1..MaxRecovery /\ p \in 1..p
  BY <1>1, <1>2, <1>3, <1>4, CountAssumption
<1>6. seen.counters[1][p] # NoKeg
  BY <1>4, <1>5
<1>7. CountersWait(Waits)
  BY InvParts
<1>. HIDE DEF p
<1>8. \E e \in Waits : e.kind = "counters" /\ e.value >= p
  BY <1>2, <1>3, <1>5, <1>6, <1>7 DEF CountersWait
<1>. QED  BY <1>8 DEF p

(* A snapshot the manager will not queue again is checkpointed, waits, or  *)
(* its loss is reported.                                                   *)
THEOREM NoSnapshotEverForgotten == Spec => []NoSnapshotForgotten
BY QueueInvariant, KnownSnapshotWaits, PTL

(* In a first boot that is shorter than half the range of the uptime, no   *)
(* counter of the controller is taken for a corrupt one.                   *)
THEOREM NoCounterEverQuarantined ==
  ASSUME NeverWraps
  PROVE  Spec => []NoCounterQuarantined
<1>1. Inv => NoCounterQuarantined
  BY InvParts DEF FirstBootRises, NoCounterQuarantined
<1>. QED  BY <1>1, QueueInvariant, PTL
===============================================================================
