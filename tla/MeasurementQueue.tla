--------------------------- MODULE MeasurementQueue ---------------------------
(***************************************************************************)
(* How a measurement waits between the serial thread and the database:     *)
(*                                                                         *)
(*   serialio/manager.py        polls STATUS, COUNTERS and RESULTS and     *)
(*                              queues what changed, with the keg that was *)
(*                              open at that moment                        *)
(*   application/coordinator.py takes the queue, commits each event, and   *)
(*                              keeps the ones that failed for a retry     *)
(*   persistence/repository.py  charges the increase of a cumulative       *)
(*                              counter, and a result once                 *)
(*                                                                         *)
(* COUNTERS.recovery is the count of pulses that found the controller's    *)
(* result store full.  It is cumulative and has no boot identity of its    *)
(* own.  A keg stands for the pair of keg and calibration.  The pulse rate *)
(* envelope of pulse_integrity.py is left out, and so are volumes.         *)
(***************************************************************************)
EXTENDS Naturals, Sequences, FiniteSets

CONSTANTS
  Slots,         \* retained results of the controller
  MaxSeq,        \* bound on the results of a boot
  MaxRecovery,   \* bound on the recovery count of a boot
  FullBoots,     \* bound: the boots in which pulses are measured
  MaxBoot,       \* bound on the controller's boots
  MaxKeg,        \* bound on the kegs installed
  MaxUptime,     \* bound on the uptime of a boot
  UptimeModulus, \* 2^32 of the uptime
  QueueCap,      \* event_capacity
  RetryCap       \* the 128 entries of the retry queue

ASSUME CountAssumption ==
  /\ Slots \in Nat \ {0} /\ MaxSeq \in Nat /\ MaxRecovery \in Nat
  /\ MaxBoot \in Nat \ {0} /\ FullBoots \subseteq Nat /\ MaxKeg \in Nat \ {0} /\ MaxUptime \in Nat
  /\ UptimeModulus \in Nat \ {0} /\ QueueCap \in Nat \ {0} /\ RetryCap \in Nat \ {0}

VARIABLES
  dev,        \* the controller
  keg,        \* the open keg
  mgr,        \* the manager's connection, identity and snapshots already queued
  events,     \* the manager's event queue
  retries,    \* _event_retries
  batch,      \* the events of the current pass of the event loop
  db,         \* checkpoints, the pours they made, results
  diagnosed,  \* diagnostics that report a measurement given up
  seen        \* history: the keg of the first observation of each measurement

vars == <<dev, keg, mgr, events, retries, batch, db, diagnosed, seen>>

Boots == 1..MaxBoot
Kegs  == 1..MaxKeg
NoKeg == 0

(* Three kinds of event: a result, a counter snapshot, and any other, which *)
(* may be dropped. *)
Event ==
  [kind : {"result", "counters", "status"}, boot : Boots, value : Nat,
   accepted : Nat, uptime : Nat, keg : Kegs, tried : BOOLEAN]

Reading == [accepted : Nat, recovery : Nat]

Checkpoint == [recovery : 0..MaxRecovery, accepted : Nat, uptime : Nat, exists : BOOLEAN]
NoCheckpoint == [recovery |-> 0, accepted |-> 0, uptime |-> 0, exists |-> FALSE]

(* A recovered pour stands for the recovery counts (from, to] of its boot. *)
Recovered == [boot : Boots, from : Nat, to : Nat, keg : Kegs]
ResultRow == [boot : Boots, seq : 1..MaxSeq, keg : Kegs]

TypeOK ==
  /\ dev \in [boot : Boots, made : 0..MaxSeq, retained : SUBSET (1..MaxSeq),
              recovery : 0..MaxRecovery, uptime : 0..MaxUptime]
  /\ keg \in Kegs
  /\ mgr \in [connected : BOOLEAN, boot : 0..MaxBoot, sent : Reading \cup {<< >>},
              uptime : Nat]
  /\ events \in Seq(Event) /\ Len(events) <= QueueCap
  /\ retries \in Seq(Event) /\ Len(retries) <= RetryCap
  /\ batch \in Seq(Event)
  /\ db \in [checkpoints : [Boots -> Checkpoint], recovered : SUBSET Recovered,
             results : SUBSET ResultRow]
  /\ diagnosed \subseteq {"quarantined", "queue_full"}
  /\ seen \in [counters : [Boots -> [1..MaxRecovery -> Kegs \cup {NoKeg}]],
               results : [Boots -> [1..MaxSeq -> Kegs \cup {NoKeg}]]]

NoManager == [connected |-> FALSE, boot |-> 0, sent |-> << >>, uptime |-> 0]
NewDevice(b) == [boot |-> b, made |-> 0, retained |-> {}, recovery |-> 0, uptime |-> 0]

Init ==
  /\ dev = NewDevice(1)
  /\ keg = 1
  /\ mgr = NoManager
  /\ events = << >> /\ retries = << >> /\ batch = << >>
  /\ db = [checkpoints |-> [b \in Boots |-> NoCheckpoint], recovered |-> {}, results |-> {}]
  /\ diagnosed = {}
  /\ seen = [counters |-> [b \in Boots |-> [p \in 1..MaxRecovery |-> NoKeg]],
             results |-> [b \in Boots |-> [s \in 1..MaxSeq |-> NoKeg]]]

-------------------------------------------------------------------------------
(***************************************************************************)
(* The controller, and the operator.                                       *)
(***************************************************************************)
host == <<mgr, events, retries, batch, db, diagnosed, seen>>

(* A pour of one pulse ends and is retained. *)
ResultEnds ==
  /\ dev.boot \in FullBoots /\ dev.made < MaxSeq
  /\ Cardinality(dev.retained) < Slots
  /\ dev' = [dev EXCEPT !.made = @ + 1, !.retained = @ \cup {dev.made + 1}]
  /\ UNCHANGED <<keg, host>>

(* A pulse with every slot taken is counted in recovery alone.  STATUS is   *)
(* polled every 0.25 s, and four pours fill the store: by then a reset     *)
(* under an open link has been noticed.                                    *)
RecoveryPulse ==
  /\ mgr.connected => mgr.boot = dev.boot
  /\ Cardinality(dev.retained) = Slots
  /\ dev.boot \in FullBoots /\ dev.recovery < MaxRecovery
  /\ dev' = [dev EXCEPT !.recovery = @ + 1]
  /\ UNCHANGED <<keg, host>>

(* A unit of uptime is many polls of a connected manager. *)
TimePasses ==
  /\ dev.uptime < MaxUptime
  /\ mgr.connected => mgr.uptime = dev.uptime % UptimeModulus
  /\ dev' = [dev EXCEPT !.uptime = @ + 1]
  /\ UNCHANGED <<keg, host>>

DeviceReset ==
  /\ dev.boot < MaxBoot
  /\ dev' = NewDevice(dev.boot + 1)
  /\ UNCHANGED <<keg, host>>

(* replace_keg() *)
ReplaceKeg ==
  /\ keg < MaxKeg
  /\ keg' = keg + 1
  /\ UNCHANGED <<dev, host>>

-------------------------------------------------------------------------------
(***************************************************************************)
(* The manager's thread.                                                   *)
(***************************************************************************)
others == <<dev, keg, retries, batch, db, diagnosed>>

HasRoom == Len(events) < QueueCap

Measured(kind, value) ==
  [kind |-> kind, boot |-> mgr.boot, value |-> value, accepted |-> 0, uptime |-> 0,
   keg |-> keg, tried |-> FALSE]

(* What a status says is not kept here. *)
StatusOf(b) ==
  [kind |-> "status", boot |-> b, value |-> 0, accepted |-> 0, uptime |-> 0,
   keg |-> 1, tried |-> FALSE]

(* _record_status(): the uptime a counter is queued with is the one of the *)
(* last status that was queued.                                            *)
RecordStatus(b) ==
  IF HasRoom
  THEN /\ events' = Append(events, StatusOf(b))
       /\ mgr' = [mgr EXCEPT !.connected = TRUE, !.boot = b,
                             !.uptime = dev.uptime % UptimeModulus]
  ELSE /\ mgr' = [mgr EXCEPT !.connected = TRUE, !.boot = b]
       /\ UNCHANGED events

(* The handshake, and the first poll of _synchronize(); the other two are  *)
(* the polls below.                                                        *)
Connect ==
  /\ ~mgr.connected
  /\ RecordStatus(dev.boot)
  /\ UNCHANGED <<seen, others>>

LinkLost ==
  /\ mgr.connected
  /\ mgr' = [mgr EXCEPT !.connected = FALSE]
  /\ UNCHANGED <<events, seen, others>>

(* Another boot is noticed in a STATUS, not in COUNTERS. *)
PollStatus ==
  /\ mgr.connected
  /\ IF dev.boot # mgr.boot
     THEN /\ mgr' = [mgr EXCEPT !.connected = FALSE]
          /\ UNCHANGED events
     ELSE RecordStatus(mgr.boot)
  /\ UNCHANGED <<seen, others>>

Accepted == dev.made + dev.recovery
ReadingNow == [accepted |-> Accepted, recovery |-> dev.recovery]
CounterNow ==
  [Measured("counters", dev.recovery) EXCEPT !.accepted = Accepted, !.uptime = mgr.uptime]

FirstSeen(owners, kegs) ==
  [p \in DOMAIN owners |-> IF p \in kegs /\ owners[p] = NoKeg THEN keg ELSE owners[p]]

(* Mutant: the snapshot counts as queued although the queue is full.       *)
PollCountersAdvancesFirst ==
  /\ mgr.connected
  /\ mgr.sent # ReadingNow
  /\ mgr' = [mgr EXCEPT !.sent = ReadingNow]
  /\ IF HasRoom
     THEN /\ events' = Append(events, CounterNow)
          /\ seen' = [seen EXCEPT !.counters[mgr.boot] = FirstSeen(@, 1..dev.recovery)]
     ELSE UNCHANGED <<events, seen>>
  /\ UNCHANGED others

(* _record_counters(): a snapshot that differs from the last one queued.   *)
(* If the queue is full nothing is queued or remembered: a later poll sees *)
(* the change again.                                                       *)
PollCounters ==
  /\ mgr.connected
  /\ mgr.sent # ReadingNow
  /\ HasRoom
  /\ events' = Append(events, CounterNow)
  /\ mgr' = [mgr EXCEPT !.sent = ReadingNow]
  /\ seen' = [seen EXCEPT !.counters[mgr.boot] = FirstSeen(@, 1..dev.recovery)]
  /\ UNCHANGED others

(* _queue_result(): RESULTS replays what is retained, changed or not.      *)
PollResult ==
  /\ mgr.connected
  /\ \E s \in dev.retained :
       IF dev.boot # mgr.boot
       THEN /\ mgr' = [mgr EXCEPT !.connected = FALSE]
            /\ UNCHANGED <<events, seen>>
       ELSE /\ HasRoom
            /\ events' = Append(events, Measured("result", s))
            /\ seen' = [seen EXCEPT !.results[mgr.boot] = FirstSeen(@, {s})]
            /\ UNCHANGED mgr
  /\ UNCHANGED others

-------------------------------------------------------------------------------
(***************************************************************************)
(* The retry queue.                                                        *)
(***************************************************************************)
(* _retry_identity(): counters are told apart by value, in their stream.   *)
SameEvent(e, f) ==
  e.kind = f.kind /\ e.boot = f.boot /\ (e.kind = "result" => e.value = f.value)

InStream(e, f) == e.kind = "counters" /\ f.kind = "counters" /\ e.boot = f.boot

(* Mutant: a counter is never held back.                                   *)
DeferredBehindNothing(e) ==
  e.kind = "result" /\ ~e.tried /\ \E i \in DOMAIN retries : SameEvent(retries[i], e)

(* _defer_behind_pending_measurement() *)
Deferred(e) ==
  \/ /\ e.kind = "result" /\ ~e.tried
     /\ \E i \in DOMAIN retries : SameEvent(retries[i], e)
  \/ \E i \in DOMAIN retries :
       /\ InStream(retries[i], e)
       /\ \/ retries[i].value < e.value
          \/ retries[i].value = e.value /\ ~e.tried

(* Two neighbours of a stream in value order: an equal value belongs to    *)
(* the earlier context, a higher one of the same context subsumes it.      *)
MergedInto(prior, e) ==
  IF prior.value = e.value THEN [prior EXCEPT !.tried = @ \/ e.tried]
                           ELSE [e EXCEPT !.tried = @ \/ prior.tried]

(* Mutant: the higher value subsumes the lower whatever its context. *)
JoinAny(boundaries, e) ==
  IF boundaries = << >> THEN <<e>>
  ELSE [boundaries EXCEPT ![Len(boundaries)] = MergedInto(@, e)]

Join(boundaries, e) ==
  LET prior == boundaries[Len(boundaries)]
  IN  IF boundaries # << >> /\ (prior.value = e.value \/ prior.keg = e.keg)
      THEN [boundaries EXCEPT ![Len(boundaries)] = MergedInto(@, e)]
      ELSE Append(boundaries, e)

(* The entries at the given places of a queue, in their order.             *)
Picked(queue, places) ==
  LET picked[n \in 0..Len(queue)] ==
        IF n = 0 THEN << >>
        ELSE IF n \in places THEN Append(picked[n - 1], queue[n]) ELSE picked[n - 1]
  IN  picked[Len(queue)]

(* The stream with e after the values that are not above its own. *)
Sorted(stream, e) ==
  LET above == {i \in DOMAIN stream : stream[i].value > e.value}
  IN  Picked(stream, DOMAIN stream \ above) \o <<e>> \o Picked(stream, above)

Joined(sorted) ==
  LET joined[n \in 0..Len(sorted)] ==
        IF n = 0 THEN << >> ELSE Join(joined[n - 1], sorted[n])
  IN  joined[Len(sorted)]

Boundaries(stream, e) == Joined(Sorted(stream, e))

(* At its limit the queue gives up its first entry that is no measurement. *)
FirstOther(queue) ==
  CHOOSE i \in DOMAIN queue :
    /\ queue[i].kind = "status"
    /\ \A j \in DOMAIN queue : queue[j].kind = "status" => i <= j

HasOther(queue) == \E i \in DOMAIN queue : queue[i].kind = "status"
WithoutOther(queue) == Picked(queue, DOMAIN queue \ {FirstOther(queue)})

(* _schedule_counter_retry(): the streams of other boots, and other kinds, *)
(* first.                                                                  *)
ScheduledCounter(e) ==
  LET related   == {i \in DOMAIN retries : InStream(retries[i], e)}
      unrelated == Picked(retries, DOMAIN retries \ related)
      stream    == Boundaries(Picked(retries, related), e)
  IN  IF Len(unrelated) + Len(stream) <= RetryCap THEN unrelated \o stream
      ELSE IF HasOther(unrelated) THEN WithoutOther(unrelated) \o stream
      ELSE retries

(* The first captured context of a result owns it. *)
Coalesced(queued, e) ==
  LET kept == IF e.kind = "result" THEN queued ELSE e
  IN  [kept EXCEPT !.tried = queued.tried \/ e.tried]

(* Mutant: no limit. *)
ScheduledUnbounded(e) ==
  IF \E i \in DOMAIN retries : SameEvent(retries[i], e)
  THEN [i \in DOMAIN retries |->
          IF SameEvent(retries[i], e) THEN Coalesced(retries[i], e) ELSE retries[i]]
  ELSE Append(retries, e)

(* _schedule_event_retry() *)
Scheduled(e) ==
  IF e.kind = "counters" THEN ScheduledCounter(e)
  ELSE IF \E i \in DOMAIN retries : SameEvent(retries[i], e)
  THEN [i \in DOMAIN retries |->
          IF SameEvent(retries[i], e) THEN Coalesced(retries[i], e) ELSE retries[i]]
  ELSE IF Len(retries) < RetryCap THEN Append(retries, e)
  ELSE IF HasOther(retries) THEN Append(WithoutOther(retries), e)
  ELSE retries

(* coordinator_retry_queue_full: no entry is left for the event. *)
HoldsEvent(queue, e) ==
  \E i \in DOMAIN queue :
    \/ SameEvent(queue[i], e) /\ e.kind # "counters"
    \/ InStream(queue[i], e) /\ queue[i].value >= e.value

Schedule(e) ==
  /\ retries' = Scheduled(e)
  /\ diagnosed' = IF e.kind # "status" /\ ~HoldsEvent(retries', e)
                  THEN diagnosed \cup {"queue_full"} ELSE diagnosed

-------------------------------------------------------------------------------
(***************************************************************************)
(* checkpoint_recovery_pulses() and finalize_device_result().              *)
(***************************************************************************)
Elapsed(e, cp) ==
  IF cp.exists THEN (e.uptime + UptimeModulus - cp.uptime) % UptimeModulus ELSE e.uptime

(* ConflictError or MeasurementRejectedError: the counter is quarantined.  *)
Rejected(e) ==
  LET cp == db.checkpoints[e.boot]
  IN  \/ e.value < cp.recovery \/ e.accepted < cp.accepted
      \/ e.value - cp.recovery > e.accepted - cp.accepted
      \/ cp.exists /\ 2 * Elapsed(e, cp) >= UptimeModulus

(* Mutant: the whole counter is charged, not its increase. *)
WithCheckpointWhole(e) ==
  [db EXCEPT !.checkpoints[e.boot] =
               [recovery |-> e.value, accepted |-> e.accepted, uptime |-> e.uptime,
                exists |-> TRUE],
             !.recovered = IF e.value = 0 THEN @
                           ELSE @ \cup {[boot |-> e.boot, from |-> 0, to |-> e.value,
                                         keg |-> e.keg]}]

WithCheckpoint(e) ==
  LET previous == db.checkpoints[e.boot].recovery
  IN  [db EXCEPT !.checkpoints[e.boot] =
                   [recovery |-> e.value, accepted |-> e.accepted, uptime |-> e.uptime,
                    exists |-> TRUE],
                 !.recovered = IF e.value = previous THEN @
                               ELSE @ \cup {[boot |-> e.boot, from |-> previous,
                                             to |-> e.value, keg |-> e.keg]}]

WithResult(e) ==
  IF \E row \in db.results : row.boot = e.boot /\ row.seq = e.value THEN db
  ELSE [db EXCEPT !.results = @ \cup {[boot |-> e.boot, seq |-> e.value, keg |-> e.keg]}]

-------------------------------------------------------------------------------
(***************************************************************************)
(* The event loop.                                                         *)
(***************************************************************************)
(* What is due at once.  The deadlines of a stream of counters never       *)
(* decrease along the queue.                                               *)
DueSets ==
  {due \in SUBSET DOMAIN retries :
     \A i, j \in DOMAIN retries :
       (i < j /\ j \in due /\ InStream(retries[i], retries[j])) => i \in due}

StartPass ==
  /\ batch = << >>
  /\ \E due \in DueSets :
       /\ due # {} \/ events # << >>
       /\ batch' = Picked(retries, due) \o events
       /\ retries' = Picked(retries, DOMAIN retries \ due)
  /\ events' = << >>
  /\ UNCHANGED <<dev, keg, mgr, db, diagnosed, seen>>

Defer ==
  /\ batch # << >>
  /\ Deferred(Head(batch))
  /\ Schedule(Head(batch))
  /\ batch' = Tail(batch)
  /\ UNCHANGED <<dev, keg, mgr, events, db, seen>>

(* The transaction raises.  Only a measurement is retried for ever. *)
StorageFails ==
  /\ batch # << >>
  /\ LET e == Head(batch)
     IN  /\ ~Deferred(e)
         /\ \/ Schedule([e EXCEPT !.tried = TRUE])
            \/ e.kind = "status" /\ UNCHANGED <<retries, diagnosed>>
  /\ batch' = Tail(batch)
  /\ UNCHANGED <<dev, keg, mgr, events, db, seen>>

CheckpointCounter ==
  /\ batch # << >>
  /\ LET e == Head(batch)
     IN  /\ e.kind = "counters" /\ ~Deferred(e)
         /\ IF Rejected(e)
            THEN /\ diagnosed' = diagnosed \cup {"quarantined"}
                 /\ UNCHANGED db
            ELSE /\ db' = WithCheckpoint(e)
                 /\ UNCHANGED diagnosed
  /\ batch' = Tail(batch)
  /\ UNCHANGED <<dev, keg, mgr, events, retries, seen>>

(* The result is committed, then acknowledged, unless the controller is    *)
(* another one now or the ACK or its reply is lost.                        *)
CommitResult ==
  /\ batch # << >>
  /\ LET e == Head(batch)
     IN  /\ e.kind = "result" /\ ~Deferred(e)
         /\ db' = WithResult(e)
         /\ \/ UNCHANGED dev
            \/ /\ mgr.connected /\ mgr.boot = e.boot /\ dev.boot = e.boot
               /\ dev' = [dev EXCEPT !.retained = @ \ {e.value}]
  /\ batch' = Tail(batch)
  /\ UNCHANGED <<keg, mgr, events, retries, diagnosed, seen>>

ProcessStatus ==
  /\ batch # << >>
  /\ Head(batch).kind = "status"
  /\ batch' = Tail(batch)
  /\ UNCHANGED <<dev, keg, mgr, events, retries, db, diagnosed, seen>>

(* The process stops: an observation that is not committed is made again. *)
HostCrash ==
  /\ mgr' = NoManager
  /\ events' = << >> /\ retries' = << >> /\ batch' = << >>
  /\ seen' =
       [counters |-> [b \in Boots |-> [p \in 1..MaxRecovery |->
           IF p <= db.checkpoints[b].recovery THEN seen.counters[b][p] ELSE NoKeg]],
        results |-> [b \in Boots |-> [s \in 1..MaxSeq |->
           IF \E row \in db.results : row.boot = b /\ row.seq = s
           THEN seen.results[b][s] ELSE NoKeg]]]
  /\ UNCHANGED <<dev, keg, db, diagnosed>>

Device == ResultEnds \/ RecoveryPulse \/ TimePasses \/ DeviceReset
Manager == Connect \/ LinkLost \/ PollStatus \/ PollCounters \/ PollResult
Coordinator == \/ StartPass \/ Defer \/ StorageFails
               \/ CheckpointCounter \/ CommitResult \/ ProcessStatus

Next == Device \/ ReplaceKeg \/ Manager \/ Coordinator \/ HostCrash

Spec == Init /\ [][Next]_vars

-------------------------------------------------------------------------------
(***************************************************************************)
(* Safety.                                                                 *)
(***************************************************************************)

(* ADR-019, "a delayed measurement is never relabeled with a newer device, *)
(* keg": a recovered pulse is charged to the keg of the first snapshot     *)
(* that counted it, however often its commit failed and whatever was       *)
(* queued since, unless the queue reported that it gave a snapshot up.     *)
RecoveredPulsesKeepTheirKeg ==
  diagnosed = {} =>
    \A r \in db.recovered : \A p \in (r.from + 1)..r.to : seen.counters[r.boot][p] = r.keg

(* The same for a result that replays arrive for while it waits.           *)
ResultsKeepTheirKeg ==
  "queue_full" \notin diagnosed =>
    \A row \in db.results : seen.results[row.boot][row.seq] = row.keg

(* Both: no measurement is relabelled on its way to the database.          *)
MeasurementsKeepTheirKeg == RecoveredPulsesKeepTheirKeg /\ ResultsKeepTheirKeg

(* The recovered pours of a boot follow one another without a gap or an    *)
(* overlap up to the checkpoint.                                           *)
RecoveredOnce ==
  \A b \in Boots :
    LET pours == {r \in db.recovered : r.boot = b}
    IN  /\ \A p \in 1..db.checkpoints[b].recovery :
             Cardinality({r \in pours : p \in (r.from + 1)..r.to}) = 1
        /\ \A r \in pours : r.to <= db.checkpoints[b].recovery

(* What the controller counted is never taken for a corrupt counter: with  *)
(* the smaller ones first, no snapshot meets a checkpoint above it.        *)
(* ADR-019 rejects a decrease only; the code also takes an idle time of    *)
(* half the range of the uptime for one, so this holds for a controller    *)
(* whose counters change more often.  COUNTERS polled after a reset that   *)
(* no STATUS has shown yet are taken for the old boot's: hence boot 1.     *)
NoCounterQuarantined == dev.boot = 1 => "quarantined" \notin diagnosed

(* A snapshot that the manager takes for known, and so will not queue      *)
(* again, is checkpointed, or on its way in some queue, or its loss is     *)
(* reported, although the event queue may drop it and the retry queue      *)
(* merges it with others.  The cache outlives the boot: after a reset it   *)
(* holds the old boot's snapshot, so this is said of the first boot.       *)
NoSnapshotForgotten ==
  LET waiting == {events[i] : i \in DOMAIN events} \cup {batch[i] : i \in DOMAIN batch}
                   \cup {retries[i] : i \in DOMAIN retries}
  IN  (dev.boot = 1 /\ mgr.sent # << >> /\ diagnosed = {}) =>
        \/ db.checkpoints[1].recovery >= mgr.sent.recovery
        \/ \E e \in waiting : e.kind = "counters" /\ e.value >= mgr.sent.recovery
-------------------------------------------------------------------------------
(***************************************************************************)
(* Why they hold.  Part of what waits is old: it is in the retry queue, or *)
(* it is one of the k first of the batch, which were taken from there.     *)
(* The rest of the batch and the event queue are fresh: in the order of    *)
(* their observation, and observed after all that is old.                  *)
(***************************************************************************)
Entries(queue) == {queue[i] : i \in 1..Len(queue)}
Waiting(rt, bt, ev) == Entries(rt) \cup Entries(bt) \cup Entries(ev)

(* A counter that was polled after a reset bears the boot before it, and   *)
(* says 0.                                                                 *)
Trusted(e, b) == e.value > 0 \/ e.boot = b

(* Half the range of the uptime is not reached within a boot. *)
NeverWraps == 2 * MaxUptime < UptimeModulus

(* f says no less than e of what was measured, and of when. *)
NoLess(e, f) ==
  /\ e.keg <= f.keg
  /\ e.accepted + f.value <= f.accepted + e.value
  /\ NeverWraps /\ e.boot = 1 => e.uptime <= f.uptime

(* e was observed before f, when b was the controller's boot or later. *)
Before(e, f, b) ==
  e.kind # "status" /\ f.kind # "status" =>
    /\ e.keg <= f.keg
    /\ InStream(e, f) /\ Trusted(e, b) /\ Trusted(f, b) => e.value <= f.value /\ NoLess(e, f)

SameResult(e, f) == e.kind = "result" /\ SameEvent(e, f)

(* Of what is old no two are the same, and a stream is in order. *)
Apart(e, f)   == ~SameResult(e, f) /\ (InStream(e, f) => e.value # f.value)
InOrder(e, f) == ~SameResult(e, f) /\ (InStream(e, f) => e.value < f.value)
Rising(e, f, b) ==
  InStream(e, f) /\ Trusted(e, b) /\ Trusted(f, b) /\ e.value < f.value => NoLess(e, f)

Old(k, rt, bt)   == Entries(rt) \cup {bt[i] : i \in 1..k}
Fresh(k, bt, ev) == {bt[i] : i \in k + 1..Len(bt)} \cup Entries(ev)

OldInOrder(k, rt, bt, b) ==
  /\ \A i, j \in 1..Len(rt) : i < j => InOrder(rt[i], rt[j])
  /\ \A i, j \in 1..k : i < j => InOrder(bt[i], bt[j])
  /\ \A i \in 1..Len(rt), j \in 1..k : Apart(rt[i], bt[j])
  /\ \A x, y \in Old(k, rt, bt) : Rising(x, y, b)

FreshInOrder(k, rt, bt, ev, b) ==
  /\ \A y \in Fresh(k, bt, ev) : ~y.tried
  /\ \A x \in Old(k, rt, bt), y \in Fresh(k, bt, ev) : Before(x, y, b)
  /\ \A i, j \in k + 1..Len(bt) : i < j => Before(bt[i], bt[j], b)
  /\ \A i \in k + 1..Len(bt), j \in 1..Len(ev) : Before(bt[i], ev[j], b)
  /\ \A i, j \in 1..Len(ev) : i < j => Before(ev[i], ev[j], b)

(* What is old has come from the retry queue, and finds room there again. *)
QueuesInOrder(rt, bt, ev, b) ==
  \E k \in 0..Len(bt) :
    /\ Len(rt) + k <= RetryCap
    /\ OldInOrder(k, rt, bt, b)
    /\ FreshInOrder(k, rt, bt, ev, b)

(* No kegs are seen in another order than they were installed. *)
KegsSeenInOrder ==
  \A b \in Boots :
    /\ \A p \in 1..MaxRecovery : seen.counters[b][p] <= keg
    /\ \A s \in 1..MaxSeq : seen.results[b][s] <= keg
    /\ \A p, q \in 1..MaxRecovery :
         p < q /\ seen.counters[b][q] # NoKeg =>
           seen.counters[b][p] # NoKeg /\ seen.counters[b][p] <= seen.counters[b][q]

(* What waits was seen, by then at the latest, and is not of the future. *)
Witnessed(e) ==
  /\ e.keg <= keg /\ e.boot <= dev.boot
  /\ e.kind = "counters" /\ e.value > 0 =>
       /\ e.value <= MaxRecovery
       /\ seen.counters[e.boot][e.value] # NoKeg /\ seen.counters[e.boot][e.value] <= e.keg
  /\ e.kind = "counters" /\ e.boot = dev.boot =>
       /\ e.value <= dev.recovery /\ e.accepted <= dev.made + e.value
       /\ NeverWraps /\ e.boot = 1 => e.uptime <= mgr.uptime
  /\ e.kind = "result" =>
       /\ e.value \in 1..MaxSeq
       /\ seen.results[e.boot][e.value] # NoKeg /\ seen.results[e.boot][e.value] <= e.keg

(* What was seen and is not committed waits with the keg it was seen with. *)
CountersWait(ws) ==
  diagnosed = {} =>
    \A b \in Boots, p \in 1..MaxRecovery :
      seen.counters[b][p] # NoKeg /\ p > db.checkpoints[b].recovery =>
        \E e \in ws : /\ e.kind = "counters" /\ e.boot = b
                      /\ e.value >= p /\ e.keg = seen.counters[b][p]

ResultsWait(ws) ==
  "queue_full" \notin diagnosed =>
    \A b \in Boots, s \in 1..MaxSeq :
      seen.results[b][s] # NoKeg /\ (\A row \in db.results : row.boot = b => row.seq # s) =>
        \E e \in ws : /\ e.kind = "result" /\ e.boot = b /\ e.value = s
                      /\ e.keg = seen.results[b][s]

(* The manager knows the controller, or the one before its last reset,     *)
(* which has counted nothing since.                                        *)
ManagerFollows ==
  /\ mgr.boot <= dev.boot
  /\ mgr.connected => mgr.boot # 0
  /\ mgr.boot = 0 => events = << >>
  /\ mgr.connected /\ mgr.boot < dev.boot => dev.recovery = 0
  /\ dev.boot = 1 /\ NeverWraps => mgr.uptime <= dev.uptime
  /\ dev.boot = 1 /\ mgr.sent # << >> =>
       /\ mgr.sent.recovery <= dev.recovery
       /\ \A p \in 1..mgr.sent.recovery : seen.counters[1][p] # NoKeg

(* In the first boot no counter that waits, or is still to come, is below  *)
(* the checkpoint.                                                         *)
FirstBootRises ==
  LET cp == db.checkpoints[1] IN
  dev.boot = 1 =>
    /\ \A e \in Waiting(retries, batch, events) :
         e.kind = "counters" =>
           /\ cp.recovery <= e.value /\ cp.accepted + e.value <= e.accepted + cp.recovery
           /\ NeverWraps => cp.uptime <= e.uptime
    /\ cp.recovery <= dev.recovery /\ cp.accepted <= dev.made + cp.recovery
    /\ NeverWraps => cp.uptime <= dev.uptime /\ (mgr.boot = 1 => cp.uptime <= mgr.uptime)
    /\ NeverWraps => "quarantined" \notin diagnosed

Inv ==
  /\ TypeOK
  /\ RecoveredOnce
  /\ QueuesInOrder(retries, batch, events, dev.boot)
  /\ KegsSeenInOrder
  /\ \A e \in Waiting(retries, batch, events) : Witnessed(e)
  /\ CountersWait(Waiting(retries, batch, events))
  /\ ResultsWait(Waiting(retries, batch, events))
  /\ ManagerFollows /\ FirstBootRises
  /\ MeasurementsKeepTheirKeg
===============================================================================
