------------------------------ MODULE PourSystem ------------------------------
(***************************************************************************)
(* One flow controller, the serial manager thread, the coordinator and the *)
(* database, from the ARM request to the acknowledged pour.                *)
(*                                                                         *)
(*   src/kegpulse/application/coordinator.py  tasks under one asyncio lock *)
(*   src/kegpulse/serialio/manager.py         the thread that owns the link*)
(*   src/kegpulse/persistence/repository.py   PourStore                    *)
(*   firmware/src/session_machine.cpp         SessionMachine               *)
(*                                                                         *)
(* The device's clock is left out here (Firmware has it): FlowGap and      *)
(* Settling are 0, so any deadline may turn out to be due at any Tick.     *)
(* Frames in flight from the device are part of the manager's event queue. *)
(* The queue is taken as large enough: a poll waits for room.              *)
(***************************************************************************)
EXTENDS SessionMachine, FiniteSets

CONSTANTS
  NoBoot,    \* no boot identity known
  Kinds,     \* purposes an arm request may have
  MaxBoot,   \* bound on device resets
  MaxPulses, \* bound on the pulses of one boot
  MaxEvents, \* bound on the event queue
  MaxFaults  \* bound on lost messages, lost links and crashes

INSTANCE PourStore

ASSUME BootAssumption ==
  /\ NoBoot = 0
  /\ MaxBoot \in Nat \ {0}
  /\ Kinds \subseteq Purposes

ASSUME TimelessAssumption ==
  FlowGap = 0 /\ Settling = 0 /\ ClockModulus = 1
  /\ MaxPulses < MaxLifetime /\ MaxPulses <= MaxResultPulses

ASSUME QueueAssumption ==
  MaxPulses \in Nat /\ MaxFaults \in Nat /\ MaxEvents \in Nat /\ MaxEvents >= Capacity + 2

VARIABLES
  boot,   \* the device's boot identity
  m,      \* the device's SessionMachine
  conn,   \* the manager's connection_state: "connected" or "down"
  cache,  \* the manager's identity and last STATUS
  events, \* the manager's event queue
  cmds,   \* the manager's command queue, the one it works on first
  task,   \* the coordinator task that holds the lock
  db,     \* the database
  faults  \* faults so far

vars == <<boot, m, conn, cache, events, cmds, task, db, faults>>

(* A STATUS response. *)
Status == [boot : Nat, state : DeviceStates, sid : Sids \cup {NoSid},
           next : Nat, life : Nat, retained : Nat]
(* snapshot(): the session of the open event, or else of the last result.  *)
SnapshotSid ==
  IF ~m.active.present /\ m.results # << >> THEN m.results[Len(m.results)].sid
  ELSE m.active.sid
StatusNow == [boot |-> boot, state |-> m.state, sid |-> SnapshotSid, next |-> m.next,
              life |-> m.lifetime, retained |-> Len(m.results)]
NoStatus == [boot |-> NoBoot, state |-> "idle", sid |-> NoSid, next |-> 0,
             life |-> 0, retained |-> 0]

Event ==
  [kind : {"result"}, boot : Nat, result : Result]
    \cup [kind : {"status"}, status : Status]
    \cup [kind : {"hello"}, boot : Nat]

Command == [op : {"STATUS", "ARM", "CANCEL", "ACK"}, boot : Nat, seq : Nat,
            sid : Sids \cup {NoSid}, waiting : BOOLEAN]

Task == [pc : {"idle", "arm_status", "arm_bind", "arm_wait", "cancel_wait", "cancel_reply",
               "ack_wait"},
         sid : Sids \cup {NoSid}, status : Status]
Idle == [pc |-> "idle", sid |-> NoSid, status |-> NoStatus]

(* At most one session is active, and one command has no caller.           *)
TypeOK ==
  /\ boot \in 1..MaxBoot
  /\ m \in Machine
  /\ conn \in {"connected", "down"}
  /\ cache \in [boot : Nat, status : Status]
  /\ events \in Seq(Event) /\ Len(events) <= MaxEvents
  /\ cmds \in Seq(Command) /\ Len(cmds) <= 2
  /\ task \in Task
  /\ db \in Database
  /\ faults \in 0..MaxFaults
  /\ Cardinality(ActiveSessions(db)) <= 1

Init ==
  /\ boot = 1
  /\ m = NewMachine
  /\ conn = "down"
  /\ cache = [boot |-> NoBoot, status |-> NoStatus]
  /\ events = << >>
  /\ cmds = << >>
  /\ task = Idle
  /\ db = EmptyDatabase
  /\ faults = 0

host == <<conn, cache, events, cmds, task, db>>

Fault == faults < MaxFaults /\ faults' = faults + 1

-------------------------------------------------------------------------------
(***************************************************************************)
(* The device.                                                             *)
(***************************************************************************)
Pulse ==
  /\ m.lifetime < MaxPulses
  /\ m' = AddPulses(m, 1, 0)
  /\ UNCHANGED <<boot, host, faults>>

(* The flow gap passes, or a deadline does. *)
GapPasses ==
  /\ m' = Settle(m, 0) /\ m' # m
  /\ UNCHANGED <<boot, host, faults>>

DeadlinePasses ==
  /\ m.active.state # "pouring"
  /\ m' = Tick(m, 0) /\ m' # m
  /\ UNCHANGED <<boot, host, faults>>

DeviceReset ==
  /\ boot < MaxBoot
  /\ Fault
  /\ boot' = boot + 1
  /\ m' = NewMachine
  /\ UNCHANGED host

-------------------------------------------------------------------------------
(***************************************************************************)
(* Requests.  A task gives the manager one command and waits for it.  The  *)
(* manager works on the first of its queue.  A caller that gives up        *)
(* withdraws its command, unless the manager is already working on it:     *)
(* then it may still reach the device, with nobody waiting.                *)
(***************************************************************************)
Ask(op, b, seq, s) ==
  cmds' = Append(cmds, [op |-> op, boot |-> b, seq |-> seq, sid |-> s, waiting |-> TRUE])

cmd == Head(cmds)

(* Mutant: a lost ARM is taken for a rejected one. *)
ReturnLostIsRejected(reply) ==
  IF ~cmd.waiting THEN UNCHANGED <<task, db>>
  ELSE /\ task' = CASE reply = "ok" /\ task.pc = "arm_status" ->
                         [task EXCEPT !.pc = "arm_bind", !.status = StatusNow]
                    [] reply = "ok" /\ task.pc = "cancel_wait" ->
                         [task EXCEPT !.pc = "cancel_reply"]
                    [] OTHER -> Idle
       /\ db' = IF reply # "ok" /\ task.pc \in {"arm_status", "arm_wait"}
                THEN UpdateStatus(db, task.sid, "failed") ELSE db

(* The waiting task goes on: with the reply "ok", with the device's error  *)
(* response "rejected", or with "lost" for every other failure.            *)
(* arm_for_purpose() marks the session failed when STATUS fails in any way *)
(* and when ARM is rejected; a lost ARM may have armed the device.         *)
Return(reply) ==
  IF ~cmd.waiting THEN UNCHANGED <<task, db>>
  ELSE /\ task' = CASE reply = "ok" /\ task.pc = "arm_status" ->
                         [task EXCEPT !.pc = "arm_bind", !.status = StatusNow]
                    [] reply = "ok" /\ task.pc = "cancel_wait" ->
                         [task EXCEPT !.pc = "cancel_reply"]
                    [] OTHER -> Idle
       /\ db' = IF \/ reply # "ok" /\ task.pc = "arm_status"
                   \/ reply = "rejected" /\ task.pc = "arm_wait"
                THEN UpdateStatus(db, task.sid, "failed") ELSE db

(* The reply reaches the manager, or is lost on the way.  The manager's    *)
(* TimeoutError is an OSError, which ends the connection.                  *)
Reply(reply) ==
  \/ Return(reply) /\ UNCHANGED <<conn, faults>>
  \/ Fault /\ Return("lost") /\ conn' = "down"

Deliver(op) ==
  conn = "connected" /\ cmds # << >> /\ cmd.op = op /\ cmds' = Tail(cmds)

(* Only the status of a live session is of interest to its handler. *)
StatusEvent == IF m.active.sid # NoSid
               THEN <<[kind |-> "status", status |-> StatusNow]>> ELSE << >>

(* The connection ends.  The command the manager works on fails with it;   *)
(* one it has not taken stays queued across the reconnection.              *)
Disconnect ==
  /\ conn' = "down"
  /\ \/ cmds # << >> /\ cmds' = Tail(cmds) /\ Return("lost")
     \/ (cmds # << >> => cmd.waiting) /\ UNCHANGED <<cmds, task, db>>
  /\ UNCHANGED <<cache, events>>

(* _record_status() *)
RecordStatus ==
  /\ Len(events) + Len(StatusEvent) <= MaxEvents
  /\ events' = events \o StatusEvent
  /\ cache' = [cache EXCEPT !.status = StatusNow]
  /\ UNCHANGED conn

DeliverStatus ==
  /\ boot = cache.boot
  /\ Deliver("STATUS")
  /\ RecordStatus
  /\ Return("ok")
  /\ UNCHANGED <<boot, m, faults>>

DeliverArm ==
  LET reply == IF cmd.boot # boot THEN "STALE" ELSE ArmReply(m, cmd.seq, cmd.sid)
  IN  /\ Deliver("ARM")
      /\ m' = IF cmd.boot # boot THEN m ELSE Arm(m, cmd.seq, cmd.sid, 0, 0)
      /\ Reply(IF reply \in {"ok", "already"} THEN "ok" ELSE "rejected")
      /\ UNCHANGED <<boot, cache, events>>

DeliverCancel ==
  LET reply == IF cmd.boot # boot THEN "STALE" ELSE CancelReply(m, cmd.seq, cmd.sid)
  IN  /\ Deliver("CANCEL")
      /\ m' = IF cmd.boot # boot THEN m ELSE Cancel(m, cmd.seq, cmd.sid)
      /\ Reply(IF reply \in {"ok", "already"} THEN "ok" ELSE "rejected")
      /\ UNCHANGED <<boot, cache, events>>

(* Mutant: the ACK is matched by its sequence alone. *)
DeliverAckAnyBoot ==
  /\ Deliver("ACK")
  /\ m' = Acknowledge(m, cmd.seq)
  /\ Return("ok")
  /\ UNCHANGED <<boot, conn, cache, events, faults>>

(* The ACK request: its failure is not looked at. *)
DeliverAck ==
  /\ Deliver("ACK")
  /\ m' = IF cmd.boot # boot THEN m ELSE Acknowledge(m, cmd.seq)
  /\ Return("ok")
  /\ UNCHANGED <<boot, conn, cache, events, faults>>

(* request() times out.  Behind a command without a caller, or while there *)
(* is no link, the manager has not taken it.                               *)
CallerTimesOut ==
  LET n == Len(cmds)
      untaken == conn = "down" \/ n = 2
  IN  /\ n > 0 /\ cmds[n].waiting
      /\ IF untaken
         THEN cmds' = SubSeq(cmds, 1, n - 1) /\ UNCHANGED faults
         ELSE cmds' = <<[cmd EXCEPT !.waiting = FALSE]>> /\ Fault
      /\ task' = Idle
      /\ db' = IF task.pc = "arm_status" THEN UpdateStatus(db, task.sid, "failed") ELSE db
      /\ UNCHANGED <<boot, m, conn, cache, events>>

-------------------------------------------------------------------------------
(***************************************************************************)
(* The manager's own loop.                                                 *)
(***************************************************************************)
ResultEvents(i) ==
  [j \in 1..(Len(m.results) - i + 1) |->
     [kind |-> "result", boot |-> boot, result |-> m.results[i + j - 1]]]

PollStatus ==
  /\ conn = "connected" /\ boot = cache.boot
  /\ RecordStatus
  /\ UNCHANGED <<boot, m, cmds, task, db, faults>>

(* RESULT frames are read: all retained ones after RESULTS, or the newest  *)
(* ones, which the device sends of its own accord.                         *)
ReadResults(i) ==
  /\ conn = "connected" /\ boot = cache.boot
  /\ i \in 1..Len(m.results)
  /\ Len(events) + Len(ResultEvents(i)) <= MaxEvents
  /\ events' = events \o ResultEvents(i)
  /\ UNCHANGED <<boot, m, conn, cache, cmds, task, db, faults>>

(* A STATUS or RESULT of another boot ends the connection, to handshake.   *)
SeeReset ==
  /\ conn = "connected" /\ boot # cache.boot
  /\ Disconnect
  /\ UNCHANGED <<boot, m, faults>>

(* The link is lost, or the request the manager works on is.               *)
LinkLost ==
  /\ conn = "connected"
  /\ Fault
  /\ Disconnect
  /\ UNCHANGED <<boot, m>>

(* _run() up to the hello event: HELLO, STATUS, RESULTS, connected. *)
Connect ==
  /\ conn = "down"
  /\ Len(events) + Len(m.results) + 2 <= MaxEvents
  /\ conn' = "connected"
  /\ cache' = [boot |-> boot, status |-> StatusNow]
  /\ events' = events \o StatusEvent \o ResultEvents(1)
                      \o <<[kind |-> "hello", boot |-> boot]>>
  /\ UNCHANGED <<boot, m, cmds, task, db, faults>>

-------------------------------------------------------------------------------
(***************************************************************************)
(* The coordinator: each task holds the lock from its first step to its    *)
(* last, across the awaits.                                                *)
(***************************************************************************)
Unlocked == task.pc = "idle"

(* arm_for_purpose() up to its first await. *)
ArmBegins(s, purpose) ==
  LET created == CreateProvisional(db, s, purpose)
  IN  /\ Unlocked
      /\ created # db
      /\ IF conn = "connected"
         THEN /\ db' = created
              /\ task' = [pc |-> "arm_status", sid |-> s, status |-> NoStatus]
              /\ Ask("STATUS", NoBoot, 0, NoSid)
         ELSE /\ db' = UpdateStatus(created, s, "failed")
              /\ UNCHANGED <<task, cmds>>
      /\ UNCHANGED <<boot, m, conn, cache, events, faults>>

(* Mutant: ARM is sent before the event is bound. *)
ArmBindsAfterReply ==
  /\ task.pc = "arm_bind"
  /\ db' = UpdateStatus(db, task.sid, "armed")
  /\ task' = [task EXCEPT !.pc = "arm_wait", !.status = NoStatus]
  /\ Ask("ARM", task.status.boot, task.status.next, task.sid)
  /\ UNCHANGED <<boot, m, conn, cache, events, faults>>

(* The STATUS response is here: bind the event, then send ARM. *)
ArmBinds ==
  LET s == task.sid
      b == task.status.boot
      seq == task.status.next
  IN  /\ task.pc = "arm_bind"
      /\ IF CanBind(db, s, b, seq)
         THEN /\ db' = BindProvisional(db, s, b, seq, task.status.life)
              /\ task' = [task EXCEPT !.pc = "arm_wait", !.status = NoStatus]
              /\ Ask("ARM", b, seq, s)
         ELSE /\ db' = UpdateStatus(db, s, "failed")
              /\ task' = Idle
              /\ UNCHANGED cmds
      /\ UNCHANGED <<boot, m, conn, cache, events, faults>>

(* cancel() up to its await. *)
CancelBegins ==
  /\ Unlocked
  /\ \E s \in ActiveSessions(db) :
       LET bound == db.sessions[s].boot # NoBoot
       IN  IF bound /\ conn = "connected"
           THEN /\ task' = [pc |-> "cancel_wait", sid |-> s, status |-> NoStatus]
                /\ Ask("CANCEL", db.sessions[s].boot, db.sessions[s].seq, s)
                /\ UNCHANGED db
           ELSE /\ db' = UpdateStatus(db, s, IF bound THEN "interrupted_uncertain"
                                              ELSE "cancelled")
                /\ UNCHANGED <<task, cmds>>
  /\ UNCHANGED <<boot, m, conn, cache, events, faults>>

(* The rest of cancel(): the manager's last STATUS decides. *)
CancelReplied ==
  /\ task.pc = "cancel_reply"
  /\ db' = UpdateStatus(db, task.sid, IF cache.status.state = "armed"
                                      THEN "cancelled" ELSE "finalizing")
  /\ task' = Idle
  /\ UNCHANGED <<boot, m, conn, cache, events, cmds, faults>>

-------------------------------------------------------------------------------
(* Mutant: a status is mirrored to the session it names, active or not. *)
MirroredAlways(status) ==
  IF status.sid # NoSid /\ status.state \in LiveStates
  THEN UpdateStatus(db, status.sid, status.state) ELSE db

(* _mirror_session_state() *)
Mirrored(status) ==
  IF status.sid \in ActiveSessions(db) /\ status.state \in LiveStates
  THEN UpdateStatus(db, status.sid, status.state) ELSE db

ProcessStatus(e) ==
  /\ db' = IF e.status.boot = cache.boot THEN Mirrored(e.status) ELSE db
  /\ UNCHANGED <<task, cmds>>

(* _reconcile_after_connect() *)
ProcessHello ==
  LET status == cache.status
      Reconciled(s) ==
        LET decision == Reconcile(db.sessions[s], s, status)
        IN  CASE decision = "resume" -> Mirrored(status)
              [] decision = "recover" /\ status.retained > 0 -> db
              [] decision = "recover" /\ status.retained = 0 /\ status.state = "idle" ->
                   RecoverDelta(db, s, status.boot, status.life)
              [] OTHER -> UpdateStatus(db, s, "interrupted_uncertain")
  IN  /\ IF ActiveSessions(db) = {} THEN UNCHANGED db
         ELSE \E s \in ActiveSessions(db) : db' = Reconciled(s)
      /\ UNCHANGED <<task, cmds>>

(* Mutant: only a new result is acknowledged, not a replayed one. *)
ProcessResultAcksNew(e) ==
  /\ db' = FinalizeResult(db, e.boot, e.result)
  /\ IF cache.boot = e.boot /\ ~Committed(db, e.boot, e.result.seq)
     THEN /\ task' = [pc |-> "ack_wait", sid |-> NoSid, status |-> NoStatus]
          /\ Ask("ACK", e.boot, e.result.seq, NoSid)
     ELSE UNCHANGED <<task, cmds>>

(* Commit the result, then acknowledge it if the boot it came from is the  *)
(* one attached.  A result that matches no binding raises: no ACK.         *)
ProcessResult(e) ==
  /\ db' = FinalizeResult(db, e.boot, e.result)
  /\ IF cache.boot = e.boot /\ MatchesBinding(db, e.boot, e.result)
     THEN /\ task' = [pc |-> "ack_wait", sid |-> NoSid, status |-> NoStatus]
          /\ Ask("ACK", e.boot, e.result.seq, NoSid)
     ELSE UNCHANGED <<task, cmds>>

(* The event loop takes the lock for the next event.  An event whose       *)
(* handler raised is retried later.                                        *)
ProcessEvent ==
  /\ Unlocked
  /\ events # << >>
  /\ LET e == Head(events)
         raises == e.kind = "result" /\ ~MatchesBinding(db, e.boot, e.result)
     IN  /\ CASE e.kind = "status" -> ProcessStatus(e)
              [] e.kind = "hello" -> ProcessHello
              [] OTHER -> ProcessResult(e)
         /\ events' = IF raises THEN Append(Tail(events), e) ELSE Tail(events)
  /\ UNCHANGED <<boot, m, conn, cache, faults>>

(* The host process dies: only the database is left. *)
HostCrash ==
  /\ Fault
  /\ conn' = "down"
  /\ cache' = [boot |-> NoBoot, status |-> NoStatus]
  /\ events' = << >>
  /\ cmds' = << >>
  /\ task' = Idle
  /\ UNCHANGED <<boot, m, db>>

-------------------------------------------------------------------------------
Device  == Pulse \/ GapPasses \/ DeadlinePasses \/ DeviceReset
Requests == DeliverStatus \/ DeliverArm \/ DeliverCancel \/ DeliverAck
Manager == \/ Requests \/ CallerTimesOut \/ PollStatus \/ Connect
           \/ SeeReset \/ LinkLost \/ \E i \in 1..Capacity : ReadResults(i)
Coordinator == \/ \E s \in Sids, purpose \in Kinds : ArmBegins(s, purpose)
               \/ ArmBinds \/ CancelBegins \/ CancelReplied \/ ProcessEvent

Next == Device \/ Manager \/ Coordinator \/ HostCrash

Spec == Init /\ [][Next]_vars

(***************************************************************************)
(* The manager thread runs its loop: it connects, polls and delivers.  The *)
(* waiters of an asyncio.Lock are served in order, so the event loop gets  *)
(* the lock between requests; a full queue has room again and again.       *)
(* Nothing makes the device pour, or anyone press a button.                *)
(***************************************************************************)
Fairness ==
  /\ WF_vars(Connect)
  /\ WF_vars(SeeReset)
  /\ SF_vars(Requests)
  /\ WF_vars(conn = "down" /\ CallerTimesOut)
  /\ SF_vars(ReadResults(1))
  /\ WF_vars(ArmBinds)
  /\ WF_vars(CancelReplied)
  /\ SF_vars(ProcessEvent)

FairSpec == Spec /\ Fairness

-------------------------------------------------------------------------------
(***************************************************************************)
(* Safety.                                                                 *)
(***************************************************************************)
OpenSeq == IF m.active.present THEN {m.active.seq} ELSE {}
RetainedResults == {m.results[i] : i \in 1..Len(m.results)}

(* The pulses of boot b that its machine, or a row of the database, has a  *)
(* record of.                                                              *)
Recorded(b, mm, d) ==
  (UNION {(row.from + 1)..row.to : row \in {x \in d.results : x.boot = b}})
    \cup (UNION {(RowOf(b, mm.results[i]).from + 1)..mm.results[i].life
                   : i \in 1..Len(mm.results)})
    \cup (mm.lifetime - mm.active.pulses + 1)..mm.lifetime

(* DB-03, "never causes a false ACK": until the device is reset every      *)
(* pulse it counted is in a committed result, in a result it still         *)
(* retains, in the open event, or in its recovery counter.  No order of    *)
(* replay, commit, ACK, crash and reconnection loses one.                  *)
MeasuredPulsesKept ==
  Cardinality((1..m.lifetime) \ Recorded(boot, m, db)) = m.recovery

(* A device result makes at most one pour, whatever is replayed.           *)
ResultsCountedOnce ==
  \A i, j \in 1..Len(db.pours) :
    LET p == db.pours[i]
        q == db.pours[j]
    IN  (i < j /\ p.origin = "result" /\ q.origin = "result" /\ p.boot = q.boot)
          => (p.to <= q.from \/ q.to <= p.from)

(* An attributed event of the device always has the durable binding that   *)
(* finalize_device_result() demands, because arm_for_purpose() binds       *)
(* before it sends ARM.  A result without one could never be committed or  *)
(* acknowledged.                                                           *)
AttributedEventIsBound ==
  /\ \A r \in RetainedResults : MatchesBinding(db, boot, r)
  /\ m.active.present => MatchesBinding(db, boot, m.active)
  /\ \A i \in 1..Len(events) :
        events[i].kind = "result" => MatchesBinding(db, events[i].boot, events[i].result)

(* ADR-020: the host never calls a session failed that the device has      *)
(* armed, since only an explicit rejection makes it do so.                 *)
ArmedSessionIsNotFailed ==
  \A s \in Sids :
    (m.active.sid = s \/ \E r \in RetainedResults : r.sid = s)
      => db.sessions[s].status # "failed"

(* A session that has ended stays ended: a late status, cancel or          *)
(* reconciliation never makes it active again.                             *)
ClosedStaysClosed ==
  [][\A s \in Sids : db.sessions[s].status \in ClosedStatuses
                       => db'.sessions[s].status \in ClosedStatuses]_vars

-------------------------------------------------------------------------------
(***************************************************************************)
(* The inductive invariant: why the safety properties survive each other's *)
(* steps.  What it says of the device, the event queue and the database is *)
(* stated of arguments, because a delivery changes the device and the      *)
(* database in one step.                                                   *)
(***************************************************************************)

(* The first sequence and the first pulse that no closed event has.        *)
Floor(mm) == IF mm.active.present THEN mm.active.seq ELSE mm.next
Base(mm)  == mm.lifetime - mm.active.pulses

(* The rows of all results there is a record of: committed, retained by    *)
(* the device, or queued by the manager.                                   *)
Known(b, mm, ev, d) ==
  d.results
    \cup {RowOf(b, mm.results[i]) : i \in 1..Len(mm.results)}
    \cup {RowOf(ev[i].boot, ev[i].result) : i \in {j \in 1..Len(ev) : ev[j].kind = "result"}}

(* Two records of one boot are of the same result, or of two that follow   *)
(* each other in sequence and in pulses.                                   *)
RowsAgree(x, y) ==
  x.boot = y.boot =>
    /\ x.seq = y.seq => x = y
    /\ x.seq < y.seq => x.to <= y.from

RowIsPast(b, mm, x) ==
  /\ x \in ResultRow
  /\ x.boot \in 1..b
  /\ x.boot = b => x.seq < Floor(mm) /\ x.to <= Base(mm)

RecordsAgree(b, mm, ev, d) ==
  /\ \A x \in Known(b, mm, ev, d) : RowIsPast(b, mm, x)
  /\ \A x, y \in Known(b, mm, ev, d) : RowsAgree(x, y)

(* A queued result of the attached boot is retained until it is committed. *)
ReplaysAreHeld(b, mm, ev, d) ==
  \A i \in 1..Len(ev) :
    (ev[i].kind = "result" /\ ev[i].boot = b) =>
      \/ \E j \in 1..Len(mm.results) : mm.results[j] = ev[i].result
      \/ Committed(d, b, ev[i].result.seq)

(* A pour from a result has the committed row of that result. *)
PoursHaveRows(d) ==
  \A i \in 1..Len(d.pours) :
    d.pours[i].origin = "result" =>
      \E x \in d.results : /\ x.boot = d.pours[i].boot
                          /\ x.from = d.pours[i].from
                          /\ x.to = d.pours[i].to

(* One session is active, and only a session that exists is bound. *)
GoodDatabase(d) ==
  /\ d \in Database
  /\ \A s, t \in ActiveSessions(d) : s = t
  /\ \A s \in Sids : d.sessions[s].status = "none" => d.sessions[s].boot = NoBoot
  /\ PoursHaveRows(d)

(* The command a waiting task waits for. *)
AskedBy(t, c) ==
  \/ t.pc = "arm_status"  /\ c.op = "STATUS"
  \/ t.pc = "arm_wait"    /\ c.op = "ARM" /\ c.sid = t.sid
  \/ t.pc = "cancel_wait" /\ c.op = "CANCEL"
  \/ t.pc = "ack_wait"    /\ c.op = "ACK"

(* A task waits for the last command of the queue, and nobody for another. *)
CommandsMatchTask ==
  /\ Len(cmds) = 2 => ~cmds[1].waiting /\ cmds[2].waiting
  /\ task.pc \in {"arm_status", "arm_wait", "cancel_wait", "ack_wait"} <=>
       \E i \in 1..Len(cmds) : cmds[i].waiting
  /\ \A i \in 1..Len(cmds) : cmds[i].waiting => AskedBy(task, cmds[i])

(* What the lock protects across the awaits of its task. *)
TaskHoldsSession ==
  /\ task.pc \in {"arm_status", "arm_bind", "arm_wait"} => task.sid \in Sids
  /\ task.pc \in {"arm_status", "arm_bind"} =>
       db.sessions[task.sid].status = "arming" /\ db.sessions[task.sid].boot = NoBoot
  /\ task.pc = "arm_bind" => task.status.boot # NoBoot
  /\ task.pc \in {"cancel_wait", "cancel_reply"} => task.sid \in ActiveSessions(db)

(* A command on its way, waited for or not, does no harm when it arrives.  *)
CommandsAreSafe ==
  /\ \A i \in 1..Len(cmds) :
       LET c == cmds[i]
       IN  /\ c.op \in {"ARM", "CANCEL"} => c.sid \in Sids
           /\ c.op = "ARM" => /\ c.boot # NoBoot
                              /\ db.sessions[c.sid].boot = c.boot
                              /\ db.sessions[c.sid].seq = c.seq
                              /\ db.sessions[c.sid].status # "failed"
           /\ c.op = "ACK" => Committed(db, c.boot, c.seq)
  /\ \A i, j \in 1..Len(cmds) :
       (i # j /\ cmds[i].op = "ARM" /\ cmds[j].op = "ARM") => cmds[i].sid # cmds[j].sid

(* All of it together, which every action keeps. *)
Inv ==
  /\ TypeOK
  /\ GoodMachine(m) /\ m.lifetime <= MaxPulses
  /\ GoodDatabase(db)
  /\ CommandsMatchTask /\ TaskHoldsSession /\ CommandsAreSafe
  /\ RecordsAgree(boot, m, events, db)
  /\ ReplaysAreHeld(boot, m, events, db)
  /\ AttributedEventIsBound
  /\ ArmedSessionIsNotFailed
  /\ MeasuredPulsesKept
  /\ ResultsCountedOnce

(***************************************************************************)
(* Liveness: with finitely many faults, what the device retains is         *)
(* committed and released, however often it is replayed and whoever else   *)
(* wants the lock, unless a reset forgets it first.                        *)
(***************************************************************************)
EveryResultReleased ==
  \A b \in 1..MaxBoot, seq \in 1..MaxSeq :
    LET held == boot = b /\ \E r \in RetainedResults : r.seq = seq
    IN  held ~> ~held

-------------------------------------------------------------------------------
(***************************************************************************)
(* What the documents say and the code does not do.                        *)
(***************************************************************************)

(* TEST_MATRIX.md DOM-02, "Every accepted pulse is allocated once": no two *)
(* pours stand for the same pulses, the recovered ones included.           *)
PulseAllocatedOnce ==
  \A i, j \in 1..Len(db.pours) :
    LET p == db.pours[i]
        q == db.pours[j]
    IN  (i < j /\ p.boot = q.boot) => (p.to <= q.from \/ q.to <= p.from)

(* PROTOCOL.md, "ARMED | cancel | IDLE | no pour result": a session waits  *)
(* in finalizing only for a result that its device has or will have.       *)
FinalizingAwaitsResult ==
  \A s \in Sids :
    (db.sessions[s].status = "finalizing" /\ db.sessions[s].boot = boot) =>
      \/ m.active.sid = s
      \/ \E r \in RetainedResults : r.sid = s

===============================================================================
