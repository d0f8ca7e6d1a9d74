------------------------------ MODULE PourStore -------------------------------
(***************************************************************************)
(* The tables of src/kegpulse/persistence that a pour goes through, and    *)
(* the transactions on them: one operator per method of Repository, from   *)
(* the database before the transaction to the database after it.  A method *)
(* that raises leaves the database as it was.                              *)
(*                                                                         *)
(* One controller is attached, so a device event is named by its boot and  *)
(* its sequence.  A row that holds a pulse count is modelled by the        *)
(* interval of lifetime counts it stands for, (from, to]: the count is its *)
(* length.  Prices, volumes, kegs and participants are left out.           *)
(***************************************************************************)
EXTENDS Naturals, Sequences

CONSTANTS
  Sids,    \* session ids, one per idempotency key of an arm request
  NoSid,   \* sid of an unattributed device event
  NoBoot   \* boot_id NULL of a session that is not bound yet

ActiveStatuses == {"arming", "armed", "pouring", "settling", "finalizing"}
ClosedStatuses == {"complete", "timed_out", "interrupted", "cancelled", "failed",
                   "interrupted_uncertain"}
Purposes == {"pour", "capture"}

(* provisional_sessions; status "none" is a row that does not exist.       *)
Session == [status : {"none"} \cup ActiveStatuses \cup ClosedStatuses,
            purpose : Purposes, boot : Nat, seq : Nat, life : Nat]
NoSession == [status |-> "none", purpose |-> "pour", boot |-> NoBoot, seq |-> 0, life |-> 0]

(* device_results *)
ResultRow == [boot : Nat, seq : Nat, from : Nat, to : Nat]

(* pour_events: from a device result, or from a lifetime delta. *)
Pour == [origin : {"result", "delta"}, boot : Nat, sid : Sids \cup {NoSid},
         from : Nat, to : Nat]

Database == [sessions : [Sids -> Session], results : SUBSET ResultRow, pours : Seq(Pour)]

EmptyDatabase == [sessions |-> [s \in Sids |-> NoSession], results |-> {}, pours |-> << >>]

-------------------------------------------------------------------------------
(* active_provisional() *)
ActiveSessions(db) == {s \in Sids : db.sessions[s].status \in ActiveStatuses}

(* update_provisional_status() *)
UpdateStatus(db, s, status) == [db EXCEPT !.sessions[s].status = status]

(* Mutant: no check for another active session. *)
CreateAnyway(db, s, purpose) ==
  IF db.sessions[s].status # "none" THEN db
  ELSE [db EXCEPT !.sessions[s].status = "arming", !.sessions[s].purpose = purpose]

(* create_provisional(): a known idempotency key returns its row, another  *)
(* active session refuses this one.                                        *)
CreateProvisional(db, s, purpose) ==
  IF db.sessions[s].status # "none" \/ ActiveSessions(db) # {} THEN db
  ELSE [db EXCEPT !.sessions[s].status = "arming", !.sessions[s].purpose = purpose]

(* UNIQUE(device_id, boot_id, event_seq) of provisional_sessions *)
BoundBy(db, boot, seq) ==
  {s \in Sids : db.sessions[s].boot = boot /\ db.sessions[s].seq = seq}

(* bind_provisional(), which raises when the event is already bound. *)
CanBind(db, s, boot, seq) == BoundBy(db, boot, seq) \subseteq {s}

BindProvisional(db, s, boot, seq, life) ==
  [db EXCEPT !.sessions[s] =
     [@ EXCEPT !.status = "armed", !.boot = boot, !.seq = seq, !.life = life]]

-------------------------------------------------------------------------------
(* Mutant: the key of device_results is never looked up. *)
NeverCommitted(db, boot, seq) == FALSE

(* The primary key of device_results *)
Committed(db, boot, seq) ==
  \E row \in db.results : row.boot = boot /\ row.seq = seq

MatchesBinding(db, boot, r) ==
  r.sid # NoSid =>
    /\ db.sessions[r.sid].status # "none"
    /\ db.sessions[r.sid].boot = boot
    /\ db.sessions[r.sid].seq = r.seq

(* What the session of a committed result becomes. *)
StatusAfter(session, r) ==
  IF session.purpose # "pour" \/ r.status = "timed_out" THEN r.status ELSE "complete"

(* The row of a result: it stands for the last pulses counted before life. *)
RowOf(boot, r) ==
  [boot |-> boot, seq |-> r.seq, from |-> r.life - r.pulses, to |-> r.life]

(* finalize_device_result(): the result row, the pour unless the session   *)
(* is a capture or the event timed out without pulses, and the session's   *)
(* end, in one transaction.                                                *)
FinalizeResult(db, boot, r) ==
  LET attributed == r.sid # NoSid
      row  == RowOf(boot, r)
      pour == [origin |-> "result", boot |-> boot, sid |-> r.sid,
               from |-> row.from, to |-> row.to]
      noPour == \/ attributed /\ db.sessions[r.sid].purpose # "pour"
                \/ r.status = "timed_out" /\ r.pulses = 0
  IN  IF ~MatchesBinding(db, boot, r) \/ Committed(db, boot, r.seq) THEN db
      ELSE [db EXCEPT
              !.results  = @ \cup {row},
              !.pours    = IF noPour THEN @ ELSE Append(@, pour),
              !.sessions = IF attributed
                           THEN [@ EXCEPT ![r.sid].status = StatusAfter(db.sessions[r.sid], r)]
                           ELSE @]

(* recover_same_boot_delta(): the lifetime counted since the session was   *)
(* bound, as an unattributed pour, or as the reading of a capture.         *)
RecoverDelta(db, s, boot, current) ==
  LET pour == [origin |-> "delta", boot |-> boot, sid |-> NoSid,
               from |-> db.sessions[s].life, to |-> current]
  IN  IF db.sessions[s].purpose = "pour"
      THEN [db EXCEPT !.pours = Append(@, pour),
                      !.sessions[s].status = "interrupted_uncertain"]
      ELSE [db EXCEPT !.sessions[s].status = "complete"]

-------------------------------------------------------------------------------
(* reconcile_provisional(), for a connected device of the same identity.   *)
Reconcile(session, s, status) ==
  IF session.boot = NoBoot \/ status.boot # session.boot THEN "interrupt"
  ELSE IF status.sid = s /\ status.state # "idle" THEN "resume"
  ELSE IF status.life > session.life THEN "recover"
  ELSE "interrupt"
===============================================================================
