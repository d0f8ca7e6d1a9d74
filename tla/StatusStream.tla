----------------------------- MODULE StatusStream ------------------------------
(***************************************************************************)
(* How the status page learns of the coordinator's state: publish() puts a *)
(* snapshot in the bounded queue of the page's status socket, the socket   *)
(* sends what is queued, or the current snapshot when it was quiet for     *)
(* long, and the page also asks for the status when its socket opens and   *)
(* while it is closed (coordinator.py, app.py and web/js/app.js).          *)
(*                                                                         *)
(* One page, with one request for the status at a time; a snapshot is its  *)
(* revision.  The two ways to the page are not ordered with each other,    *)
(* and either may be cut at any time.  Building a snapshot reads the       *)
(* database and may fail: in a broadcast nothing is queued then, in the    *)
(* socket's handler the socket is lost, and a status request likewise.     *)
(***************************************************************************)
EXTENDS Integers, Sequences

CONSTANTS
  QueueSize,  \* 2, of a subscriber
  MaxRevision \* bounds the revisions of a process

ASSUME StreamAssumption == QueueSize \in Nat \ {0} /\ MaxRevision \in Nat

VARIABLES
  revision, \* coordinator._revision
  life,     \* history: how many server processes there were
  socket,   \* "closed", "accepted" or "subscribed"
  queue,    \* the subscriber's asyncio.Queue
  wire,     \* frames sent and not yet received
  latest,   \* history: the newest snapshot built for the subscribed page
  fetch,    \* "none", "sent", or the revision of the status on its way
  page      \* state.snapshot, and the process it came from

streamVars == <<revision, life, socket, queue, wire, latest, fetch, page>>

Revisions == 0..MaxRevision
MaxWire == 2 \* bounds the frames on their way

StreamTypeOK ==
  /\ revision \in Revisions /\ life \in Nat
  /\ socket \in {"closed", "accepted", "subscribed"}
  /\ queue \in Seq(Revisions) /\ Len(queue) <= QueueSize
  /\ wire \in Seq(Revisions) /\ Len(wire) <= MaxWire
  /\ latest \in Revisions
  /\ socket # "subscribed" => queue = << >> /\ wire = << >> /\ latest = 0
  /\ fetch \in [kind : {"none", "sent"}] \cup [kind : {"answered"}, revision : Revisions]
  /\ page \in [revision : Revisions, life : 0..life]

NoFetch == [kind |-> "none"]

StreamInit ==
  /\ revision = 0 /\ life = 0
  /\ socket = "closed" /\ queue = << >> /\ wire = << >> /\ latest = 0
  /\ fetch = NoFetch
  /\ page = [revision |-> 0, life |-> 0]

(* The process ended, or a new one begins: it knows no page. *)
Disconnected ==
  /\ socket' = "closed" /\ queue' = << >> /\ wire' = << >> /\ latest' = 0
  /\ fetch' = NoFetch

NewProcess == revision' = 0 /\ life' = life + 1 /\ Disconnected /\ UNCHANGED page
EndProcess == Disconnected /\ UNCHANGED <<revision, life, page>>
-------------------------------------------------------------------------------
(* Mutant: a full queue keeps what it has. *)
OfferedIfRoom(snapshot) ==
  IF Len(queue) = QueueSize THEN queue ELSE Append(queue, snapshot)

(* A full queue loses its oldest snapshot. *)
Offered(snapshot) ==
  Append(IF Len(queue) = QueueSize THEN Tail(queue) ELSE queue, snapshot)

(* The revision is raised before the snapshot is built. *)
Revise == revision < MaxRevision /\ revision' = revision + 1

(* publish(), and the broadcasts of the event loop, arm and cancel. *)
Publish ==
  /\ Revise
  /\ IF socket = "subscribed" THEN queue' = Offered(revision') /\ latest' = revision'
                              ELSE UNCHANGED <<queue, latest>>
  /\ UNCHANGED <<life, socket, wire, fetch, page>>

(* The snapshot cannot be built.  The event loop goes on after it, publish *)
(* and the requests to arm and to cancel report an error; none is queued.  *)
BroadcastFails ==
  /\ Revise
  /\ socket = "subscribed"
  /\ UNCHANGED <<life, socket, queue, wire, latest, fetch, page>>

(* The page's open handler asks for the status at once. *)
Accept ==
  /\ socket = "closed"
  /\ socket' = "accepted"
  /\ fetch' = IF fetch = NoFetch THEN [kind |-> "sent"] ELSE fetch
  /\ UNCHANGED <<revision, life, queue, wire, latest, page>>

(* Accepting is awaited, so a publish may come before subscribe(), which   *)
(* begins with the current snapshot.                                       *)
Subscribe ==
  /\ socket = "accepted"
  /\ socket' = "subscribed"
  /\ queue' = <<revision>> /\ latest' = revision
  /\ UNCHANGED <<revision, life, wire, fetch, page>>

SendQueued ==
  /\ queue # << >> /\ Len(wire) < MaxWire
  /\ wire' = Append(wire, Head(queue))
  /\ queue' = Tail(queue)
  /\ UNCHANGED <<revision, life, socket, latest, fetch, page>>

(* Mutant: the heartbeat repeats the last snapshot. *)
SendHeartbeatOfLast ==
  /\ socket = "subscribed" /\ Len(wire) < MaxWire
  /\ wire' = Append(wire, latest)
  /\ UNCHANGED <<revision, life, socket, queue, latest, fetch, page>>

(* After 20 s without a snapshot; one may be queued before the wait ends.  *)
SendHeartbeat ==
  /\ socket = "subscribed" /\ Len(wire) < MaxWire
  /\ wire' = Append(wire, revision) /\ latest' = revision
  /\ UNCHANGED <<revision, life, socket, queue, fetch, page>>

(* The page's refresh(), every 1.5 s while its socket is closed. *)
Poll ==
  /\ socket = "closed" /\ fetch = NoFetch
  /\ fetch' = [kind |-> "sent"]
  /\ UNCHANGED <<revision, life, socket, queue, wire, latest, page>>

ServeStatus ==
  /\ fetch.kind = "sent"
  /\ fetch' = [kind |-> "answered", revision |-> revision]
  /\ UNCHANGED <<revision, life, socket, queue, wire, latest, page>>

(* applySnapshot *)
Apply(snapshot) ==
  page' = IF snapshot < page.revision THEN page
                                      ELSE [revision |-> snapshot, life |-> life]

ReceiveFrame ==
  /\ wire # << >>
  /\ Apply(Head(wire))
  /\ wire' = Tail(wire)
  /\ UNCHANGED <<revision, life, socket, queue, latest, fetch>>

ReceiveStatus ==
  /\ fetch.kind = "answered"
  /\ Apply(fetch.revision)
  /\ fetch' = NoFetch
  /\ UNCHANGED <<revision, life, socket, queue, wire, latest>>

(* A connection is lost, with what is on its way; by either side. *)
LoseSocket ==
  /\ socket # "closed"
  /\ socket' = "closed" /\ queue' = << >> /\ wire' = << >> /\ latest' = 0
  /\ UNCHANGED <<revision, life, fetch, page>>

LoseFetch ==
  /\ fetch # NoFetch
  /\ fetch' = NoFetch
  /\ UNCHANGED <<revision, life, socket, queue, wire, latest, page>>

StreamStep ==
  \/ Publish \/ BroadcastFails \/ Accept \/ Subscribe \/ SendQueued \/ SendHeartbeat
  \/ Poll \/ ServeStatus \/ ReceiveFrame \/ ReceiveStatus \/ LoseSocket \/ LoseFetch
-------------------------------------------------------------------------------
(* The page shows this snapshot or a newer one, or it holds a higher       *)
(* revision of an earlier process, which app.js takes for newer.           *)
Shows(snapshot) ==
  \/ page.life = life /\ page.revision \in snapshot..revision
  \/ page.life < life /\ page.revision > snapshot

(* No snapshot that was built for a page is lost to it: once nothing is on *)
(* its way to a subscribed page, it shows the newest one, however          *)
(* publishing, subscribing, heartbeats, the poll and the loss of either    *)
(* connection were interleaved (docs/DECISIONS.md:72: "reconnect always    *)
(* refreshes a complete snapshot").  That is the current state, unless a   *)
(* broadcast failed since.                                                 *)
PageShowsNewest ==
  socket = "subscribed" /\ queue = << >> /\ wire = << >> => Shows(latest)

(* A page that stays subscribed ends up with the current state once it     *)
(* changes no more, also when the last broadcasts failed                   *)
(* (coordinator.py:121: "must not terminate retained-result processing. A  *)
(* later event/poll gets a fresh snapshot").                               *)
PageCatchesUp == <>[](socket = "subscribed") => <>[]Shows(revision)

-------------------------------------------------------------------------------
(* Why the first holds: nothing on its way is newer than the state, ...    *)
NothingFromTheFuture ==
  /\ \A i \in 1..Len(queue) : queue[i] <= revision
  /\ \A i \in 1..Len(wire) : wire[i] <= revision
  /\ latest <= revision
  /\ fetch.kind = "answered" => fetch.revision <= revision
  /\ page.life = life => page.revision <= revision

(* ... and the newest snapshot for a subscribed page is on its way or has  *)
(* come.                                                                   *)
Holds(frames, snapshot) == \E i \in 1..Len(frames) : frames[i] = snapshot

NewestIsNotLost ==
  socket = "subscribed" => Holds(queue, latest) \/ Holds(wire, latest) \/ Shows(latest)

StreamInv == StreamTypeOK /\ NothingFromTheFuture /\ NewestIsNotLost
===============================================================================
