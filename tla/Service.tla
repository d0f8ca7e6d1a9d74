-------------------------------- MODULE Service --------------------------------
(***************************************************************************)
(* A KegPulse installation over its life: the server is started, stopped   *)
(* and killed, its database is restored from a backup in between, and the  *)
(* status page of the kiosk outlives every server process.                 *)
(***************************************************************************)
EXTENDS DataDirectory, StatusStream

vars == <<directoryVars, streamVars>>

Init == DirectoryInit /\ StreamInit

Running == lock = "server"

Start == StartServer /\ NewProcess
Stop  == StopServer /\ EndProcess
Crash == CrashServer /\ EndProcess

(* A committed transaction is published by the handler that made it. *)
Transact == Commit /\ UNCHANGED streamVars

Serve == Running /\ StreamStep /\ UNCHANGED directoryVars

Offline == (SetPinOffline \/ RestoreStep) /\ UNCHANGED streamVars

Next == Start \/ Stop \/ Crash \/ Transact \/ Serve \/ Offline

Spec == Init /\ [][Next]_vars

(* The status socket's handler waits for a snapshot or for 20 s and sends  *)
(* again and again, and the page reads what comes.  Nobody has to publish, *)
(* to reconnect or to start a server, and nothing fails by fairness.       *)
Stream(step) == Running /\ step /\ UNCHANGED directoryVars

FairSpec ==
  /\ Spec
  /\ WF_vars(Stream(SendQueued \/ SendHeartbeat))
  /\ WF_vars(Stream(ReceiveFrame))

TypeOK == DirectoryTypeOK /\ StreamTypeOK

(* With the type invariant, why the properties of both parts hold. *)
Inv == TypeOK /\ DirectoryInv /\ StreamInv
===============================================================================
