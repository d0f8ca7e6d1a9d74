------------------------------ MODULE MediaStore ------------------------------
(***************************************************************************)
(* The media files of app.py and the rows and requests that name them:     *)
(* pour clips with their retention, the kiosk's camera request, pour       *)
(* photos and participants' avatars.                                       *)
(*                                                                         *)
(* Handlers run on the event loop, one at a time between two awaits (loop  *)
(* is the one that runs); a clip is stored by a worker thread, so several  *)
(* uploads are between two of its file operations at once; and the process *)
(* may stop after any operation.  A body, a hash and a file name are left  *)
(* out; mtime and captured_at are the order in which the temporary files    *)
(* and the rows were written.                                              *)
(***************************************************************************)
EXTENDS Integers, FiniteSets

CONSTANTS
  Uploads,      \* clip uploads, each used once
  Photos,       \* photo uploads, numbered in the order of their names' use
  KeepEvidence, \* video_keep()
  KeepTests,    \* 2, for camera checks
  KeepPhotos,   \* UNATTRIBUTED_PHOTO_KEEP
  MaxRequests   \* bounds the requests of all kinds

ASSUME MediaAssumption ==
  /\ KeepEvidence \in Nat \ {0} /\ KeepTests \in Nat \ {0} /\ KeepPhotos \in Nat \ {0}
  /\ Photos \subseteq Nat /\ MaxRequests \in Nat

VARIABLES
  camera,      \* coordinator._camera_request
  uploads,     \* the clip uploads
  temporaries, \* *.tmp in the videos folder, by upload
  clips,       \* *.webm in the videos folder, by upload
  writes,      \* how many temporary files were written
  pouring,     \* a pour session is pouring or settling
  photoFiles,  \* files in the photos folder
  photoRows,   \* pour_photos
  avatar,      \* one participant: avatar_updated_at is set; the file exists
  loop,        \* the handler that runs on the event loop
  requests     \* how many requests there were

clipVars  == <<uploads, temporaries, clips, writes>>
photoVars == <<pouring, photoFiles, photoRows>>
vars == <<camera, clipVars, photoVars, avatar, loop, requests>>

(* The label in a clip's name: pour, unattributed and manual share a pool. *)
Labels == {"pour", "manual", "cameratest"}
Settled == {"done", "failed", "expired"}

NoRequest == [id |-> 0, status |-> "none", file |-> {}]
NoUpload == [phase |-> "unused", label |-> "pour", request |-> 0, mtime |-> 0, seen |-> {}]
NoJob == [kind |-> "none", photo |-> 0, attributed |-> FALSE, stale |-> {}]

Phases == {"unused", "body", "written", "replaced", "listed", "pruned", "ok", "failed"}
Jobs == {"none", "photo_row", "prune", "unlink", "mark_missing", "mark", "unlink_avatar"}

Requests == 0..MaxRequests
Rows == [photo : Photos, attributed : BOOLEAN, captured : Requests]

(* A temporary file is renamed, not copied: no upload has both files. *)
TypeOK ==
  /\ camera \in [id : 0..requests, status : {"none", "pending"} \cup Settled,
                 file : SUBSET Uploads]
  /\ uploads \in [Uploads -> [phase : Phases, label : Labels, request : Requests,
                              mtime : 0..writes, seen : SUBSET Uploads]]
  /\ temporaries \cup clips \subseteq Uploads /\ temporaries \cap clips = {}
  /\ writes \in Nat
  /\ pouring \in BOOLEAN
  /\ photoFiles \subseteq Photos /\ photoRows \subseteq Rows
  /\ avatar \in [row : BOOLEAN, file : BOOLEAN]
  /\ loop \in [kind : Jobs, photo : Photos \cup {0}, attributed : BOOLEAN,
               stale : SUBSET Photos]
  /\ requests \in Requests

Init ==
  /\ camera = NoRequest
  /\ uploads = [u \in Uploads |-> NoUpload]
  /\ temporaries = {} /\ clips = {} /\ writes = 0
  /\ pouring = FALSE
  /\ photoFiles = {} /\ photoRows = {}
  /\ avatar = [row |-> FALSE, file |-> FALSE]
  /\ loop = NoJob
  /\ requests = 0

Idle == loop = NoJob
NewRequest == Idle /\ requests < MaxRequests /\ requests' = requests + 1

-------------------------------------------------------------------------------
(* The camera request: one pending at a time, answered by the kiosk.       *)

(* request_camera_clip() and request_recording(): no await between them.   *)
RecordClip ==
  /\ NewRequest
  /\ camera.status # "pending"
  /\ camera' = [id |-> requests', status |-> "pending", file |-> {}]
  /\ UNCHANGED <<clipVars, photoVars, avatar, loop>>

(* camera_request() expires a pending request after its grace period.      *)
Expire ==
  /\ camera.status = "pending"
  /\ camera' = [camera EXCEPT !.status = "expired"]
  /\ UNCHANGED <<clipVars, photoVars, avatar, loop, requests>>

AnswersSettled(id) == camera.status # "none" /\ camera.id = id

(* resolve_recording() looks again at the request it is to settle. *)
Answers(id) == camera.status = "pending" /\ camera.id = id

(* fail_requested_video() *)
FailRecording(id) ==
  /\ Idle
  /\ Answers(id)
  /\ camera' = [camera EXCEPT !.status = "failed"]
  /\ UNCHANGED <<clipVars, photoVars, avatar, loop, requests>>

-------------------------------------------------------------------------------
(* Clip uploads: a check, an await, _store_pour_video() in a thread.       *)

(* The pools of the retention; a clip's pool is told by its label. *)
OnePool(label) == Labels
Pool(label) == IF label = "cameratest" THEN {"cameratest"} ELSE {"pour", "manual"}
Keep(label) == IF label = "cameratest" THEN KeepTests ELSE KeepEvidence

Newer(u, v) == uploads[u].mtime > uploads[v].mtime

(* An upload's request is checked, then its body awaited. *)
UploadBegins(u, label) ==
  /\ NewRequest
  /\ uploads[u].phase = "unused"
  /\ label = "manual" => camera.status = "pending"
  /\ uploads' = [uploads EXCEPT ![u] =
       [phase |-> "body", label |-> label, mtime |-> 0, seen |-> {},
        request |-> IF label = "manual" THEN camera.id ELSE 0]]
  /\ UNCHANGED <<camera, temporaries, clips, writes, photoVars, avatar, loop>>

To(u, phase) == uploads' = [uploads EXCEPT ![u].phase = phase]

(* The body is written to a temporary file, or the disk refuses. *)
WriteTemporary(u) ==
  /\ uploads[u].phase = "body"
  /\ \/ To(u, "failed") /\ UNCHANGED <<temporaries, writes>>
     \/ /\ writes' = writes + 1
        /\ uploads' = [uploads EXCEPT ![u].phase = "written", ![u].mtime = writes']
        /\ temporaries' = temporaries \cup {u}
  /\ UNCHANGED <<camera, clips, photoVars, avatar, loop, requests>>

ReplaceIgnoresLoss(u) ==
  /\ uploads[u].phase = "written"
  /\ To(u, "replaced")
  /\ clips' = IF u \in temporaries THEN clips \cup {u} ELSE clips
  /\ temporaries' = temporaries \ {u}
  /\ UNCHANGED <<camera, writes, photoVars, avatar, loop, requests>>

ReplaceCopies(u) ==
  /\ uploads[u].phase = "written"
  /\ u \in temporaries
  /\ To(u, "replaced")
  /\ clips' = clips \cup {u}
  /\ UNCHANGED <<camera, temporaries, writes, photoVars, avatar, loop, requests>>

(* os.replace(), which fails when another upload has swept the temporary   *)
(* file away; then the upload fails.                                       *)
Replace(u) ==
  /\ uploads[u].phase = "written"
  /\ IF u \in temporaries
     THEN To(u, "replaced") /\ clips' = clips \cup {u}
     ELSE To(u, "failed") /\ UNCHANGED clips
  /\ temporaries' = temporaries \ {u}
  /\ UNCHANGED <<camera, writes, photoVars, avatar, loop, requests>>

(* Every *.tmp is deleted, and the pools are listed. *)
SweepAndList(u) ==
  /\ uploads[u].phase = "replaced"
  /\ temporaries' = {}
  /\ uploads' = [uploads EXCEPT ![u].phase = "listed", ![u].seen = clips]
  /\ UNCHANGED <<camera, clips, writes, photoVars, avatar, loop, requests>>

(* Of the listed clips of a pool, those after the newest Keep. *)
Stale(listed, label) ==
  LET pool == {c \in listed : uploads[c].label \in Pool(label)}
  IN  {c \in pool : Cardinality({n \in pool : Newer(n, c)}) >= Keep(label)}

Vanished(u, label) ==
  \E c \in uploads[u].seen \ clips : uploads[c].label \in Pool(label)

(* Each pool is sorted by mtime, which fails for a clip another upload has *)
(* deleted since the listing, and cut to its Keep newest clips.            *)
Prune(u) ==
  LET seen == uploads[u].seen
      evidence == IF Vanished(u, "pour") THEN {} ELSE Stale(seen, "pour")
      fails == Vanished(u, "pour") \/ Vanished(u, "cameratest")
  IN  /\ uploads[u].phase = "listed"
      /\ clips' = clips \ (evidence \cup IF fails THEN {} ELSE Stale(seen, "cameratest"))
      /\ uploads' = [uploads EXCEPT
           ![u].phase = IF fails THEN "failed"
                        ELSE IF uploads[u].label = "manual" THEN "pruned" ELSE "ok",
           ![u].seen = {}]
      /\ UNCHANGED <<camera, temporaries, writes, photoVars, avatar, loop, requests>>

(* upload_requested_video() settles the request, if it still is pending.   *)
Resolve(u) ==
  /\ Idle
  /\ uploads[u].phase = "pruned"
  /\ IF Answers(uploads[u].request)
     THEN To(u, "ok") /\ camera' = [camera EXCEPT !.status = "done", !.file = {u}]
     ELSE To(u, "failed") /\ UNCHANGED camera
  /\ UNCHANGED <<temporaries, clips, writes, photoVars, avatar, loop, requests>>

-------------------------------------------------------------------------------
(* Photos: the file, then the row, then the retention, in one handler.     *)
Run(job) == loop' = job

(* The session moves as the coordinator reports it. *)
SessionMoves ==
  /\ Idle
  /\ pouring' = ~pouring
  /\ UNCHANGED <<camera, clipVars, photoFiles, photoRows, avatar, loop, requests>>

(* A photo is written and renamed. *)
StorePhoto(photo, attributed) ==
  /\ NewRequest
  /\ \A p \in Photos : p < photo => p \in photoFiles \cup {r.photo : r \in photoRows}
  /\ photo \notin photoFiles
  /\ photoFiles' = photoFiles \cup {photo}
  /\ Run([NoJob EXCEPT !.kind = "photo_row", !.photo = photo, !.attributed = attributed])
  /\ UNCHANGED <<camera, clipVars, pouring, photoRows, avatar>>

UploadPourPhoto(photo) == StorePhoto(photo, TRUE)
UploadUnattributedPhoto(photo) == StorePhoto(photo, FALSE)

(* add_pour_photo(), which refuses a session that is not pouring, or fails: *)
(* then the file goes.                                                     *)
AddPhotoRow ==
  LET row == [photo |-> loop.photo, attributed |-> loop.attributed, captured |-> requests]
  IN  /\ loop.kind = "photo_row"
      /\ \/ /\ loop.attributed => pouring
            /\ photoRows' = photoRows \cup {row}
            /\ Run(IF loop.attributed THEN NoJob ELSE [loop EXCEPT !.kind = "prune"])
            /\ UNCHANGED photoFiles
         \/ /\ photoFiles' = photoFiles \ {loop.photo}
            /\ Run(NoJob)
            /\ UNCHANGED photoRows
      /\ UNCHANGED <<camera, clipVars, pouring, avatar, requests>>

(* The photos of the rows without a session, after the newest KeepPhotos.  *)
StalePhotos ==
  LET rows == {r \in photoRows : ~r.attributed}
  IN  {r.photo : r \in {s \in rows :
         Cardinality({n \in rows : n.captured > s.captured}) >= KeepPhotos}}

PrunePhotoRowsInsideTry ==
  /\ loop.kind = "prune"
  /\ \/ /\ photoRows' = {r \in photoRows : r.photo \notin StalePhotos}
        /\ Run([NoJob EXCEPT !.kind = "unlink", !.stale = StalePhotos])
        /\ UNCHANGED photoFiles
     \/ Run(NoJob) /\ photoFiles' = photoFiles \ {loop.photo} /\ UNCHANGED photoRows
  /\ UNCHANGED <<camera, clipVars, pouring, avatar, requests>>

(* prune_unattributed_photos(), which may fail. *)
PrunePhotoRows ==
  /\ loop.kind = "prune"
  /\ \/ /\ photoRows' = {r \in photoRows : r.photo \notin StalePhotos}
        /\ Run([NoJob EXCEPT !.kind = "unlink", !.stale = StalePhotos])
     \/ Run(NoJob) /\ UNCHANGED photoRows
  /\ UNCHANGED <<camera, clipVars, pouring, photoFiles, avatar, requests>>

UnlinkPhotos ==
  /\ loop.kind = "unlink"
  /\ photoFiles' = photoFiles \ loop.stale
  /\ Run(NoJob)
  /\ UNCHANGED <<camera, clipVars, pouring, photoRows, avatar, requests>>

-------------------------------------------------------------------------------
(* Avatars: the file is replaced before the row is marked, and deleted     *)
(* after the row is cleared.                                               *)

(* _write_avatar() *)
WriteAvatar(job) ==
  /\ NewRequest
  /\ avatar' = [avatar EXCEPT !.file = TRUE]
  /\ Run([NoJob EXCEPT !.kind = job])
  /\ UNCHANGED <<camera, clipVars, photoVars>>

(* The active session was looked at before the body was awaited, so it     *)
(* says nothing by now.                                                    *)
SetAvatarIfMissing == WriteAvatar("mark_missing")
ReplaceAvatar == WriteAvatar("mark")

(* mark_participant_avatar(); a refused upload has replaced the file.      *)
MarkAvatar ==
  /\ loop.kind \in {"mark_missing", "mark"}
  /\ avatar' = [avatar EXCEPT !.row = TRUE]
  /\ Run(NoJob)
  /\ UNCHANGED <<camera, clipVars, photoVars, requests>>

(* delete_participant_avatar() *)
DeleteAvatar ==
  /\ NewRequest
  /\ avatar' = [avatar EXCEPT !.row = FALSE]
  /\ Run([NoJob EXCEPT !.kind = "unlink_avatar"])
  /\ UNCHANGED <<camera, clipVars, photoVars>>

UnlinkAvatar ==
  /\ loop.kind = "unlink_avatar"
  /\ avatar' = [avatar EXCEPT !.file = FALSE]
  /\ Run(NoJob)
  /\ UNCHANGED <<camera, clipVars, photoVars, requests>>

-------------------------------------------------------------------------------
(* The process stops: files and rows stay where they are. *)
Crash ==
  /\ camera' = NoRequest
  /\ uploads' = [u \in Uploads |->
       IF uploads[u].phase \in {"unused", "ok"} THEN uploads[u]
       ELSE [uploads[u] EXCEPT !.phase = "failed", !.seen = {}]]
  /\ loop' = NoJob
  /\ UNCHANGED <<temporaries, clips, writes, photoVars, avatar, requests>>

Next ==
  \/ RecordClip \/ Expire
  \/ \E id \in 1..MaxRequests : FailRecording(id)
  \/ \E u \in Uploads :
       \/ \E label \in Labels : UploadBegins(u, label)
       \/ WriteTemporary(u) \/ Replace(u) \/ SweepAndList(u) \/ Prune(u) \/ Resolve(u)
  \/ SessionMoves
  \/ \E photo \in Photos : UploadPourPhoto(photo) \/ UploadUnattributedPhoto(photo)
  \/ AddPhotoRow \/ PrunePhotoRows \/ UnlinkPhotos
  \/ SetAvatarIfMissing \/ ReplaceAvatar \/ MarkAvatar \/ DeleteAvatar \/ UnlinkAvatar
  \/ Crash

Spec == Init /\ [][Next]_vars

-------------------------------------------------------------------------------
(* Clips of u's pool, younger than u, that are on disk. *)
Successors(u) ==
  {c \in clips : (uploads[c].label = "cameratest") = (uploads[u].label = "cameratest")
                 /\ Newer(c, u)}

(* A clip that was stored is there, or gave way to enough younger ones. *)
KeptOrSuperseded(u) ==
  u \in clips \/ Cardinality(Successors(u)) >= Keep(uploads[u].label)

(* Uploads that prune at the same time, from listings of different ages,   *)
(* never delete a clip that is among the newest of its own pool: camera    *)
(* checks do not evict pour evidence (app.py _store_pour_video).           *)
RetentionKeepsNewest ==
  [][\A u \in clips \ clips' : Cardinality(Successors(u)) >= Keep(uploads[u].label)]_vars

(* An upload that was answered 201 has its clip on disk, although other    *)
(* uploads delete every temporary file they see; and a request that is     *)
(* done names such a clip that was recorded for that very request: the     *)
(* check, the await, the storing thread and the settlement may each see    *)
(* another one (app.py _store_pour_video, upload_requested_video).         *)
AnsweredClipIsStored ==
  /\ \A u \in Uploads : uploads[u].phase = "ok" => KeptOrSuperseded(u)
  /\ camera.status = "done" =>
       \E u \in camera.file :
         uploads[u].request = camera.id /\ KeptOrSuperseded(u)

(* A request is settled once: a late clip or a late failure report does    *)
(* not change it, and a pending one is not replaced                        *)
(* (coordinator.py resolve_recording, request_recording).                  *)
RequestSettledOnce ==
  [][camera' \notin {camera, NoRequest} =>
       IF camera.status = "pending" THEN camera'.id = camera.id
       ELSE camera'.id > camera.id]_vars

(* Every photo the evidence pages can list, and every avatar, can be       *)
(* served, wherever a handler failed or the process stopped between the    *)
(* file and its row (app.py upload_pour_photo, upload_unattributed_photo,  *)
(* _write_avatar, delete_participant_avatar).                              *)
RowsHaveFiles ==
  /\ \A row \in photoRows : row.photo \in photoFiles
  /\ avatar.row => avatar.file
-------------------------------------------------------------------------------
(* Why they hold: a clip has a time of its own while it is on disk, ...    *)
ClipsAreWritten ==
  /\ IsFiniteSet(clips)
  /\ \A u \in clips \cup temporaries : uploads[u].phase \notin {"unused", "body"}

(* ... is stored from the replace on, not only once it is answered, ...    *)
ClipsAreKept ==
  /\ \A u \in Uploads :
       uploads[u].phase \in {"replaced", "listed", "pruned", "ok"} => KeptOrSuperseded(u)
  /\ camera.status = "done" =>
       \E u \in camera.file : uploads[u].request = camera.id /\ uploads[u].phase = "ok"

(* ... and the handler that runs knows what it does not delete.            *)
HandlerOwnsFile ==
  /\ loop.kind = "photo_row" =>
       loop.photo \in photoFiles /\ loop.photo \notin {r.photo : r \in photoRows}
  /\ loop.kind = "unlink" => \A r \in photoRows : r.photo \notin loop.stale
  /\ loop.kind \in {"mark_missing", "mark"} => avatar.file
  /\ loop.kind = "unlink_avatar" => ~avatar.row

Inv == TypeOK /\ ClipsAreWritten /\ ClipsAreKept /\ RowsHaveFiles /\ HandlerOwnsFile
===============================================================================
