---------------------------- MODULE MediaStore_proofs ----------------------------
(***************************************************************************)
(* Safety of the media files for any number of uploads, photos and         *)
(* requests and every retention: MediaStore's Inv is inductive.  The       *)
(* argument that is not local is the retention's.  A clip is deleted by an *)
(* upload that saw enough younger clips of its pool and found them all     *)
(* again; and however many clips it deletes at once, the youngest of those *)
(* has its younger clips left (SurvivorsRemain).                           *)
(***************************************************************************)
EXTENDS MediaStore, TLAPS, FiniteSetTheorems, WellFoundedInduction

USE MediaAssumption

-------------------------------------------------------------------------------
(***************************************************************************)
(* Types.                                                                  *)
(***************************************************************************)
UploadType(w) == [phase : Phases, label : Labels, request : Requests,
                  mtime : 0..w, seen : SUBSET Uploads]

(* What every step leaves of an upload that has begun. *)
SameClip(v) ==
  /\ uploads'[v].label = uploads[v].label
  /\ uploads'[v].mtime = uploads[v].mtime
  /\ uploads'[v].request = uploads[v].request

LEMMA UploadFields ==
  ASSUME TypeOK, NEW u \in Uploads
  PROVE  /\ uploads[u].phase \in Phases /\ uploads[u].label \in Labels
         /\ uploads[u].request \in Requests /\ uploads[u].mtime \in Nat
         /\ uploads[u].mtime <= writes /\ uploads[u].seen \subseteq Uploads
         /\ writes \in Nat
BY DEF TypeOK

LEMMA ToStep ==
  ASSUME TypeOK, NEW u \in Uploads, NEW phase \in Phases, To(u, phase)
  PROVE  /\ uploads' \in [Uploads -> UploadType(writes)]
         /\ uploads'[u].phase = phase
         /\ \A v \in Uploads : SameClip(v) /\ (v # u => uploads'[v] = uploads[v])
BY DEF TypeOK, To, UploadType, SameClip

LEMMA Revised ==
  ASSUME NEW w \in Nat, NEW row \in UploadType(w), NEW phase \in Phases,
         NEW seen \in SUBSET Uploads, NEW mtime \in 0..w
  PROVE  /\ [row EXCEPT !.phase = phase, !.seen = seen] \in UploadType(w)
         /\ [row EXCEPT !.phase = phase, !.mtime = mtime] \in UploadType(w)
BY DEF UploadType

LEMMA KeepIsPositive == ASSUME NEW label PROVE Keep(label) \in Nat
BY DEF Keep

-------------------------------------------------------------------------------
(***************************************************************************)
(* The retention.                                                          *)
(***************************************************************************)
Below == {ss \in Nat \X Nat : ss[1] < ss[2]}

LEMMA Least ==
  ASSUME NEW T \in SUBSET Nat, T # {}
  PROVE  \E n \in T : \A k \in T : n <= k
<1>1. IsWellFoundedOn(Below, Nat)
  BY NatLessThanWellFounded DEF OpToRel, Below
<1>2. PICK n \in T : \A k \in T : <<k, n>> \notin Below
  BY <1>1, WFMin
<1>3. ASSUME NEW k \in T PROVE n <= k
  <2>1. k \in Nat /\ n \in Nat /\ <<k, n>> \notin Below
    BY <1>2
  <2>2. ~(k < n)
    BY <2>1 DEF Below
  <2>. QED  BY <2>1, <2>2
<1>. QED  BY <1>3

(* Of some clips, one was written last. *)
LEMMA Youngest ==
  ASSUME TypeOK, NEW D \in SUBSET Uploads, D # {}
  PROVE  \E d \in D : \A e \in D : ~Newer(e, d)
<1>. DEFINE T == {k \in Nat : \E d \in D : k = writes - uploads[d].mtime}
<1>1. \A d \in D : writes - uploads[d].mtime \in Nat
  BY UploadFields
<1>2. T \in SUBSET Nat /\ T # {}
  BY <1>1
<1>3. PICK n \in T : \A k \in T : n <= k
  <2>. HIDE DEF T
  <2>. QED  BY <1>2, Least
<1>4. PICK d \in D : n = writes - uploads[d].mtime
  OBVIOUS
<1>5. ASSUME NEW e \in D PROVE ~Newer(e, d)
  <2>1. writes - uploads[d].mtime <= writes - uploads[e].mtime
    BY <1>1, <1>3, <1>4
  <2>. QED  BY <2>1, UploadFields DEF Newer
<1>. QED  BY <1>5

(* Of K clips or more, K are left, if each that is deleted has K younger   *)
(* ones among them: those of the youngest that is deleted.                 *)
LEMMA SurvivorsRemain ==
  ASSUME TypeOK, NEW S \in SUBSET Uploads, IsFiniteSet(S), NEW D, NEW K \in Nat,
         Cardinality(S) >= K,
         \A d \in D \cap S : \E N \in SUBSET S :
            Cardinality(N) >= K /\ \A n \in N : Newer(n, d)
  PROVE  Cardinality(S \ D) >= K
<1>1. CASE D \cap S = {}
  <2>1. S \ D = S
    BY <1>1
  <2>. QED  BY <2>1
<1>2. CASE D \cap S # {}
  <2>1. PICK d \in D \cap S : \A e \in D \cap S : ~Newer(e, d)
    BY <1>2, Youngest
  <2>2. PICK N \in SUBSET S : Cardinality(N) >= K /\ \A n \in N : Newer(n, d)
    OBVIOUS
  <2>3. N \in SUBSET (S \ D)
    BY <2>1, <2>2
  <2>4. IsFiniteSet(S \ D)
    BY FS_Subset
  <2>5. Cardinality(N) <= Cardinality(S \ D)
    BY <2>3, <2>4, FS_Subset
  <2>6. IsFiniteSet(N) /\ Cardinality(N) \in Nat /\ Cardinality(S \ D) \in Nat
    BY <2>3, <2>4, FS_Subset, FS_CardinalityType
  <2>. QED  BY <2>2, <2>5, <2>6
<1>. QED  BY <1>1, <1>2

LEMMA SuccessorsFinite ==
  ASSUME TypeOK, ClipsAreWritten, NEW u
  PROVE  /\ Successors(u) \in SUBSET clips /\ Successors(u) \in SUBSET Uploads
         /\ IsFiniteSet(Successors(u)) /\ Cardinality(Successors(u)) \in Nat
<1>1. Successors(u) \in SUBSET clips
  BY DEF Successors
<1>2. clips \subseteq Uploads /\ IsFiniteSet(clips)
  BY DEF TypeOK, ClipsAreWritten
<1>. QED  BY <1>1, <1>2, FS_Subset, FS_CardinalityType

(* An upload deletes what it saw enough younger clips of, all of which it  *)
(* found again.                                                            *)
LEMMA DeletedIsSuperseded ==
  ASSUME TypeOK, ClipsAreWritten, NEW v \in Uploads, Prune(v), NEW d \in clips \ clips'
  PROVE  Cardinality(Successors(d)) >= Keep(uploads[d].label)
<1>. DEFINE seen == uploads[v].seen
<1>1. PICK label \in {"pour", "cameratest"} : d \in Stale(seen, label) /\ ~Vanished(v, label)
  BY DEF Prune
<1>. DEFINE pool == {c \in seen : uploads[c].label \in Pool(label)}
            N == {n \in pool : Newer(n, d)}
<1>2. d \in pool /\ Cardinality(N) >= Keep(label)
  BY <1>1 DEF Stale
<1>3. pool \subseteq clips
  BY <1>1 DEF Vanished
<1>4. \A c \in pool : (uploads[c].label = "cameratest") = (label = "cameratest")
  <2>1. seen \subseteq Uploads
    BY UploadFields
  <2>. QED  BY <2>1 DEF Pool
<1>5. N \in SUBSET Successors(d)
  BY <1>2, <1>3, <1>4 DEF Successors
<1>6. Keep(label) = Keep(uploads[d].label)
  BY <1>2, <1>4 DEF Keep
<1>. HIDE DEF N
<1>7. Cardinality(N) <= Cardinality(Successors(d)) /\ Cardinality(N) \in Nat
  BY <1>5, SuccessorsFinite, FS_Subset, FS_CardinalityType
<1>. QED  BY <1>2, <1>6, <1>7, KeepIsPositive, SuccessorsFinite

LEMMA PruneStep ==
  ASSUME TypeOK, NEW v \in Uploads, Prune(v)
  PROVE  /\ uploads' \in [Uploads -> UploadType(writes)]
         /\ \A u \in Uploads : SameClip(u) /\ (u # v => uploads'[u] = uploads[u])
         /\ uploads'[v].phase \in {"failed", "pruned", "ok"}
         /\ uploads[v].phase = "listed" /\ clips' \subseteq clips
<1>1. PICK phase \in {"failed", "pruned", "ok"} :
        uploads' = [uploads EXCEPT ![v].phase = phase, ![v].seen = {}]
  BY DEF Prune
<1>2. phase \in Phases
  BY DEF Phases
<1>3. uploads[v].phase = "listed" /\ clips' \subseteq clips
  BY DEF Prune
<1>. DEFINE row == [uploads[v] EXCEPT !.phase = phase, !.seen = {}]
<1>4. uploads \in [Uploads -> UploadType(writes)] /\ uploads[v] \in UploadType(writes)
  BY DEF TypeOK, UploadType
<1>5. /\ row \in UploadType(writes) /\ row.phase = phase
      /\ row.label = uploads[v].label /\ row.mtime = uploads[v].mtime
      /\ row.request = uploads[v].request
  BY <1>2, <1>4 DEF UploadType
<1>6. uploads' = [uploads EXCEPT ![v] = row]
  BY <1>1, <1>4
<1>. HIDE DEF row
<1>7. uploads'[v] = row /\ \A u \in Uploads \ {v} : uploads'[u] = uploads[u]
  BY <1>4, <1>6
<1>8. uploads' \in [Uploads -> UploadType(writes)]
  BY <1>4, <1>5, <1>6
<1>. QED  BY <1>3, <1>5, <1>7, <1>8 DEF SameClip

LEMMA PruneKeeps ==
  ASSUME TypeOK, ClipsAreWritten, NEW v \in Uploads, Prune(v),
         NEW u \in Uploads, KeptOrSuperseded(u)
  PROVE  KeptOrSuperseded(u)'
<1>. DEFINE S == Successors(u)
            D == clips \ clips'
            K == Keep(uploads[u].label)
<1>1. \A c \in Uploads : SameClip(c)
  BY PruneStep
<1>2. clips' \subseteq clips /\ clips \subseteq Uploads
  BY PruneStep DEF TypeOK
<1>3. Successors(u)' = S \ D
  BY <1>1, <1>2 DEF Successors, Newer, SameClip
<1>4. Keep(uploads[u].label)' = K
  BY <1>1 DEF SameClip, Keep
<1>5. ASSUME NEW d \in D \cap S
      PROVE  \E N \in SUBSET S : Cardinality(N) >= K /\ \A n \in N : Newer(n, d)
  <2>1. Cardinality(Successors(d)) >= Keep(uploads[d].label)
    BY DeletedIsSuperseded
  <2>2. /\ (uploads[d].label = "cameratest") = (uploads[u].label = "cameratest")
        /\ Newer(d, u)
    BY DEF Successors
  <2>3. Keep(uploads[d].label) = K
    BY <2>2 DEF Keep
  <2>4. ASSUME NEW n \in Successors(d) PROVE n \in S /\ Newer(n, d)
    <3>1. n \in Uploads /\ d \in Uploads
      BY <1>2 DEF Successors
    <3>2. Newer(n, u)
      BY <2>2, <3>1, UploadFields DEF Newer, Successors
    <3>. QED  BY <2>2, <3>2 DEF Successors
  <2>. QED  BY <2>1, <2>3, <2>4
<1>6. CASE u \in clips'
  BY <1>6 DEF KeptOrSuperseded
<1>7. CASE u \notin clips'
  <2>1. Cardinality(S) >= K
    BY <1>7, DeletedIsSuperseded DEF KeptOrSuperseded
  <2>2. Cardinality(S \ D) >= K
    <3>1. S \in SUBSET Uploads /\ IsFiniteSet(S) /\ K \in Nat
      BY SuccessorsFinite, KeepIsPositive
    <3>. HIDE DEF S, D, K
    <3>. QED  BY <1>5, <2>1, <3>1, SurvivorsRemain
  <2>. QED  BY <1>3, <1>4, <2>2 DEF KeptOrSuperseded
<1>. QED  BY <1>6, <1>7

(* No other step takes a clip away. *)
LEMMA KeptStays ==
  ASSUME TypeOK, ClipsAreWritten, NEW u \in Uploads, KeptOrSuperseded(u),
         clips \subseteq clips', IsFiniteSet(clips'),
         \A c \in clips \cup {u} : SameClip(c)
  PROVE  KeptOrSuperseded(u)'
<1>1. Successors(u) \subseteq Successors(u)'
  BY DEF Successors, Newer, SameClip
<1>2. Successors(u)' \subseteq clips'
  BY DEF Successors
<1>3. IsFiniteSet(Successors(u)')
  BY <1>2, FS_Subset
<1>4. Cardinality(Successors(u)) <= Cardinality(Successors(u)')
  BY <1>1, <1>3, FS_Subset
<1>5. Cardinality(Successors(u)') \in Nat /\ Cardinality(Successors(u)) \in Nat
  BY <1>3, SuccessorsFinite, FS_CardinalityType
<1>6. Keep(uploads[u].label)' = Keep(uploads[u].label) /\ Keep(uploads[u].label) \in Nat
  BY KeepIsPositive DEF SameClip, Keep
<1>. QED  BY <1>4, <1>5, <1>6 DEF KeptOrSuperseded

-------------------------------------------------------------------------------
(***************************************************************************)
(* The clips, step by step.                                                *)
(***************************************************************************)
ClipTypes ==
  /\ uploads \in [Uploads -> UploadType(writes)]
  /\ temporaries \cup clips \subseteq Uploads /\ temporaries \cap clips = {}
  /\ writes \in Nat

Stored == {"replaced", "listed", "pruned", "ok"}

StoredIsKept == \A u \in Uploads : uploads[u].phase \in Stored => KeptOrSuperseded(u)

ClipInv == ClipTypes /\ ClipsAreWritten /\ StoredIsKept

LEMMA ClipTyped == TypeOK => ClipTypes
BY DEF TypeOK, ClipTypes, UploadType

(* A step that takes no clip away and leaves those that have begun alone   *)
(* keeps every clip, if an upload that is stored by it has its file.       *)
LEMMA ClipsGrow ==
  ASSUME TypeOK, ClipsAreWritten, StoredIsKept,
         IsFiniteSet(clips'), clips \subseteq clips',
         \A c \in Uploads : uploads[c].phase \notin {"unused", "body"} => SameClip(c),
         \A c \in Uploads : uploads'[c].phase \in Stored =>
                              c \in clips' \/ uploads[c].phase \in Stored
  PROVE  StoredIsKept'
<1>. SUFFICES ASSUME NEW u \in Uploads, uploads'[u].phase \in Stored
              PROVE  KeptOrSuperseded(u)'
  BY DEF StoredIsKept
<1>1. CASE u \in clips'
  BY <1>1 DEF KeptOrSuperseded
<1>2. CASE u \notin clips'
  <2>1. uploads[u].phase \in Stored /\ KeptOrSuperseded(u)
    BY <1>2 DEF StoredIsKept
  <2>2. \A c \in clips \cup {u} : SameClip(c)
    BY <2>1 DEF ClipsAreWritten, TypeOK, Stored
  <2>. QED  BY <2>1, <2>2, KeptStays
<1>. QED  BY <1>1, <1>2

LEMMA UploadBeginsInv ==
  ASSUME TypeOK, ClipsAreWritten, StoredIsKept, NEW u \in Uploads, NEW label \in Labels,
         UploadBegins(u, label)
  PROVE  ClipInv'
<1>. DEFINE row == [phase |-> "body", label |-> label, mtime |-> 0, seen |-> {},
                    request |-> IF label = "manual" THEN camera.id ELSE 0]
<1>1. /\ uploads[u].phase = "unused" /\ uploads' = [uploads EXCEPT ![u] = row]
      /\ UNCHANGED <<temporaries, clips, writes>>
  BY DEF UploadBegins
<1>2. camera.id \in Requests /\ 0 \in Requests
  BY DEF TypeOK, Requests
<1>3. row \in UploadType(writes) /\ row.phase = "body"
  <2>1. row.phase = "body"
    OBVIOUS
  <2>2. "body" \in Phases /\ 0 \in 0..writes
    BY UploadFields DEF Phases
  <2>3. (IF label = "manual" THEN camera.id ELSE 0) \in Requests
    BY <1>2
  <2>. QED  BY <2>1, <2>2, <2>3 DEF UploadType
<1>. HIDE DEF row
<1>4. ClipTypes
  BY ClipTyped
<1>5. /\ uploads' \in [Uploads -> UploadType(writes)]
      /\ uploads'[u] = row /\ \A c \in Uploads \ {u} : uploads'[c] = uploads[c]
  BY <1>1, <1>3, <1>4 DEF ClipTypes
<1>6. u \notin clips \cup temporaries
  BY <1>1 DEF ClipsAreWritten
<1>7. ClipTypes'
  BY <1>1, <1>4, <1>5 DEF ClipTypes
<1>8. ClipsAreWritten'
  BY <1>1, <1>4, <1>5, <1>6 DEF ClipTypes, ClipsAreWritten
<1>9. StoredIsKept'
  <2>1. IsFiniteSet(clips') /\ clips \subseteq clips'
    BY <1>1 DEF ClipsAreWritten
  <2>2. \A c \in Uploads : uploads[c].phase \notin {"unused", "body"} => SameClip(c)
    BY <1>1, <1>5 DEF SameClip
  <2>3. \A c \in Uploads : uploads'[c].phase \in Stored => uploads[c].phase \in Stored
    BY <1>3, <1>5 DEF Stored
  <2>. QED  BY <2>1, <2>2, <2>3, ClipsGrow
<1>. QED  BY <1>7, <1>8, <1>9 DEF ClipInv

LEMMA WriteTemporaryInv ==
  ASSUME TypeOK, ClipsAreWritten, StoredIsKept, NEW u \in Uploads, WriteTemporary(u)
  PROVE  ClipInv'
<1>1. uploads[u].phase = "body" /\ UNCHANGED clips
  BY DEF WriteTemporary
<1>2. u \notin clips \cup temporaries
  BY <1>1 DEF ClipsAreWritten
<1>3. /\ writes' \in Nat /\ uploads' \in [Uploads -> UploadType(writes')]
      /\ uploads'[u].phase \in {"failed", "written"}
      /\ \A c \in Uploads \ {u} : uploads'[c] = uploads[c]
      /\ temporaries' \subseteq temporaries \cup {u}
  <2>1. CASE To(u, "failed") /\ UNCHANGED <<temporaries, writes>>
    BY <2>1, ToStep, UploadFields DEF Phases
  <2>2. CASE /\ writes' = writes + 1
             /\ uploads' = [uploads EXCEPT ![u].phase = "written", ![u].mtime = writes']
             /\ temporaries' = temporaries \cup {u}
    <3>. DEFINE row == [uploads[u] EXCEPT !.phase = "written", !.mtime = writes']
    <3>1. writes \in Nat /\ writes' \in Nat /\ writes' \in 0..writes' /\ writes <= writes'
      BY <2>2, UploadFields
    <3>2. uploads \in [Uploads -> UploadType(writes)]
      BY ClipTyped DEF ClipTypes
    <3>3. UploadType(writes) \subseteq UploadType(writes')
      <4>1. 0..writes \subseteq 0..writes'
        BY <3>1
      <4>. QED  BY <4>1 DEF UploadType
    <3>4. uploads \in [Uploads -> UploadType(writes')]
      BY <3>2, <3>3
    <3>5. row \in UploadType(writes') /\ row.phase = "written"
      <4>1. uploads[u] \in UploadType(writes') /\ "written" \in Phases
        BY <3>4 DEF Phases
      <4>2. row \in UploadType(writes')
        BY <3>1, <4>1, Revised
      <4>. QED  BY <4>1, <4>2 DEF UploadType
    <3>6. uploads' = [uploads EXCEPT ![u] = row]
      BY <2>2, <3>2
    <3>. HIDE DEF row
    <3>. QED  BY <2>2, <3>1, <3>4, <3>5, <3>6, ZenonT(60)
  <2>. QED  BY <2>1, <2>2 DEF WriteTemporary
<1>4. ClipTypes'
  BY <1>1, <1>2, <1>3 DEF ClipTypes, TypeOK
<1>5. ClipsAreWritten'
  BY <1>1, <1>2, <1>3 DEF ClipsAreWritten, TypeOK
<1>6. StoredIsKept'
  <2>1. IsFiniteSet(clips') /\ clips \subseteq clips'
    BY <1>1 DEF ClipsAreWritten
  <2>2. \A c \in Uploads : uploads[c].phase \notin {"unused", "body"} => SameClip(c)
    BY <1>1, <1>3 DEF SameClip
  <2>3. \A c \in Uploads : uploads'[c].phase \in Stored => uploads[c].phase \in Stored
    BY <1>3 DEF Stored
  <2>. QED  BY <2>1, <2>2, <2>3, ClipsGrow
<1>. QED  BY <1>4, <1>5, <1>6 DEF ClipInv

LEMMA ReplaceInv ==
  ASSUME TypeOK, ClipsAreWritten, StoredIsKept, NEW u \in Uploads, Replace(u)
  PROVE  ClipInv'
<1>1. /\ uploads[u].phase = "written" /\ UNCHANGED writes
      /\ temporaries' = temporaries \ {u}
      /\ \/ To(u, "replaced") /\ clips' = clips \cup {u}
         \/ To(u, "failed") /\ clips' = clips
  BY DEF Replace
<1>2. /\ uploads' \in [Uploads -> UploadType(writes)]
      /\ uploads'[u].phase \in {"replaced", "failed"}
      /\ uploads'[u].phase = "replaced" => u \in clips'
      /\ \A v \in Uploads : SameClip(v) /\ (v # u => uploads'[v] = uploads[v])
  BY <1>1, ToStep DEF Phases
<1>3. clips' \subseteq clips \cup {u} /\ clips \subseteq clips' /\ IsFiniteSet(clips')
  BY <1>1, FS_AddElement DEF ClipsAreWritten
<1>4. ClipTypes'
  BY <1>1, <1>2, <1>3 DEF ClipTypes, TypeOK
<1>5. ClipsAreWritten'
  BY <1>1, <1>2, <1>3 DEF ClipsAreWritten, TypeOK
<1>6. StoredIsKept'
  <2>1. \A c \in Uploads : uploads'[c].phase \in Stored =>
                             c \in clips' \/ uploads[c].phase \in Stored
    BY <1>2 DEF Stored
  <2>. QED  BY <1>2, <1>3, <2>1, ClipsGrow
<1>. QED  BY <1>4, <1>5, <1>6 DEF ClipInv

LEMMA SweepAndListInv ==
  ASSUME TypeOK, ClipsAreWritten, StoredIsKept, NEW u \in Uploads, SweepAndList(u)
  PROVE  ClipInv'
<1>. DEFINE row == [uploads[u] EXCEPT !.phase = "listed", !.seen = clips]
<1>1. /\ uploads[u].phase = "replaced" /\ UNCHANGED <<clips, writes>> /\ temporaries' = {}
      /\ uploads' = [uploads EXCEPT ![u].phase = "listed", ![u].seen = clips]
  BY DEF SweepAndList
<1>2. uploads \in [Uploads -> UploadType(writes)] /\ clips \subseteq Uploads
  BY ClipTyped DEF ClipTypes
<1>3. uploads' = [uploads EXCEPT ![u] = row]
  BY <1>1, <1>2
<1>4. /\ row \in UploadType(writes) /\ row.phase = "listed" /\ row.label = uploads[u].label
      /\ row.mtime = uploads[u].mtime /\ row.request = uploads[u].request
  <2>1. uploads[u] \in UploadType(writes) /\ "listed" \in Phases /\ writes \in Nat /\ 0 \in 0..writes
    BY <1>2, UploadFields DEF Phases
  <2>2. row \in UploadType(writes)
    BY <1>2, <2>1, Revised, UploadFields
  <2>. QED  BY <2>1, <2>2 DEF UploadType
<1>. HIDE DEF row
<1>5. /\ uploads' \in [Uploads -> UploadType(writes)] /\ uploads'[u].phase = "listed"
      /\ \A v \in Uploads : SameClip(v) /\ (v # u => uploads'[v] = uploads[v])
  BY <1>2, <1>3, <1>4 DEF SameClip
<1>6. ClipTypes'
  BY <1>1, <1>5 DEF ClipTypes, TypeOK
<1>7. ClipsAreWritten'
  BY <1>1, <1>5 DEF ClipsAreWritten, TypeOK
<1>8. StoredIsKept'
  <2>1. IsFiniteSet(clips') /\ clips \subseteq clips'
    BY <1>1 DEF ClipsAreWritten
  <2>2. \A c \in Uploads : uploads'[c].phase \in Stored => uploads[c].phase \in Stored
    BY <1>1, <1>5 DEF Stored
  <2>. QED  BY <1>5, <2>1, <2>2, ClipsGrow
<1>. QED  BY <1>6, <1>7, <1>8 DEF ClipInv

LEMMA PruneInv ==
  ASSUME TypeOK, ClipsAreWritten, StoredIsKept, NEW u \in Uploads, Prune(u)
  PROVE  ClipInv'
<1>1. /\ uploads' \in [Uploads -> UploadType(writes)]
      /\ \A v \in Uploads : SameClip(v) /\ (v # u => uploads'[v] = uploads[v])
      /\ uploads'[u].phase \in {"failed", "pruned", "ok"}
      /\ uploads[u].phase = "listed" /\ clips' \subseteq clips
      /\ UNCHANGED <<temporaries, writes>>
  BY PruneStep DEF Prune
<1>2. IsFiniteSet(clips')
  BY <1>1, FS_Subset DEF ClipsAreWritten
<1>3. ClipTypes'
  BY <1>1 DEF ClipTypes, TypeOK
<1>4. ClipsAreWritten'
  BY <1>1, <1>2 DEF ClipsAreWritten, TypeOK
<1>5. StoredIsKept'
  <2>. SUFFICES ASSUME NEW v \in Uploads, uploads'[v].phase \in Stored
                PROVE  KeptOrSuperseded(v)'
    BY DEF StoredIsKept
  <2>1. uploads[v].phase \in Stored
    BY <1>1 DEF Stored
  <2>. QED  BY <2>1, PruneKeeps DEF StoredIsKept
<1>. QED  BY <1>3, <1>4, <1>5 DEF ClipInv

LEMMA ResolveInv ==
  ASSUME TypeOK, ClipsAreWritten, StoredIsKept, NEW u \in Uploads, Resolve(u)
  PROVE  ClipInv'
<1>1. /\ uploads[u].phase = "pruned" /\ UNCHANGED <<temporaries, clips, writes>>
      /\ To(u, "ok") \/ To(u, "failed")
  BY DEF Resolve
<1>2. /\ uploads' \in [Uploads -> UploadType(writes)]
      /\ uploads'[u].phase \in {"ok", "failed"}
      /\ \A v \in Uploads : SameClip(v) /\ (v # u => uploads'[v] = uploads[v])
  BY <1>1, ToStep DEF Phases
<1>3. ClipTypes'
  BY <1>1, <1>2 DEF ClipTypes, TypeOK
<1>4. ClipsAreWritten'
  BY <1>1, <1>2 DEF ClipsAreWritten, TypeOK
<1>5. StoredIsKept'
  <2>1. IsFiniteSet(clips') /\ clips \subseteq clips'
    BY <1>1 DEF ClipsAreWritten
  <2>2. \A c \in Uploads : uploads'[c].phase \in Stored => uploads[c].phase \in Stored
    BY <1>1, <1>2 DEF Stored
  <2>. QED  BY <1>2, <2>1, <2>2, ClipsGrow
<1>. QED  BY <1>3, <1>4, <1>5 DEF ClipInv

LEMMA CrashKeepsClips ==
  ASSUME TypeOK, ClipsAreWritten, StoredIsKept, Crash
  PROVE  ClipInv'
<1>. DEFINE Failed(v) == [uploads[v] EXCEPT !.phase = "failed", !.seen = {}]
<1>1. /\ uploads' = [u \in Uploads |-> IF uploads[u].phase \in {"unused", "ok"} THEN uploads[u]
                                       ELSE Failed(u)]
      /\ UNCHANGED <<temporaries, clips, writes>>
  BY DEF Crash
<1>2. ASSUME NEW v \in Uploads
      PROVE  /\ uploads[v] \in UploadType(writes) /\ Failed(v) \in UploadType(writes)
             /\ Failed(v).phase = "failed" /\ Failed(v).label = uploads[v].label
             /\ Failed(v).mtime = uploads[v].mtime /\ Failed(v).request = uploads[v].request
  <2>1. uploads[v] \in UploadType(writes)
    BY ClipTyped DEF ClipTypes
  <2>. QED  BY <2>1 DEF UploadType, Phases
<1>. HIDE DEF Failed
<1>3. /\ uploads' \in [Uploads -> UploadType(writes)]
      /\ \A v \in Uploads :
            /\ SameClip(v)
            /\ \/ uploads'[v].phase = "failed"
               \/ uploads'[v] = uploads[v] /\ uploads[v].phase \in {"unused", "ok"}
  BY <1>1, <1>2 DEF SameClip
<1>4. ClipTypes'
  BY <1>1, <1>3 DEF ClipTypes, TypeOK
<1>5. ClipsAreWritten'
  BY <1>1, <1>3 DEF ClipsAreWritten, TypeOK
<1>6. StoredIsKept'
  <2>1. IsFiniteSet(clips') /\ clips \subseteq clips'
    BY <1>1 DEF ClipsAreWritten
  <2>2. \A c \in Uploads : uploads'[c].phase \in Stored => uploads[c].phase \in Stored
    BY <1>3 DEF Stored
  <2>. QED  BY <1>3, <2>1, <2>2, ClipsGrow
<1>. QED  BY <1>4, <1>5, <1>6 DEF ClipInv

-------------------------------------------------------------------------------
(***************************************************************************)
(* The camera request.                                                     *)
(***************************************************************************)
DoneIsAnswered ==
  camera.status = "done" =>
    \E u \in camera.file : uploads[u].request = camera.id /\ uploads[u].phase = "ok"

CameraType == camera \in [id : 0..requests, status : {"none", "pending"} \cup Settled,
                          file : SUBSET Uploads]

(* One step of the request: a new one, the end of a pending one, or none.  *)
CameraStep ==
  \/ UNCHANGED camera
  \/ /\ camera' = NoRequest
  \/ /\ camera.status # "pending" /\ requests' = requests + 1
     /\ camera' = [id |-> requests', status |-> "pending", file |-> {}]
  \/ /\ camera.status = "pending"
     /\ \E status \in {"expired", "failed"} : camera' = [camera EXCEPT !.status = status]
  \/ /\ camera.status = "pending"
     /\ \E u \in Uploads :
          /\ camera' = [camera EXCEPT !.status = "done", !.file = {u}]
          /\ uploads'[u].request = camera.id /\ uploads'[u].phase = "ok"

(* What a step leaves of an upload that was answered. *)
OkStays == \A u \in Uploads :
             uploads[u].phase = "ok" =>
               uploads'[u].phase = "ok" /\ uploads'[u].request = uploads[u].request

LEMMA CameraInv ==
  ASSUME TypeOK, DoneIsAnswered, CameraStep, OkStays,
         requests' \in Requests, requests' >= requests
  PROVE  CameraType' /\ DoneIsAnswered'
<1>1. /\ CameraType /\ camera.id \in 0..requests /\ camera.file \subseteq Uploads
      /\ requests \in Nat /\ requests' \in Nat
      /\ 0..requests \subseteq 0..requests' /\ requests' \in 0..requests' /\ 0 \in 0..requests'
  BY DEF TypeOK, CameraType, Requests
<1>2. CASE UNCHANGED camera
  BY <1>1, <1>2 DEF CameraType, DoneIsAnswered, OkStays
<1>3. CASE camera' = NoRequest
  BY <1>1, <1>3 DEF CameraType, DoneIsAnswered, NoRequest
<1>4. CASE camera' = [id |-> requests', status |-> "pending", file |-> {}]
  BY <1>1, <1>4 DEF CameraType, DoneIsAnswered
<1>5. ASSUME NEW status \in {"expired", "failed"}, camera' = [camera EXCEPT !.status = status]
      PROVE  CameraType' /\ DoneIsAnswered'
  BY <1>1, <1>5 DEF CameraType, DoneIsAnswered, Settled
<1>6. ASSUME NEW u \in Uploads, camera' = [camera EXCEPT !.status = "done", !.file = {u}],
             uploads'[u].request = camera.id, uploads'[u].phase = "ok"
      PROVE  CameraType' /\ DoneIsAnswered'
  <2>1. camera'.id = camera.id /\ camera'.file = {u} /\ u \in camera'.file
    BY <1>1, <1>6 DEF CameraType
  <2>2. CameraType'
    BY <1>1, <1>6 DEF CameraType, Settled
  <2>. QED  BY <1>6, <2>1, <2>2 DEF DoneIsAnswered
<1>. QED  BY <1>2, <1>3, <1>4, <1>5, <1>6 DEF CameraStep

(* A settled request is not touched, and a pending one not replaced. *)
LEMMA CameraSettles ==
  ASSUME TypeOK, CameraStep, requests' \in Nat, requests' >= requests
  PROVE  camera' \notin {camera, NoRequest} =>
           IF camera.status = "pending" THEN camera'.id = camera.id
           ELSE camera'.id > camera.id
<1>1. camera.id \in 0..requests /\ requests \in Nat /\ CameraType
  BY DEF TypeOK, CameraType, Requests
<1>2. CASE camera.status # "pending"
  <2>1. \/ camera' \in {camera, NoRequest}
        \/ camera' = [id |-> requests', status |-> "pending", file |-> {}]
           /\ requests' = requests + 1
    BY <1>2 DEF CameraStep
  <2>. QED  BY <1>1, <1>2, <2>1
<1>3. CASE camera.status = "pending"
  <2>1. \/ camera' \in {camera, NoRequest}
        \/ \E status \in {"expired", "failed"} : camera' = [camera EXCEPT !.status = status]
        \/ \E u \in Uploads : camera' = [camera EXCEPT !.status = "done", !.file = {u}]
    BY <1>3 DEF CameraStep
  <2>2. camera' \in {camera, NoRequest} \/ camera'.id = camera.id
    BY <1>1, <2>1 DEF CameraType
  <2>. QED  BY <1>3, <2>2
<1>. QED  BY <1>2, <1>3

-------------------------------------------------------------------------------
(***************************************************************************)
(* Photos and avatars.                                                     *)
(***************************************************************************)
FileTypes ==
  /\ pouring \in BOOLEAN
  /\ photoFiles \subseteq Photos /\ photoRows \subseteq Rows
  /\ avatar \in [row : BOOLEAN, file : BOOLEAN]
  /\ loop \in [kind : Jobs, photo : Photos \cup {0}, attributed : BOOLEAN,
               stale : SUBSET Photos]

FileInv == FileTypes /\ RowsHaveFiles /\ HandlerOwnsFile

LEMMA JobTypes ==
  /\ NoJob \in [kind : Jobs, photo : Photos \cup {0}, attributed : BOOLEAN,
                stale : SUBSET Photos]
  /\ NoJob.kind = "none"
  /\ \A kind \in Jobs : /\ [NoJob EXCEPT !.kind = kind].kind = kind
                        /\ [NoJob EXCEPT !.kind = kind] \in
                             [kind : Jobs, photo : Photos \cup {0}, attributed : BOOLEAN,
                              stale : SUBSET Photos]
BY DEF NoJob, Jobs

LEMMA StaleAreRows ==
  ASSUME FileTypes
  PROVE  StalePhotos \subseteq {r.photo : r \in photoRows} /\ StalePhotos \subseteq Photos
<1>1. \A r \in photoRows : r.photo \in Photos
  BY DEF FileTypes, Rows
<1>. QED  BY <1>1 DEF StalePhotos

LEMMA StorePhotoInv ==
  ASSUME FileInv, NEW photo \in Photos, NEW attributed \in BOOLEAN, StorePhoto(photo, attributed)
  PROVE  FileInv'
<1>1. /\ photo \notin photoFiles /\ photoFiles' = photoFiles \cup {photo}
      /\ loop' = [NoJob EXCEPT !.kind = "photo_row", !.photo = photo, !.attributed = attributed]
      /\ UNCHANGED <<pouring, photoRows, avatar>>
  BY DEF StorePhoto, Run
<1>2. /\ loop'.kind = "photo_row" /\ loop'.photo = photo
      /\ loop' \in [kind : Jobs, photo : Photos \cup {0}, attributed : BOOLEAN,
                    stale : SUBSET Photos]
  BY <1>1 DEF NoJob, Jobs
<1>. QED  BY <1>1, <1>2 DEF FileInv, FileTypes, RowsHaveFiles, HandlerOwnsFile

LEMMA AddPhotoRowInv ==
  ASSUME FileInv, requests \in Requests, AddPhotoRow
  PROVE  FileInv'
<1>. DEFINE row == [photo |-> loop.photo, attributed |-> loop.attributed, captured |-> requests]
<1>1. /\ loop.kind = "photo_row" /\ UNCHANGED <<pouring, avatar>>
      /\ loop.photo \in photoFiles /\ loop.photo \notin {r.photo : r \in photoRows}
      /\ loop.photo \in Photos /\ loop.attributed \in BOOLEAN
  BY DEF AddPhotoRow, FileInv, FileTypes, HandlerOwnsFile
<1>2. CASE /\ photoRows' = photoRows \cup {row} /\ photoFiles' = photoFiles
           /\ loop' = IF loop.attributed THEN NoJob ELSE [loop EXCEPT !.kind = "prune"]
  <2>1. row \in Rows /\ row.photo = loop.photo
    BY <1>1 DEF Rows
  <2>. HIDE DEF row
  <2>2. /\ loop'.kind \in {"none", "prune"}
        /\ loop' \in [kind : Jobs, photo : Photos \cup {0}, attributed : BOOLEAN,
                      stale : SUBSET Photos]
    <3>1. CASE loop.attributed
      BY <1>2, <3>1, JobTypes
    <3>2. CASE ~loop.attributed
      BY <1>2, <3>2 DEF FileInv, FileTypes, Jobs
    <3>. QED  BY <3>1, <3>2
  <2>3. photoRows' \subseteq Rows /\ \A r \in photoRows' : r.photo \in photoFiles'
    BY <1>1, <1>2, <2>1 DEF FileInv, FileTypes, RowsHaveFiles
  <2>. QED  BY <1>1, <1>2, <2>2, <2>3 DEF FileInv, FileTypes, RowsHaveFiles, HandlerOwnsFile
<1>3. CASE /\ photoFiles' = photoFiles \ {loop.photo} /\ loop' = NoJob
           /\ photoRows' = photoRows
  BY <1>1, <1>3, JobTypes DEF FileInv, FileTypes, RowsHaveFiles, HandlerOwnsFile
<1>. QED  BY <1>2, <1>3 DEF AddPhotoRow, Run

LEMMA PrunePhotoRowsInv ==
  ASSUME FileInv, PrunePhotoRows
  PROVE  FileInv'
<1>1. UNCHANGED <<pouring, photoFiles, avatar>>
  BY DEF PrunePhotoRows
<1>2. CASE /\ photoRows' = {r \in photoRows : r.photo \notin StalePhotos}
           /\ loop' = [NoJob EXCEPT !.kind = "unlink", !.stale = StalePhotos]
  <2>1. StalePhotos \subseteq Photos
    BY StaleAreRows DEF FileInv
  <2>2. /\ loop'.kind = "unlink" /\ loop'.stale = StalePhotos
        /\ loop' \in [kind : Jobs, photo : Photos \cup {0}, attributed : BOOLEAN,
                      stale : SUBSET Photos]
    BY <1>2, <2>1 DEF NoJob, Jobs
  <2>. QED  BY <1>1, <1>2, <2>2 DEF FileInv, FileTypes, RowsHaveFiles, HandlerOwnsFile
<1>3. CASE loop' = NoJob /\ photoRows' = photoRows
  BY <1>1, <1>3, JobTypes DEF FileInv, FileTypes, RowsHaveFiles, HandlerOwnsFile
<1>. QED  BY <1>2, <1>3 DEF PrunePhotoRows, Run

LEMMA UnlinkPhotosInv ==
  ASSUME FileInv, UnlinkPhotos
  PROVE  FileInv'
<1>1. /\ loop.kind = "unlink" /\ photoFiles' = photoFiles \ loop.stale /\ loop' = NoJob
      /\ UNCHANGED <<pouring, photoRows, avatar>>
  BY DEF UnlinkPhotos, Run
<1>. QED  BY <1>1, JobTypes DEF FileInv, FileTypes, RowsHaveFiles, HandlerOwnsFile

LEMMA AvatarInv ==
  ASSUME FileInv,
         SetAvatarIfMissing \/ ReplaceAvatar \/ MarkAvatar \/ DeleteAvatar \/ UnlinkAvatar
  PROVE  FileInv'
<1>1. UNCHANGED photoVars /\ avatar \in [row : BOOLEAN, file : BOOLEAN]
  BY DEF SetAvatarIfMissing, ReplaceAvatar, WriteAvatar, MarkAvatar, DeleteAvatar, UnlinkAvatar,
         FileInv, FileTypes
<1>2. CASE SetAvatarIfMissing \/ ReplaceAvatar
  <2>1. /\ avatar' = [avatar EXCEPT !.file = TRUE]
        /\ loop' \in {[NoJob EXCEPT !.kind = "mark_missing"], [NoJob EXCEPT !.kind = "mark"]}
    BY <1>2 DEF SetAvatarIfMissing, ReplaceAvatar, WriteAvatar, Run
  <2>2. /\ loop'.kind \in {"mark_missing", "mark"}
        /\ loop' \in [kind : Jobs, photo : Photos \cup {0}, attributed : BOOLEAN,
                      stale : SUBSET Photos]
    BY <2>1, JobTypes DEF Jobs
  <2>3. avatar' \in [row : BOOLEAN, file : BOOLEAN] /\ avatar'.file
    BY <1>1, <2>1
  <2>. QED  BY <1>1, <2>2, <2>3
            DEF FileInv, FileTypes, RowsHaveFiles, HandlerOwnsFile, photoVars
<1>3. CASE MarkAvatar
  <2>1. avatar' = [avatar EXCEPT !.row = TRUE] /\ loop' = NoJob /\ avatar.file
    BY <1>3 DEF MarkAvatar, Run, FileInv, HandlerOwnsFile
  <2>2. avatar' \in [row : BOOLEAN, file : BOOLEAN] /\ avatar'.file
    BY <1>1, <2>1
  <2>. QED  BY <1>1, <2>1, <2>2, JobTypes
            DEF FileInv, FileTypes, RowsHaveFiles, HandlerOwnsFile, photoVars
<1>4. CASE DeleteAvatar
  <2>1. avatar' = [avatar EXCEPT !.row = FALSE] /\ loop' = [NoJob EXCEPT !.kind = "unlink_avatar"]
    BY <1>4 DEF DeleteAvatar, Run
  <2>2. avatar' \in [row : BOOLEAN, file : BOOLEAN] /\ ~avatar'.row
    BY <1>1, <2>1
  <2>3. /\ loop'.kind = "unlink_avatar"
        /\ loop' \in [kind : Jobs, photo : Photos \cup {0}, attributed : BOOLEAN,
                      stale : SUBSET Photos]
    BY <2>1, JobTypes DEF Jobs
  <2>. QED  BY <1>1, <2>2, <2>3
            DEF FileInv, FileTypes, RowsHaveFiles, HandlerOwnsFile, photoVars
<1>5. CASE UnlinkAvatar
  <2>1. avatar' = [avatar EXCEPT !.file = FALSE] /\ loop' = NoJob /\ ~avatar.row
    BY <1>5 DEF UnlinkAvatar, Run, FileInv, HandlerOwnsFile
  <2>2. avatar' \in [row : BOOLEAN, file : BOOLEAN] /\ ~avatar'.row
    BY <1>1, <2>1
  <2>. QED  BY <1>1, <2>1, <2>2, JobTypes
            DEF FileInv, FileTypes, RowsHaveFiles, HandlerOwnsFile, photoVars
<1>. QED  BY <1>2, <1>3, <1>4, <1>5

-------------------------------------------------------------------------------
(***************************************************************************)
(* Every step.                                                             *)
(***************************************************************************)
Parts == ClipInv /\ CameraType /\ DoneIsAnswered /\ FileInv /\ requests \in Requests

LEMMA InvIsParts == Inv <=> Parts
BY DEF Inv, Parts, TypeOK, ClipInv, ClipTypes, UploadType, ClipsAreKept, StoredIsKept, Stored,
       CameraType, DoneIsAnswered, FileInv, FileTypes

LEMMA PartsGiveInv ==
  ClipInv' /\ CameraType' /\ DoneIsAnswered' /\ FileInv' /\ requests' \in Requests => Inv'
BY DEF Inv, TypeOK, ClipInv, ClipTypes, UploadType, ClipsAreKept, StoredIsKept, Stored,
       CameraType, DoneIsAnswered, FileInv, FileTypes

RequestsGrow == requests' \in Requests /\ requests' >= requests

LEMMA InitInv == Init => Inv
<1>. SUFFICES ASSUME Init PROVE Parts
  BY InvIsParts
<1>1. /\ writes \in Nat /\ 0 \in 0..writes /\ 0 \in Requests /\ 0 \in 0..requests
      /\ requests \in Requests
  BY DEF Init, Requests
<1>2. NoUpload \in UploadType(writes) /\ NoUpload.phase = "unused"
  BY <1>1 DEF NoUpload, UploadType, Phases, Labels
<1>3. ClipInv
  BY <1>1, <1>2, FS_EmptySet DEF Init, ClipInv, ClipTypes, ClipsAreWritten, StoredIsKept, Stored
<1>4. CameraType /\ DoneIsAnswered
  BY <1>1 DEF Init, CameraType, DoneIsAnswered, NoRequest
<1>5. FileInv
  BY JobTypes DEF Init, FileInv, FileTypes, RowsHaveFiles, HandlerOwnsFile
<1>. QED  BY <1>1, <1>3, <1>4, <1>5 DEF Parts

LEMMA ClipsRest ==
  ASSUME ClipInv, UNCHANGED clipVars
  PROVE  ClipInv' /\ OkStays
BY DEF clipVars, ClipInv, ClipTypes, ClipsAreWritten, StoredIsKept, OkStays, KeptOrSuperseded,
       Successors, Newer

LEMMA FilesRest ==
  ASSUME FileInv, UNCHANGED <<photoVars, avatar, loop>>
  PROVE  FileInv'
BY DEF photoVars, FileInv, FileTypes, RowsHaveFiles, HandlerOwnsFile

(* A handler that begins counts a request; no other step does. *)
LEMMA RequestsCount ==
  ASSUME TypeOK, NewRequest \/ UNCHANGED requests
  PROVE  RequestsGrow
BY DEF TypeOK, NewRequest, RequestsGrow, Requests

LEMMA RequestSteps ==
  ASSUME Inv, RecordClip \/ Expire \/ \E id \in 1..MaxRequests : FailRecording(id)
  PROVE  Inv' /\ CameraStep /\ RequestsGrow
<1>1. UNCHANGED <<clipVars, photoVars, avatar, loop>>
  BY DEF RecordClip, Expire, FailRecording
<1>2. TypeOK /\ Parts
  BY InvIsParts DEF Inv
<1>3. RequestsGrow
  BY <1>2, RequestsCount DEF RecordClip, Expire, FailRecording
<1>4. CameraStep
  BY DEF RecordClip, Expire, FailRecording, NewRequest, Answers, CameraStep
<1>5. ClipInv' /\ OkStays /\ FileInv'
  BY <1>1, <1>2, ClipsRest, FilesRest DEF Parts
<1>6. CameraType' /\ DoneIsAnswered'
  BY <1>2, <1>3, <1>4, <1>5, CameraInv DEF Parts, RequestsGrow
<1>. QED  BY <1>3, <1>4, <1>5, <1>6, PartsGiveInv DEF RequestsGrow

LEMMA UploadSteps ==
  ASSUME Inv, NEW u \in Uploads,
         \/ \E label \in Labels : UploadBegins(u, label)
         \/ WriteTemporary(u) \/ Replace(u) \/ SweepAndList(u) \/ Prune(u) \/ Resolve(u)
  PROVE  Inv' /\ CameraStep /\ RequestsGrow
<1>1. TypeOK /\ ClipsAreWritten /\ StoredIsKept /\ Parts
  BY InvIsParts DEF Inv, Parts, ClipInv
<1>2. UNCHANGED <<photoVars, avatar, loop>>
  BY DEF UploadBegins, WriteTemporary, Replace, SweepAndList, Prune, Resolve
<1>3. ClipInv'
  BY <1>1, UploadBeginsInv, WriteTemporaryInv, ReplaceInv, SweepAndListInv, PruneInv, ResolveInv
<1>4. RequestsGrow
  BY <1>1, RequestsCount DEF UploadBegins, WriteTemporary, Replace, SweepAndList, Prune, Resolve
<1>5. uploads \in [Uploads -> UploadType(writes)]
  BY <1>1, ClipTyped DEF ClipTypes
<1>6. OkStays
  <2>1. uploads[u].phase # "ok"
    BY DEF UploadBegins, WriteTemporary, Replace, SweepAndList, Prune, Resolve
  <2>2. \A v \in Uploads \ {u} : uploads'[v] = uploads[v]
    BY <1>5 DEF UploadBegins, WriteTemporary, Replace, SweepAndList, Prune, Resolve, To
  <2>. QED  BY <2>1, <2>2 DEF OkStays
<1>7. CameraStep
  <2>1. CASE Resolve(u)
    <3>1. CASE /\ camera.status = "pending" /\ camera.id = uploads[u].request /\ To(u, "ok")
               /\ camera' = [camera EXCEPT !.status = "done", !.file = {u}]
      <4>1. uploads'[u].request = camera.id /\ uploads'[u].phase = "ok"
        BY <1>1, <3>1, ToStep DEF Phases, SameClip
      <4>. QED  BY <3>1, <4>1 DEF CameraStep
    <3>2. CASE UNCHANGED camera
      BY <3>2 DEF CameraStep
    <3>. QED  BY <2>1, <3>1, <3>2 DEF Resolve, Answers
  <2>2. CASE ~Resolve(u)
    BY <2>2 DEF UploadBegins, WriteTemporary, Replace, SweepAndList, Prune, CameraStep
  <2>. QED  BY <2>1, <2>2
<1>8. CameraType' /\ DoneIsAnswered'
  BY <1>1, <1>4, <1>6, <1>7, CameraInv DEF Parts, RequestsGrow
<1>9. FileInv'
  BY <1>1, <1>2, FilesRest DEF Parts
<1>. QED  BY <1>3, <1>4, <1>7, <1>8, <1>9, PartsGiveInv DEF RequestsGrow

FileSteps ==
  \/ SessionMoves
  \/ \E photo \in Photos : UploadPourPhoto(photo) \/ UploadUnattributedPhoto(photo)
  \/ AddPhotoRow \/ PrunePhotoRows \/ UnlinkPhotos
  \/ SetAvatarIfMissing \/ ReplaceAvatar \/ MarkAvatar \/ DeleteAvatar \/ UnlinkAvatar

LEMMA FileStepsInv ==
  ASSUME Inv, FileSteps
  PROVE  Inv' /\ CameraStep /\ RequestsGrow
<1>1. TypeOK /\ Parts /\ FileInv /\ requests \in Requests
  BY InvIsParts DEF Inv, Parts
<1>2. UNCHANGED <<camera, clipVars>>
  BY DEF FileSteps, SessionMoves, UploadPourPhoto, UploadUnattributedPhoto, StorePhoto, AddPhotoRow,
         PrunePhotoRows, UnlinkPhotos, SetAvatarIfMissing, ReplaceAvatar, WriteAvatar, MarkAvatar,
         DeleteAvatar, UnlinkAvatar
<1>3. RequestsGrow
  <2>1. NewRequest \/ UNCHANGED requests
    BY DEF FileSteps, SessionMoves, UploadPourPhoto, UploadUnattributedPhoto, StorePhoto,
           AddPhotoRow, PrunePhotoRows, UnlinkPhotos, SetAvatarIfMissing, ReplaceAvatar,
           WriteAvatar, MarkAvatar, DeleteAvatar, UnlinkAvatar
  <2>. QED  BY <1>1, <2>1, RequestsCount
<1>4. CameraStep
  BY <1>2 DEF CameraStep
<1>5. ClipInv' /\ OkStays
  BY <1>1, <1>2, ClipsRest DEF Parts
<1>6. CameraType' /\ DoneIsAnswered'
  BY <1>1, <1>3, <1>4, <1>5, CameraInv DEF Parts, RequestsGrow
<1>7. FileInv'
  <2>1. CASE SessionMoves
    BY <1>1, <2>1 DEF SessionMoves, FileInv, FileTypes, RowsHaveFiles, HandlerOwnsFile
  <2>2. ASSUME NEW photo \in Photos, UploadPourPhoto(photo) \/ UploadUnattributedPhoto(photo)
        PROVE  FileInv'
    BY <1>1, <2>2, StorePhotoInv DEF UploadPourPhoto, UploadUnattributedPhoto
  <2>. QED  BY <1>1, <2>1, <2>2, AddPhotoRowInv, PrunePhotoRowsInv, UnlinkPhotosInv, AvatarInv
            DEF FileSteps
<1>. QED  BY <1>3, <1>4, <1>5, <1>6, <1>7, PartsGiveInv DEF RequestsGrow

LEMMA CrashInv ==
  ASSUME Inv, Crash
  PROVE  Inv' /\ CameraStep /\ RequestsGrow
<1>1. TypeOK /\ ClipsAreWritten /\ StoredIsKept /\ Parts /\ FileInv
  BY InvIsParts DEF Inv, Parts, ClipInv
<1>2. camera' = NoRequest /\ loop' = NoJob /\ UNCHANGED <<photoVars, avatar, requests>>
  BY DEF Crash
<1>3. ClipInv'
  BY <1>1, CrashKeepsClips
<1>4. RequestsGrow /\ CameraStep
  BY <1>1, <1>2, RequestsCount DEF CameraStep
<1>5. CameraType' /\ DoneIsAnswered'
  <2>1. 0 \in 0..requests'
    BY <1>1, <1>2 DEF TypeOK, Requests
  <2>. QED  BY <1>2, <2>1 DEF CameraType, DoneIsAnswered, NoRequest
<1>6. FileInv'
  BY <1>1, <1>2, JobTypes DEF photoVars, FileInv, FileTypes, RowsHaveFiles, HandlerOwnsFile
<1>. QED  BY <1>3, <1>4, <1>5, <1>6, PartsGiveInv DEF RequestsGrow

LEMMA NextInv ==
  ASSUME Inv, [Next]_vars
  PROVE  Inv' /\ CameraStep /\ RequestsGrow
<1>1. CASE UNCHANGED vars
  <2>1. TypeOK /\ Parts
    BY InvIsParts DEF Inv
  <2>2. UNCHANGED <<camera, clipVars, photoVars, avatar, loop, requests>>
    BY <1>1 DEF vars
  <2>3. RequestsGrow /\ CameraStep
    BY <2>1, <2>2, RequestsCount DEF CameraStep
  <2>4. ClipInv' /\ FileInv'
    BY <2>1, <2>2, ClipsRest, FilesRest DEF Parts
  <2>5. OkStays
    BY <2>1, <2>2, ClipsRest DEF Parts
  <2>6. CameraType' /\ DoneIsAnswered'
    BY <2>1, <2>3, <2>5, CameraInv DEF Parts, RequestsGrow
  <2>. QED  BY <2>3, <2>4, <2>6, PartsGiveInv DEF RequestsGrow
<1>. QED  BY <1>1, RequestSteps, UploadSteps, FileStepsInv, CrashInv DEF Next, FileSteps

(* The inductive invariant holds wherever the handlers and the threads are *)
(* interleaved, fail or stop.                                              *)
THEOREM MediaInvariant == Spec => []Inv
<1>. QED  BY InitInv, NextInv, PTL DEF Spec

(* A clip that was answered 201, and the clip of a request that is done,   *)
(* is on disk or gave way to enough younger clips of its pool.             *)
THEOREM AnsweredClipAlwaysStored == Spec => []AnsweredClipIsStored
<1>1. Inv => AnsweredClipIsStored
  BY DEF Inv, TypeOK, ClipsAreKept, AnsweredClipIsStored
<1>. QED  BY <1>1, MediaInvariant, PTL

(* Every photo row and every avatar row has its file. *)
THEOREM RowsAlwaysHaveFiles == Spec => []RowsHaveFiles
<1>1. Inv => RowsHaveFiles
  BY DEF Inv
<1>. QED  BY <1>1, MediaInvariant, PTL

(* Uploads that prune at once never delete one of the newest of a pool. *)
THEOREM RetentionAlwaysKeepsNewest == Spec => RetentionKeepsNewest
<1>1. ASSUME Inv, [Next]_vars, NEW u \in clips \ clips'
      PROVE  Cardinality(Successors(u)) >= Keep(uploads[u].label)
  <2>1. TypeOK /\ ClipsAreWritten
    BY <1>1 DEF Inv
  <2>2. PICK v \in Uploads : Prune(v)
    BY <1>1 DEF Next, vars, clipVars, RecordClip, Expire, FailRecording, UploadBegins,
                WriteTemporary, Replace, SweepAndList, Resolve, SessionMoves, UploadPourPhoto,
                UploadUnattributedPhoto, StorePhoto, AddPhotoRow, PrunePhotoRows, UnlinkPhotos,
                SetAvatarIfMissing, ReplaceAvatar, WriteAvatar, MarkAvatar, DeleteAvatar,
                UnlinkAvatar, Crash
  <2>. QED  BY <2>1, <2>2, DeletedIsSuperseded
<1>2. Inv /\ [Next]_vars =>
        [\A u \in clips \ clips' : Cardinality(Successors(u)) >= Keep(uploads[u].label)]_vars
  BY <1>1
<1>. QED  BY <1>2, MediaInvariant, PTL DEF Spec, RetentionKeepsNewest

(* A request is settled once, by its own clip, failure or expiry. *)
THEOREM RequestAlwaysSettledOnce == Spec => RequestSettledOnce
<1>1. Inv /\ [Next]_vars =>
        [camera' \notin {camera, NoRequest} =>
           IF camera.status = "pending" THEN camera'.id = camera.id
           ELSE camera'.id > camera.id]_vars
  <2>. SUFFICES ASSUME Inv, [Next]_vars
                PROVE  camera' \notin {camera, NoRequest} =>
                         IF camera.status = "pending" THEN camera'.id = camera.id
                         ELSE camera'.id > camera.id
    OBVIOUS
  <2>1. TypeOK /\ CameraStep /\ requests' \in Nat /\ requests' >= requests
    BY NextInv DEF Inv, RequestsGrow, Requests
  <2>. QED  BY <2>1, CameraSettles
<1>. QED  BY <1>1, MediaInvariant, PTL DEF Spec, RequestSettledOnce
===============================================================================
