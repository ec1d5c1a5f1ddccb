---------------------------- MODULE MediaStorage ----------------------------
(***************************************************************************)
(* The images of one raw event (services/media_storage.py, as the AI       *)
(* worker calls it): download and process what can be, drop near           *)
(* duplicates, upload one object after the other, and delete what was      *)
(* uploaded when an upload fails.  The listing that leaves the worker      *)
(* names the objects; the first one persisted keeps them.                  *)
(*                                                                         *)
(* The message may be delivered again, so several runs of the service meet *)
(* in the bucket under keys made of the image's place among the images     *)
(* that could be had this time.                                            *)
(***************************************************************************)
EXTENDS Naturals, Sequences

CONSTANTS
  Refs,       \* the event's media references: sequence of [id, look, valid]
  Runs,       \* deliveries of the message, each handled by one run
  MaxFaults   \* bound on failed uploads and deletes and on ended processes

\* References with one id are one image.
Constants ==
  /\ Refs \in Seq({Refs[i] : i \in DOMAIN Refs})
  /\ \A i, j \in DOMAIN Refs : Refs[i].id = Refs[j].id => Refs[i].look = Refs[j].look

VARIABLES
  run,        \* what each run is doing
  bucket,     \* keys of the stored objects
  named,      \* media id -> key, as the persisted listing names them
  faults,
  repeated,   \* history: the listing was persisted by two runs
  left,       \* history: a run ended that could not clean up after itself
  inDoubt     \* keys of the uploads that raised: the store may have them, or get them

vars == <<run, bucket, named, faults, repeated, left, inDoubt>>

Waiting == [at |-> "waiting"]

Idle(r) == run[r].at \in {"waiting", "published", "failed", "ended"}

Init ==
  /\ run = [r \in Runs |-> Waiting]
  /\ bucket = {}
  /\ named = << >>
  /\ faults = 0
  /\ repeated = FALSE
  /\ left = FALSE
  /\ inDoubt = {}

Fault == faults < MaxFaults /\ faults' = faults + 1

\* The runs of one message follow each other, or overlap when it is redelivered
\* to a second worker.
Start(r) ==
  /\ run[r].at = "waiting"
  /\ run' = [run EXCEPT ![r] = [at |-> "download", next |-> 1, processed |-> << >>]]
  /\ UNCHANGED <<bucket, named, faults, repeated, left, inDoubt>>

-----------------------------------------------------------------------------
(* Download, process, deduplicate                                          *)

\* MediaProcessor.process: an accepted type whose content decodes.
Processable(ref) == ref.valid

\* SmartMediaResolver.download: from the cache, the client or a session of its own.
Download(r) ==
  /\ run[r].at = "download" /\ run[r].next <= Len(Refs)
  /\ LET ref == Refs[run[r].next]
         had == run[r].processed
     IN  run' = [run EXCEPT ![r] = [at |-> "download", next |-> @.next + 1,
                                    processed |-> IF Processable(ref) THEN Append(had, ref) ELSE had]]
  /\ UNCHANGED <<bucket, named, faults, repeated, left, inDoubt>>

\* The reference could not be resolved this time: it is skipped.
DownloadFails(r) ==
  /\ run[r].at = "download" /\ run[r].next <= Len(Refs)
  /\ run' = [run EXCEPT ![r].next = @ + 1]
  /\ UNCHANGED <<bucket, named, faults, repeated, left, inDoubt>>

\* MediaProcessor.remove_near_duplicates: an image within the hash distance of one
\* already kept is dropped.
RemoveNearDuplicates(s) ==
  LET kept[n \in 0 .. Len(s)] ==
        IF n = 0 THEN << >>
        ELSE IF \E i \in DOMAIN kept[n - 1] : kept[n - 1][i].look = s[n].look
          THEN kept[n - 1] ELSE Append(kept[n - 1], s[n])
  IN  kept[Len(s)]

Prepared(r) ==
  /\ run[r].at = "download" /\ run[r].next > Len(Refs)
  /\ run' = [run EXCEPT ![r] = [at |-> "upload", unique |-> RemoveNearDuplicates(run[r].processed),
                                stored |-> << >>]]
  /\ UNCHANGED <<bucket, named, faults, repeated, left, inDoubt>>

-----------------------------------------------------------------------------
(* Upload, or undo                                                         *)

\* build_object_key: the place among the images of this run, the media id and the
\* content, which the id determines.
ObjectKey(place, ref) == <<place, ref.id>>

Uploading(r) == run[r].at = "upload" /\ Len(run[r].stored) < Len(run[r].unique)

NextKey(r) == LET n == Len(run[r].stored) + 1 IN ObjectKey(n, run[r].unique[n])

\* R2ObjectStorage.upload
Upload(r) ==
  /\ Uploading(r)
  /\ bucket' = bucket \cup {NextKey(r)}
  /\ run' = [run EXCEPT ![r].stored = Append(@, NextKey(r))]
  /\ UNCHANGED <<named, faults, repeated, left, inDoubt>>

\* Mutant: a failed upload is skipped and its key kept.
UploadRaisesSkips(r) ==
  /\ Uploading(r)
  /\ Fault
  /\ run' = [run EXCEPT ![r].stored = Append(@, NextKey(r))]
  /\ UNCHANGED <<bucket, named, repeated, left, inDoubt>>

\* The put was refused, or its answer did not come: _cleanup knows the objects
\* before it only.
UploadRaises(r) ==
  /\ Uploading(r)
  /\ Fault
  /\ run' = [run EXCEPT ![r] = [at |-> "cleanup", stored |-> run[r].stored, undone |-> {}]]
  /\ inDoubt' = inDoubt \cup {NextKey(r)}
  /\ UNCHANGED <<bucket, named, repeated, left>>

\* The store completes a put the client gave up on (a read timeout, and the client's
\* own retries of it), at once or later.
PutCompletes(k) ==
  /\ bucket' = bucket \cup {k}
  /\ UNCHANGED <<run, named, faults, repeated, left, inDoubt>>

\* _cleanup: one delete after the other.
Delete(r) ==
  /\ run[r].at = "cleanup" /\ run[r].stored # << >>
  /\ bucket' = bucket \ {Head(run[r].stored)}
  /\ run' = [run EXCEPT ![r] = [at |-> "cleanup", stored |-> Tail(@.stored),
                                undone |-> @.undone \cup {Head(@.stored)}]]
  /\ UNCHANGED <<named, faults, repeated, left, inDoubt>>

\* A delete that raises is passed over.
DeleteRaises(r) ==
  /\ run[r].at = "cleanup" /\ run[r].stored # << >>
  /\ Fault
  /\ run' = [run EXCEPT ![r] = [at |-> "cleanup", stored |-> Tail(@.stored), undone |-> @.undone]]
  /\ left' = TRUE
  /\ UNCHANGED <<bucket, named, repeated, inDoubt>>

\* The StorageUploadError goes on to the worker, which has the message retried.
Reraise(r) ==
  /\ run[r].at = "cleanup" /\ run[r].stored = << >>
  /\ run' = [run EXCEPT ![r] = [at |-> "failed", undone |-> run[r].undone]]
  /\ UNCHANGED <<bucket, named, faults, repeated, left, inDoubt>>

-----------------------------------------------------------------------------
(* What the worker does with the stored media                              *)

AllStored(r) == run[r].at = "upload" /\ Len(run[r].stored) = Len(run[r].unique)

\* _save_announcement_media: one row per announcement and media id, the first kept.
SavedMedia(keys) ==
  [id \in DOMAIN named \cup {k[2] : k \in keys} |->
     IF id \in DOMAIN named THEN named[id] ELSE CHOOSE k \in keys : k[2] = id]

\* The listing is accepted, published and persisted with its media.
Persist(r) ==
  /\ AllStored(r)
  /\ named' = SavedMedia({run[r].stored[i] : i \in DOMAIN run[r].stored})
  /\ repeated' = (repeated \/ \E q \in Runs : run[q].at = "published")
  /\ run' = [run EXCEPT ![r] = [at |-> "published"]]
  /\ UNCHANGED <<bucket, faults, left, inDoubt>>

\* The listing is rejected, or its extraction fails, after its media was stored.
Reject(r) ==
  /\ AllStored(r)
  /\ run' = [run EXCEPT ![r] = [at |-> "ended", undone |-> {}]]
  /\ left' = TRUE
  /\ UNCHANGED <<bucket, named, faults, repeated, inDoubt>>

\* The worker process ends.
Crash(r) ==
  /\ ~Idle(r)
  /\ Fault
  /\ run' = [run EXCEPT ![r] =
                [at |-> "ended", undone |-> IF run[r].at = "cleanup" THEN run[r].undone ELSE {}]]
  /\ left' = TRUE
  /\ UNCHANGED <<bucket, named, repeated, inDoubt>>

Next ==
  \/ \E k \in inDoubt : PutCompletes(k)
  \/ \E r \in Runs :
    \/ Start(r) \/ Download(r) \/ DownloadFails(r) \/ Prepared(r)
    \/ Upload(r) \/ UploadRaises(r) \/ Delete(r) \/ DeleteRaises(r) \/ Reraise(r)
    \/ Persist(r) \/ Reject(r) \/ Crash(r)

Spec == Init /\ [][Next]_vars

-----------------------------------------------------------------------------
(* Properties                                                              *)

\* An object a listing names is in the bucket, unless another delivery of the same
\* message stored it again under the same key, failed later and took it back.
NamedIsStored ==
  \A id \in DOMAIN named :
    \/ named[id] \in bucket
    \/ \E r \in Runs : run[r].at \in {"cleanup", "failed", "ended"} /\ named[id] \in run[r].undone

\* At rest the bucket holds nothing no listing names but the object of an upload
\* that raised and was stored all the same, unless a run ended without its cleanup
\* or the message was published twice: the keys of a retry that got other images
\* differ from those of the attempt before it.
NothingLeftBehind ==
  (\A r \in Runs : Idle(r)) /\ ~left /\ ~repeated =>
    bucket \subseteq {named[id] : id \in DOMAIN named} \cup inDoubt

\* The objects stored and the objects listings name are the same, but for these.
MediaAccounted == NamedIsStored /\ NothingLeftBehind
=============================================================================
