----------------------------- MODULE Recordings -----------------------------
(***************************************************************************)
(* The recording manager: recordings/*.rs and motion_recorder.rs.  HTTP    *)
(* requests and the motion poller start recordings, one task per recording *)
(* captures the camera's live stream into a partial file and publishes it  *)
(* as MPEG-TS, and a journal keeps the manifests and the idempotency keys  *)
(* across restarts.  The manager's mutex makes each method one step; the   *)
(* tasks touch the spool directory between those steps, without it.        *)
(*                                                                         *)
(* A recording is named by a number given in the order of requested_at.    *)
(* Its camera and trigger never change, so they are kept once and not in   *)
(* both copies of the journal.  The duration a key must be retried with is *)
(* part of the camera.  The stream is the environment: it brings frames,   *)
(* ends, or stays silent.                                                  *)
(***************************************************************************)
EXTENDS Naturals, FiniteSets

CONSTANTS
    Cameras,
    Keys,          \* idempotency keys: request identifiers and motion events
    MaxBytes,      \* max_bytes, in frames
    Quota,         \* quota_bytes, in frames
    MayFail,       \* whether the file system may refuse an operation
    MaxRecordings  \* bound: recordings accepted in one behaviour

Ids == 1 .. MaxRecordings

ASSUME RecordingsAssumption ==
    /\ IsFiniteSet(Cameras)
    /\ MaxBytes \in Nat \ {0}
    /\ Quota \in Nat
    /\ MaxBytes <= Quota          \* config.rs refuses another configuration
    /\ MayFail \in BOOLEAN
    /\ MaxRecordings \in Nat

VARIABLES
    up,       \* whether the engine runs
    mem,      \* RecordingManager.state: the status of each manifest, the keys
    disk,     \* the journal file, of the same shape
    made,     \* number of recordings accepted
    camera,   \* per recording, its camera
    trigger,  \* per recording, "manual" or "motion"
    task,     \* per recording, where its capture task stands
    written,  \* per recording, frames its task has written
    partial,  \* recordings with a .partial file
    media,    \* per recording, frames in its .ts file; 0 when there is none
    poller    \* the motion poller inside start_motion

fileVars == <<written, partial, media>>
nameVars == <<made, camera, trigger>>
vars == <<up, mem, disk, nameVars, task, fileVars, poller>>

Nothing == [status |-> [i \in Ids |-> "none"], keys |-> [k \in Keys |-> 0]]
Idle == [at |-> "idle", key |-> "none", camera |-> "none", victim |-> 0]

Listed(i) == mem.status[i] # "none"
Active == {"pending", "recording"}
InProgress(i) == mem.status[i] \in Active

(* spool_bytes: the published files only, a partial file is not counted.    *)
Total(sizes) ==
    LET upTo[n \in 0 .. MaxRecordings] == IF n = 0 THEN 0 ELSE upTo[n - 1] + sizes[n]
    IN  upTo[MaxRecordings]
Spool == Total(media)

-----------------------------------------------------------------------------
(* persist writes the manager's state as it is after the step; when the     *)
(* directory cannot be synced the rename may already have happened.         *)
Persisted == disk' = mem'
PersistFails == MayFail /\ disk' \in {disk, mem'}

SetStatus(i, s) == mem' = [mem EXCEPT !.status[i] = s]
Goto(i, stage) == task' = [task EXCEPT ![i] = stage]
Full == Spool + MaxBytes > Quota
Busy(c) == \E i \in Ids : InProgress(i) /\ camera[i] = c
AdmitsBusy(k, c) == mem.keys[k] = 0
Admits(k, c) == mem.keys[k] = 0 /\ ~Busy(c)

(* start, once the key, the camera and the spool are checked.  When the     *)
(* journal cannot be written the manifest stays, and no task is spawned.    *)
PersistThenSpawn ==
    \/ Persisted /\ Goto(made + 1, "spawned")
    \/ PersistFails /\ UNCHANGED task
Create(k, c, t) ==
    /\ made < MaxRecordings
    /\ made' = made + 1
    /\ camera' = [camera EXCEPT ![made + 1] = c]
    /\ trigger' = [trigger EXCEPT ![made + 1] = t]
    /\ mem' = [status |-> [mem.status EXCEPT ![made + 1] = "pending"],
               keys |-> [mem.keys EXCEPT ![k] = made + 1]]
    /\ PersistThenSpawn

(* acknowledge: unlink the media, forget the manifest and its keys, persist. *)
Deletable(i) == Listed(i) /\ ~InProgress(i)
KeysKept(i) == mem.keys
WithoutKeysOf(i) == [k \in Keys |-> IF mem.keys[k] = i THEN 0 ELSE mem.keys[k]]
Removed(i) ==
    /\ mem' = [status |-> [mem.status EXCEPT ![i] = "none"], keys |-> WithoutKeysOf(i)]
    /\ media' = [media EXCEPT ![i] = 0]
Acknowledged(i) == Deletable(i) /\ Removed(i) /\ Persisted
AcknowledgeFails(i) ==
    /\ Deletable(i)
    /\ MayFail
    /\ \/ /\ media[i] # 0
          /\ media' \in {media, [media EXCEPT ![i] = 0]}
          /\ UNCHANGED <<mem, disk>>
       \/ Removed(i) /\ PersistFails

-----------------------------------------------------------------------------
Init ==
    /\ up = TRUE
    /\ mem = Nothing
    /\ disk = Nothing
    /\ made = 0
    /\ camera = [i \in Ids |-> "none"]
    /\ trigger = [i \in Ids |-> "manual"]
    /\ task = [i \in Ids |-> "none"]
    /\ written = [i \in Ids |-> 0]
    /\ partial = {}
    /\ media = [i \in Ids |-> 0]
    /\ poller = Idle

-----------------------------------------------------------------------------
(* Requests over HTTP.  A request that is refused, or whose key is known,    *)
(* changes nothing.  One number is kept for the event the poller holds.     *)

StartManual(k, c) ==
    /\ up
    /\ Admits(k, c)
    /\ ~Full
    /\ poller.at = "idle" \/ made + 1 < MaxRecordings
    /\ Create(k, c, "manual")
    /\ UNCHANGED <<up, fileVars, poller>>

Delete(i) ==
    /\ up
    /\ Acknowledged(i) \/ AcknowledgeFails(i)
    /\ UNCHANGED <<up, nameVars, task, written, partial, poller>>

-----------------------------------------------------------------------------
(* The motion poller: start, and while the spool is full evict the oldest    *)
(* finished motion recording, chosen and removed in two critical sections.  *)

MotionEvent(k, c) ==
    /\ up
    /\ poller.at = "idle"
    /\ made < MaxRecordings
    /\ poller' = [at |-> "starting", key |-> k, camera |-> c, victim |-> 0]
    /\ UNCHANGED <<up, mem, disk, nameVars, task, fileVars>>

StartMotion ==
    /\ up
    /\ poller.at = "starting"
    /\ \/ /\ ~Admits(poller.key, poller.camera)
          /\ poller' = Idle
          /\ UNCHANGED <<mem, disk, nameVars, task>>
       \/ /\ Admits(poller.key, poller.camera) /\ Full
          /\ poller' = [poller EXCEPT !.at = "choosing"]
          /\ UNCHANGED <<mem, disk, nameVars, task>>
       \/ /\ Admits(poller.key, poller.camera) /\ ~Full
          /\ Create(poller.key, poller.camera, "motion")
          /\ poller' = Idle
    /\ UNCHANGED <<up, fileVars>>

EvictableAny == {i \in Ids : mem.status[i] \in {"ready", "failed"}}
Evictable == {i \in Ids : trigger[i] = "motion" /\ mem.status[i] \in {"ready", "failed"}}

ChooseVictim ==
    /\ up
    /\ poller.at = "choosing"
    /\ \/ Evictable = {} /\ poller' = Idle
       \/ \E i \in Evictable :
             /\ \A j \in Evictable : i <= j
             /\ poller' = [poller EXCEPT !.at = "removing", !.victim = i]
    /\ UNCHANGED <<up, mem, disk, nameVars, task, fileVars>>

TryAgain == poller' = [poller EXCEPT !.at = "starting", !.victim = 0]
GiveUp == poller' = Idle
RemoveVictim ==
    /\ up
    /\ poller.at = "removing"
    /\ \/ Acknowledged(poller.victim) /\ TryAgain
       \/ AcknowledgeFails(poller.victim) /\ GiveUp
       \/ ~Listed(poller.victim) /\ GiveUp /\ UNCHANGED <<mem, disk, media>>
    /\ UNCHANGED <<up, nameVars, task, written, partial>>

-----------------------------------------------------------------------------
(* The capture task: record and capture. *)

MarkRecording(i) ==
    /\ task[i] = "spawned"
    /\ SetStatus(i, "recording")
    /\ \/ Persisted /\ Goto(i, "opening")
       \/ PersistFails /\ Goto(i, "failing")
    /\ UNCHANGED <<up, nameVars, fileVars, poller>>

(* Subscribe to the camera's hub, then create the partial file; either may   *)
(* be refused, the hub because a WebRTC session holds the camera.           *)
OpenPartial(i) ==
    /\ task[i] = "opening"
    /\ \/ partial' = partial \cup {i} /\ Goto(i, "writing")
       \/ UNCHANGED partial /\ Goto(i, "failing")
    /\ UNCHANGED <<up, mem, disk, nameVars, written, media, poller>>

(* A frame arrives: it may be no MPEG-TS, exceed the file's bound or not be  *)
(* written; after it the requested duration may have elapsed.               *)
FitsOneMore(i) == written[i] <= MaxBytes
Fits(i) == written[i] < MaxBytes
Frame(i) ==
    /\ task[i] = "writing"
    /\ \/ /\ Fits(i)
          /\ written' = [written EXCEPT ![i] = @ + 1]
          /\ UNCHANGED task \/ Goto(i, "syncing")
       \/ Goto(i, "cleaning") /\ UNCHANGED written
    /\ UNCHANGED <<up, mem, disk, nameVars, partial, media, poller>>

StreamEnds(i) ==
    /\ task[i] = "writing"
    /\ Goto(i, IF written[i] = 0 THEN "cleaning" ELSE "syncing")
    /\ UNCHANGED <<up, mem, disk, nameVars, fileVars, poller>>

SyncPartial(i) ==
    /\ task[i] = "syncing"
    /\ \/ Goto(i, "renaming")
       \/ MayFail /\ Goto(i, "cleaning")
    /\ UNCHANGED <<up, mem, disk, nameVars, fileVars, poller>>

(* rename, then the sync of the directory; an error of the second leaves the *)
(* media published under a recording that is going to fail.                 *)
Published(i) ==
    /\ partial' = partial \ {i}
    /\ media' = [media EXCEPT ![i] = written[i]]
    /\ written' = [written EXCEPT ![i] = 0]
Publish(i) ==
    /\ task[i] = "renaming"
    /\ \/ Published(i) /\ Goto(i, "published")
       \/ MayFail /\ Published(i) /\ Goto(i, "cleaning")
       \/ MayFail /\ UNCHANGED fileVars /\ Goto(i, "cleaning")
    /\ UNCHANGED <<up, mem, disk, nameVars, poller>>

(* The timeout of the whole capture.  A rename handed to the blocking pool   *)
(* is not cancelled with it.                                                *)
NeverTimesOut(i) == FALSE
TimesOut(i) == task[i] \in {"writing", "syncing", "renaming"}
Timeout(i) ==
    /\ TimesOut(i)
    /\ Goto(i, IF task[i] = "renaming" THEN "racing" ELSE "cleaning")
    /\ UNCHANGED <<up, mem, disk, nameVars, fileVars, poller>>

(* remove_file(partial), whose failure is ignored; it races the rename that  *)
(* a timeout left behind.                                                   *)
CleanUp(i) ==
    /\ task[i] \in {"cleaning", "racing"}
    /\ \/ task[i] = "racing" /\ Published(i)
       \/ /\ partial' = partial \ {i}
          /\ written' = [written EXCEPT ![i] = 0]
          /\ UNCHANGED media
       \/ MayFail /\ task[i] = "cleaning" /\ UNCHANGED fileVars
    /\ Goto(i, "failing")
    /\ UNCHANGED <<up, mem, disk, nameVars, poller>>

MarkReady(i) ==
    /\ task[i] = "published"
    /\ SetStatus(i, "ready")
    /\ \/ Persisted /\ Goto(i, "ending")
       \/ PersistFails /\ Goto(i, "failing")
    /\ UNCHANGED <<up, nameVars, fileVars, poller>>

(* record's last critical section; the result of its persist is only logged. *)
FinalStatus(i) == IF task[i] = "failing" THEN "failed" ELSE mem.status[i]
Finish(i) ==
    /\ task[i] \in {"failing", "ending"}
    /\ Goto(i, "none")
    /\ IF Listed(i)
       THEN SetStatus(i, FinalStatus(i)) /\ (Persisted \/ PersistFails)
       ELSE UNCHANGED <<mem, disk>>
    /\ UNCHANGED <<up, nameVars, fileVars, poller>>

-----------------------------------------------------------------------------
(* The engine stops at any moment, and load recovers the manifests.         *)

Crash ==
    /\ up
    /\ up' = FALSE
    /\ mem' = Nothing
    /\ task' = [i \in Ids |-> "none"]
    /\ written' = [i \in Ids |-> 0]
    /\ poller' = Idle
    /\ UNCHANGED <<disk, nameVars, partial, media>>

RecoveredUnchecked(i) ==
    IF disk.status[i] \in Active THEN "failed" ELSE disk.status[i]
Recovered(i) ==
    IF disk.status[i] \in Active \/ (disk.status[i] = "ready" /\ media[i] = 0)
    THEN "failed" ELSE disk.status[i]
Load ==
    /\ ~up
    /\ partial' = {}
    /\ LET new == [status |-> [i \in Ids |-> Recovered(i)], keys |-> disk.keys]
       IN  \/ up' = TRUE /\ mem' = new /\ disk' = new
           \/ MayFail /\ UNCHANGED <<up, mem>> /\ disk' \in {disk, new}
    /\ UNCHANGED <<nameVars, task, written, media, poller>>

-----------------------------------------------------------------------------
(* What the engine does by itself, and what the stream may do. *)
TaskStep(i) ==
    \/ MarkRecording(i) \/ OpenPartial(i) \/ SyncPartial(i) \/ Publish(i)
    \/ Timeout(i) \/ CleanUp(i) \/ MarkReady(i) \/ Finish(i)
StreamStep(i) == Frame(i) \/ StreamEnds(i)
PollerStep == StartMotion \/ ChooseVictim \/ RemoveVictim

Next ==
    \/ \E k \in Keys, c \in Cameras : StartManual(k, c) \/ MotionEvent(k, c)
    \/ \E i \in Ids : Delete(i) \/ TaskStep(i) \/ StreamStep(i)
    \/ PollerStep
    \/ Crash
    \/ Load

Spec == Init /\ [][Next]_vars

(* Tokio runs every task that can run, and the timer of a capture fires; the *)
(* stream promises nothing.                                                 *)
FairSpec == Spec /\ (\A i \in Ids : WF_vars(TaskStep(i))) /\ WF_vars(PollerStep)

-----------------------------------------------------------------------------
(* Properties. *)

Statuses == {"none", "pending", "recording", "ready", "failed"}
Capturing == {"opening", "writing", "syncing", "renaming", "racing", "cleaning", "published"}
Stages == {"none", "spawned", "failing", "ending"} \cup Capturing
Running(i) == task[i] # "none"
Journals == [status : [Ids -> Statuses], keys : [Keys -> 0 .. MaxRecordings]]
Pollers == [at : {"idle", "starting", "choosing", "removing"}, key : Keys \cup {"none"},
            camera : Cameras \cup {"none"}, victim : 0 .. MaxRecordings]

(* The manager's state, its journal and the spool keep their types: no file  *)
(* exceeds max_bytes and no recording is numbered twice.                    *)
TypeOK ==
    /\ up \in BOOLEAN
    /\ mem \in Journals
    /\ disk \in Journals
    /\ made \in 0 .. MaxRecordings
    /\ camera \in [Ids -> Cameras \cup {"none"}]
    /\ trigger \in [Ids -> {"manual", "motion"}]
    /\ task \in [Ids -> Stages]
    /\ written \in [Ids -> 0 .. MaxBytes]
    /\ partial \in SUBSET Ids
    /\ media \in [Ids -> 0 .. MaxBytes]
    /\ poller \in Pollers

(* ADR-0005: "One camera has at most one active capture."  Two tasks never   *)
(* capture the same camera, through failures, deletions and restarts.       *)
OneCapture ==
    \A i, j \in Ids :
        task[i] \in Capturing /\ task[j] \in Capturing /\ camera[i] = camera[j] => i = j

(* No media file is orphaned: whatever step failed and whenever the engine   *)
(* stops, every .ts file belongs to a manifest of the running manager and of *)
(* the journal, so that it can be listed, deleted and evicted.              *)
MediaIsListed ==
    \A i \in Ids : media[i] # 0 => disk.status[i] # "none" /\ (up => Listed(i))

(* ADR-0005: startup "marks interrupted jobs failed".  A recording whose task *)
(* has not ended is in the journal as unfinished, so that load neither        *)
(* forgets it nor calls it ready.                                           *)
InterruptedIsMarked ==
    \A i \in Ids : task[i] \in {"spawned"} \cup Capturing => Recovered(i) = "failed"

(* An idempotency key never points to a manifest that is gone, or a retry of *)
(* the request would be refused for ever; and no two keys share a recording. *)
KeysPointToListed ==
    up => /\ \A k \in Keys : mem.keys[k] # 0 => Listed(mem.keys[k])
          /\ \A k, l \in Keys : mem.keys[k] = mem.keys[l] /\ mem.keys[k] # 0 => k = l

(* Nothing that a client can name is missing, and nothing kept is unnamed.   *)
ListedIsSound == MediaIsListed /\ KeysPointToListed

(* The quota check counts published files only and reserves nothing for the  *)
(* captures in progress: with n cameras the spool exceeds the quota by at    *)
(* most n - 1 files, and never by more.                                     *)
SpoolIsBounded == Spool <= Quota + (Cardinality(Cameras) - 1) * MaxBytes

(* A manifest becomes ready only with its media on disk, whether a task      *)
(* publishes it or load reads it back after a delete that was interrupted.  *)
ReadyHasMedia ==
    [][\A i \in Ids : mem.status[i] # "ready" /\ mem'.status[i] = "ready" => media'[i] # 0]_vars

(* What the journal says of a recording is true of its media, after a        *)
(* restart too.                                                             *)
JournalIsTrue == []InterruptedIsMarked /\ ReadyHasMedia

(* ADR-0012: "Manual recordings are never removed automatically."  The poller *)
(* never takes a manual recording's manifest or media away.                 *)
ManualIsKept ==
    [][\A i \in Ids :
          poller' # poller /\ up' /\ trigger[i] = "manual"
             => media'[i] = media[i] /\ (Listed(i) => mem'.status[i] # "none")]_vars

(* However silent the stream is, a capture ends by its timeout at the latest, *)
(* and its recording is then no longer in progress.                         *)
CaptureEnds == \A i \in Ids : Running(i) ~> ~Running(i) /\ (up => ~InProgress(i))

(* The eviction loop ends: every pass removes a recording or gives up.       *)
PollerReturns == (poller.at # "idle") ~> (poller.at = "idle")

(* No capture and no pass of the poller goes on for ever.                    *)
WorkEnds == CaptureEnds /\ PollerReturns

-----------------------------------------------------------------------------
(* Statements of the repository that the code does not keep. *)

(* The answer "a recording is already active for this camera" (error.rs): a  *)
(* recording in progress has a task.  A failed journal write leaves one      *)
(* pending without a task, until the engine restarts.                       *)
ActiveIsRunning == \A i \in Ids : InProgress(i) => Running(i)

=============================================================================
