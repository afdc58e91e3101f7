-------------------------- MODULE RecordingsProofs --------------------------
(***************************************************************************)
(* Proofs about Recordings for every number of cameras, keys, recordings   *)
(* and sizes: type correctness, one capture per camera, no orphaned media, *)
(* no forgotten job, no dangling key and a bounded spool, with a file      *)
(* system that may refuse any operation and an engine that may stop at any *)
(* step.                                                                   *)
(***************************************************************************)
EXTENDS Recordings, FiniteSetTheorems, WellFoundedInduction, TLAPS

(* The inductive invariant.  A task runs only while the engine does; until it *)
(* ends, its recording is in progress in memory and in the journal, so that  *)
(* whichever of the two a failed write leaves on disk still names it.        *)
TasksAreSaved ==
    \A i \in Ids :
        /\ task[i] # "none" => up
        /\ task[i] = "spawned" => mem.status[i] = "pending" /\ disk.status[i] \in Active
        /\ task[i] \in Capturing => mem.status[i] = "recording" /\ disk.status[i] \in Active
OneInProgress ==
    \A i, j \in Ids : InProgress(i) /\ InProgress(j) /\ camera[i] = camera[j] => i = j
FreshIsUnused ==
    \A i \in Ids : i > made =>
        mem.status[i] = "none" /\ disk.status[i] = "none" /\ task[i] = "none" /\ media[i] = 0
KeysNameListed(journal) ==
    /\ \A k \in Keys : journal.keys[k] # 0 => journal.status[journal.keys[k]] # "none"
    /\ \A k, l \in Keys : journal.keys[k] = journal.keys[l] /\ journal.keys[k] # 0 => k = l
PollerKnows ==
    /\ poller.at = "removing" => poller.victim \in Ids
    /\ poller.at # "idle" => poller.key \in Keys /\ poller.camera \in Cameras
Consistent ==
    /\ TasksAreSaved /\ OneInProgress /\ FreshIsUnused /\ MediaIsListed
    /\ KeysNameListed(mem) /\ KeysNameListed(disk)

JournalsOK == mem \in Journals /\ disk \in Journals
NamesOK ==
    /\ up \in BOOLEAN
    /\ camera \in [Ids -> Cameras \cup {"none"}]
    /\ trigger \in [Ids -> {"manual", "motion"}]
    /\ task \in [Ids -> Stages]
FilesOK ==
    /\ made \in 0 .. MaxRecordings
    /\ written \in [Ids -> 0 .. MaxBytes]
    /\ partial \in SUBSET Ids
    /\ media \in [Ids -> 0 .. MaxBytes]
PollerOK == poller \in Pollers /\ PollerKnows
Typed == JournalsOK /\ NamesOK /\ FilesOK /\ PollerOK

(* What a step writes to the journal file. *)
Saved == disk' \in {disk, mem'}

USE DEF nameVars, fileVars

LEMMA BoundIsNat == MaxRecordings \in Nat /\ MaxBytes \in Nat \ {0}
  BY RecordingsAssumption

-----------------------------------------------------------------------------
(* The operations on the manager's state, stated once. *)

LEMMA Set ==
    ASSUME JournalsOK, NEW i \in Ids, NEW s \in Statuses, SetStatus(i, s)
    PROVE  /\ mem' \in Journals
           /\ mem'.keys = mem.keys
           /\ mem'.status[i] = s
           /\ \A j \in Ids : j # i => mem'.status[j] = mem.status[j]
  BY DEF JournalsOK, Journals, SetStatus

LEMMA Insert ==
    ASSUME Typed, NEW k \in Keys, NEW c \in Cameras, NEW t \in {"manual", "motion"}, Create(k, c, t)
    PROVE  /\ made + 1 \in Ids
           /\ mem' \in Journals
           /\ mem'.keys = [mem.keys EXCEPT ![k] = made + 1]
           /\ mem'.status[made + 1] = "pending"
           /\ \A j \in Ids : j # made + 1 => mem'.status[j] = mem.status[j]
  <1>1. made + 1 \in Ids
    BY BoundIsNat DEF Typed, FilesOK, Create, Ids
  <1>2. made + 1 \in 0 .. MaxRecordings
    BY <1>1, BoundIsNat DEF Ids
  <1> QED
    BY <1>1, <1>2 DEF Create, Typed, JournalsOK, Journals, Statuses

LEMMA Forget ==
    ASSUME JournalsOK, NEW i \in Ids, Removed(i)
    PROVE  /\ mem' \in Journals
           /\ mem'.keys = WithoutKeysOf(i)
           /\ mem'.status[i] = "none"
           /\ \A j \in Ids : j # i => mem'.status[j] = mem.status[j]
           /\ \A k \in Keys : mem'.keys[k] # 0 => mem'.keys[k] = mem.keys[k] /\ mem.keys[k] # i
           /\ media' = [media EXCEPT ![i] = 0]
  <1>1. WithoutKeysOf(i) \in [Keys -> 0 .. MaxRecordings]
    BY BoundIsNat DEF WithoutKeysOf, JournalsOK, Journals
  <1>2. mem' = [status |-> [mem.status EXCEPT ![i] = "none"], keys |-> WithoutKeysOf(i)]
    BY DEF Removed
  <1>3. i # 0
    BY BoundIsNat DEF Ids
  <1>4. \A k \in Keys : mem'.keys[k] # 0 => mem'.keys[k] = mem.keys[k] /\ mem.keys[k] # i
    BY <1>2 DEF WithoutKeysOf
  <1> QED
    BY <1>1, <1>2, <1>4 DEF Removed, JournalsOK, Journals, Statuses

(* load reads the journal into a well-formed state without work in progress. *)
Reloaded == [status |-> [i \in Ids |-> Recovered(i)], keys |-> disk.keys]
LEMMA Reload ==
    ASSUME JournalsOK
    PROVE  /\ Reloaded \in Journals
           /\ Reloaded.keys = disk.keys
           /\ \A i \in Ids : /\ Reloaded.status[i] \notin Active
                             /\ (Reloaded.status[i] = "none") <=> (disk.status[i] = "none")
  BY DEF JournalsOK, Journals, Statuses, Reloaded, Recovered, Active

LEMMA Empty == Nothing \in Journals /\ (\A i \in Ids : Nothing.status[i] = "none")
               /\ (\A k \in Keys : Nothing.keys[k] = 0)
  BY BoundIsNat DEF Nothing, Journals, Statuses

-----------------------------------------------------------------------------
(* Types. *)

LEMMA AckTypes ==
    ASSUME Typed, NEW i \in Ids, Acknowledged(i) \/ AcknowledgeFails(i)
    PROVE  JournalsOK' /\ media' \in [Ids -> 0 .. MaxBytes]
  <1>0. 0 \in 0 .. MaxBytes
    BY BoundIsNat
  <1>1. CASE Removed(i) /\ Saved
    BY <1>0, <1>1, Forget DEF Typed, JournalsOK, FilesOK, Saved
  <1>2. CASE media' \in {media, [media EXCEPT ![i] = 0]} /\ UNCHANGED <<mem, disk>>
    BY <1>0, <1>2 DEF Typed, JournalsOK, FilesOK
  <1> QED
    BY <1>1, <1>2 DEF Acknowledged, AcknowledgeFails, Persisted, PersistFails, Saved

LEMMA JournalsStep == Typed /\ [Next]_vars => JournalsOK'
  <1> SUFFICES ASSUME Typed, [Next]_vars PROVE JournalsOK'
    OBVIOUS
  <1>j. JournalsOK
    BY DEF Typed
  <1>a. ASSUME NEW i \in Ids, NEW s \in Statuses, SetStatus(i, s), Saved PROVE JournalsOK'
    BY <1>a, <1>j, Set DEF JournalsOK, Saved
  <1>b. ASSUME NEW k \in Keys, NEW c \in Cameras, NEW t \in {"manual", "motion"}, Create(k, c, t)
        PROVE JournalsOK'
    BY <1>b, <1>j, Insert DEF JournalsOK, Create, PersistThenSpawn, Persisted, PersistFails
  <1>c. ASSUME UNCHANGED <<mem, disk>> PROVE JournalsOK'
    BY <1>c, <1>j DEF JournalsOK
  <1>1. ASSUME NEW k \in Keys, NEW c \in Cameras, StartManual(k, c) \/ MotionEvent(k, c)
        PROVE JournalsOK'
    BY <1>1, <1>b, <1>c DEF StartManual, MotionEvent
  <1>2. ASSUME NEW i \in Ids, Delete(i) PROVE JournalsOK'
    BY <1>2, AckTypes DEF Delete
  <1>3. ASSUME NEW i \in Ids, TaskStep(i) PROVE JournalsOK'
    <2>1. CASE MarkRecording(i)
      BY <2>1, <1>a DEF MarkRecording, Saved, Persisted, PersistFails, Statuses
    <2>2. CASE MarkReady(i)
      BY <2>2, <1>a DEF MarkReady, Saved, Persisted, PersistFails, Statuses
    <2>3. CASE Finish(i)
      <3>1. FinalStatus(i) \in Statuses
        BY <1>j DEF FinalStatus, Statuses, JournalsOK, Journals
      <3> QED
        BY <2>3, <3>1, <1>a, <1>c DEF Finish, Saved, Persisted, PersistFails
    <2> QED
      BY <1>3, <1>c, <2>1, <2>2, <2>3 DEF TaskStep, OpenPartial, SyncPartial, Publish, Timeout, CleanUp
  <1>4. ASSUME NEW i \in Ids, StreamStep(i) PROVE JournalsOK'
    BY <1>4, <1>c DEF StreamStep, Frame, StreamEnds
  <1>5. CASE PollerStep
    <2>1. CASE StartMotion
      BY <2>1, <1>b, <1>c DEF StartMotion, Typed, PollerOK, PollerKnows
    <2>2. CASE RemoveVictim
      BY <2>2, <1>c, AckTypes DEF RemoveVictim, Typed, PollerOK, PollerKnows
    <2> QED
      BY <1>5, <1>c, <2>1, <2>2 DEF PollerStep, ChooseVictim
  <1>6. CASE Crash
    BY <1>6, <1>j, Empty DEF Crash, JournalsOK
  <1>7. CASE Load
    BY <1>7, <1>j, Reload DEF Load, JournalsOK, Reloaded
  <1>8. CASE UNCHANGED vars
    BY <1>8, <1>c DEF vars
  <1> QED
    BY <1>1, <1>2, <1>3, <1>4, <1>5, <1>6, <1>7, <1>8 DEF Next

LEMMA NamesStep == Typed /\ [Next]_vars => NamesOK'
  <1> SUFFICES ASSUME Typed, [Next]_vars PROVE NamesOK'
    OBVIOUS
  <1>n. NamesOK
    BY DEF Typed
  <1> USE DEF NamesOK
  <1>b. ASSUME NEW k \in Keys, NEW c \in Cameras, NEW t \in {"manual", "motion"}, Create(k, c, t),
               UNCHANGED up
        PROVE NamesOK'
    BY <1>b, <1>n DEF Create, PersistThenSpawn, Goto, Stages
  <1>c. ASSUME UNCHANGED <<up, camera, trigger, task>> PROVE NamesOK'
    BY <1>c, <1>n
  <1>d. ASSUME NEW i \in Ids, NEW stage \in Stages, Goto(i, stage), UNCHANGED <<up, camera, trigger>>
        PROVE NamesOK'
    BY <1>d, <1>n DEF Goto
  <1>1. ASSUME NEW k \in Keys, NEW c \in Cameras, StartManual(k, c) \/ MotionEvent(k, c)
        PROVE NamesOK'
    BY <1>1, <1>b, <1>c DEF StartManual, MotionEvent
  <1>2. ASSUME NEW i \in Ids, Delete(i) PROVE NamesOK'
    BY <1>2, <1>c DEF Delete
  <1>3. ASSUME NEW i \in Ids, TaskStep(i) \/ StreamStep(i) PROVE NamesOK'
    BY <1>3, <1>c, <1>d DEF TaskStep, StreamStep, MarkRecording, OpenPartial, SyncPartial, Publish,
       Timeout, CleanUp, MarkReady, Finish, Frame, StreamEnds, Stages, Capturing
  <1>5. CASE PollerStep
    BY <1>5, <1>b, <1>c DEF PollerStep, StartMotion, ChooseVictim, RemoveVictim, Typed, PollerOK,
       PollerKnows
  <1>6. CASE Crash \/ Load
    BY <1>6, <1>n DEF Crash, Load, Stages
  <1>8. CASE UNCHANGED vars
    BY <1>8, <1>c DEF vars
  <1> QED
    BY <1>1, <1>2, <1>3, <1>5, <1>6, <1>8 DEF Next

LEMMA FilesStep == Typed /\ [Next]_vars => FilesOK'
  <1> SUFFICES ASSUME Typed, [Next]_vars PROVE FilesOK'
    OBVIOUS
  <1>f. FilesOK
    BY DEF Typed
  <1>z. MaxRecordings \in Nat /\ MaxBytes \in Nat /\ 0 \in 0 .. MaxBytes
    BY BoundIsNat
  <1>p. ASSUME NEW i \in Ids, Published(i), UNCHANGED made PROVE FilesOK'
    BY <1>p, <1>f, <1>z DEF FilesOK, Published
  <1>b. ASSUME NEW k, NEW c, NEW t, Create(k, c, t), UNCHANGED fileVars PROVE FilesOK'
    BY <1>b, <1>f, <1>z DEF FilesOK, Create
  <1>c. ASSUME UNCHANGED <<made, written, partial, media>> PROVE FilesOK'
    BY <1>c, <1>f DEF FilesOK
  <1>1. ASSUME NEW k \in Keys, NEW c \in Cameras, StartManual(k, c) \/ MotionEvent(k, c)
        PROVE FilesOK'
    BY <1>1, <1>b, <1>c DEF StartManual, MotionEvent
  <1>2. ASSUME NEW i \in Ids, Delete(i) PROVE FilesOK'
    BY <1>2, <1>f, AckTypes DEF Delete, FilesOK
  <1>3. ASSUME NEW i \in Ids, TaskStep(i) PROVE FilesOK'
    <2>1. CASE OpenPartial(i)
      BY <2>1, <1>f DEF OpenPartial, FilesOK
    <2>2. CASE Publish(i)
      BY <2>2, <1>p, <1>c DEF Publish
    <2>3. CASE CleanUp(i)
      <3>1. CASE partial' = partial \ {i} /\ written' = [written EXCEPT ![i] = 0] /\ UNCHANGED media
        BY <2>3, <3>1, <1>f, <1>z DEF CleanUp, FilesOK
      <3> QED
        BY <2>3, <3>1, <1>p, <1>c DEF CleanUp
    <2> QED
      BY <1>3, <1>c, <2>1, <2>2, <2>3 DEF TaskStep, MarkRecording, SyncPartial, Timeout, MarkReady, Finish
  <1>4. ASSUME NEW i \in Ids, StreamStep(i) PROVE FilesOK'
    <2>1. CASE Fits(i) /\ written' = [written EXCEPT ![i] = @ + 1] /\ UNCHANGED <<made, partial, media>>
      BY <2>1, <1>f, <1>z DEF Fits, FilesOK
    <2> QED
      BY <1>4, <2>1, <1>c DEF StreamStep, Frame, StreamEnds
  <1>5. CASE PollerStep
    <2>1. CASE StartMotion
      BY <2>1, <1>b, <1>c DEF StartMotion
    <2>2. CASE RemoveVictim
      BY <2>2, <1>f, AckTypes DEF RemoveVictim, FilesOK, Typed, PollerOK, PollerKnows
    <2> QED
      BY <1>5, <1>c, <2>1, <2>2 DEF PollerStep, ChooseVictim
  <1>6. CASE Crash \/ Load
    BY <1>6, <1>f, <1>z DEF Crash, Load, FilesOK
  <1>8. CASE UNCHANGED vars
    BY <1>8, <1>c DEF vars
  <1> QED
    BY <1>1, <1>2, <1>3, <1>4, <1>5, <1>6, <1>8 DEF Next

LEMMA PollerStepOK == Typed /\ [Next]_vars => PollerOK'
  <1> SUFFICES ASSUME Typed, [Next]_vars PROVE PollerOK'
    OBVIOUS
  <1>p. PollerOK
    BY DEF Typed
  <1> USE DEF PollerOK, PollerKnows, Pollers
  <1>i. Ids \subseteq 0 .. MaxRecordings /\ 0 \in 0 .. MaxRecordings
    BY BoundIsNat DEF Ids
  <1>c. ASSUME UNCHANGED poller PROVE PollerOK'
    BY <1>c, <1>p
  <1>d. ASSUME poller' = Idle PROVE PollerOK'
    BY <1>d, <1>i DEF Idle
  <1>1. ASSUME NEW k \in Keys, NEW c \in Cameras, StartManual(k, c) \/ MotionEvent(k, c)
        PROVE PollerOK'
    BY <1>1, <1>c, <1>i DEF StartManual, MotionEvent
  <1>2. ASSUME NEW i \in Ids, Delete(i) \/ TaskStep(i) \/ StreamStep(i) PROVE PollerOK'
    BY <1>2, <1>c DEF Delete, TaskStep, StreamStep, MarkRecording, OpenPartial, SyncPartial, Publish,
       Timeout, CleanUp, MarkReady, Finish, Frame, StreamEnds
  <1>5. CASE PollerStep
    <2>1. CASE StartMotion
      BY <2>1, <1>d, <1>p DEF StartMotion
    <2>2. CASE ChooseVictim
      BY <2>2, <1>d, <1>p, <1>i DEF ChooseVictim, Evictable
    <2>3. CASE RemoveVictim
      BY <2>3, <1>d, <1>p, <1>i DEF RemoveVictim, GiveUp, TryAgain
    <2> QED
      BY <1>5, <2>1, <2>2, <2>3 DEF PollerStep
  <1>6. CASE Crash \/ Load
    BY <1>6, <1>c, <1>d DEF Crash, Load
  <1>8. CASE UNCHANGED vars
    BY <1>8, <1>c DEF vars
  <1> QED
    BY <1>1, <1>2, <1>5, <1>6, <1>8 DEF Next

LEMMA TypedStep == Typed /\ [Next]_vars => Typed'
  BY JournalsStep, NamesStep, FilesStep, PollerStepOK DEF Typed

-----------------------------------------------------------------------------
(* Consistency, by kind of step. *)

Lax == {"none", "failing", "ending"}

(* A step that leaves the manager's state alone: a task moves forward or      *)
(* stops, and media appears only for a recording whose task captures.       *)
TasksMoveOn ==
    \A i \in Ids :
        \/ task'[i] = task[i]
        \/ task[i] # "none" /\ task'[i] \in Lax
        \/ task[i] \in Capturing /\ task'[i] \in Capturing
MediaIsCaptured ==
    \A i \in Ids : media'[i] = media[i] \/ media'[i] = 0 \/ task[i] \in Capturing
LEMMA QuietStep ==
    ASSUME Typed, Consistent, UNCHANGED <<up, mem, disk, made, camera>>, TasksMoveOn, MediaIsCaptured
    PROVE  Consistent'
  <1> USE DEF TasksMoveOn, MediaIsCaptured
  <1>t. \A i \in Ids : task[i] \in Capturing => task[i] # "none" /\ task[i] \notin {"spawned"}
    BY DEF Capturing
  <1>1. TasksAreSaved'
    BY <1>t DEF Consistent, TasksAreSaved, Lax, Capturing
  <1>2. OneInProgress'
    BY DEF Consistent, OneInProgress, InProgress
  <1>3. MediaIsListed'
    BY <1>t DEF Consistent, MediaIsListed, TasksAreSaved, Listed, Active
  <1>4. FreshIsUnused'
    <2> SUFFICES ASSUME NEW i \in Ids, i > made
                 PROVE  /\ mem.status[i] = "none" /\ disk.status[i] = "none"
                        /\ task'[i] = "none" /\ media'[i] = 0
      BY DEF FreshIsUnused
    <2>1. mem.status[i] = "none" /\ disk.status[i] = "none" /\ task[i] = "none" /\ media[i] = 0
      BY DEF Consistent, FreshIsUnused
    <2> QED
      BY <2>1, <1>t
  <1>5. KeysNameListed(mem)' /\ KeysNameListed(disk)'
    BY DEF Consistent, KeysNameListed
  <1> QED
    BY <1>1, <1>2, <1>3, <1>4, <1>5 DEF Consistent

(* A step of a task that sets the status of its listed recording. *)
LEMMA StatusStep ==
    ASSUME Typed, Consistent, NEW i \in Ids, NEW s \in Statuses \ {"none"},
           SetStatus(i, s), Saved, UNCHANGED <<up, made, camera, media>>,
           Listed(i), task[i] # "none", s \in Active => InProgress(i),
           \A j \in Ids : j # i => task'[j] = task[j],
           \/ task'[i] \in Lax
           \/ task'[i] \in Capturing /\ s = "recording" /\ disk'.status[i] \in Active
    PROVE  Consistent'
  <1>s. /\ mem'.keys = mem.keys
        /\ mem'.status[i] = s
        /\ \A j \in Ids : j # i => mem'.status[j] = mem.status[j]
    BY Set DEF Typed
  <1>d. \A j \in Ids : disk'.status[j] \in {disk.status[j], mem'.status[j]}
    BY DEF Saved
  <1>u. up /\ up'
    BY DEF Consistent, TasksAreSaved
  <1>1. TasksAreSaved'
    <2> SUFFICES ASSUME NEW j \in Ids
                 PROVE  /\ task'[j] # "none" => up'
                        /\ task'[j] = "spawned" => mem'.status[j] = "pending" /\ disk'.status[j] \in Active
                        /\ task'[j] \in Capturing
                              => mem'.status[j] = "recording" /\ disk'.status[j] \in Active
      BY DEF TasksAreSaved
    <2>1. CASE j = i
      BY <2>1, <1>s, <1>u DEF Lax, Capturing
    <2>2. CASE j # i
      BY <2>2, <1>s, <1>d, <1>u DEF Consistent, TasksAreSaved, Active
    <2> QED
      BY <2>1, <2>2
  <1>2. OneInProgress'
    BY <1>s DEF Consistent, OneInProgress, InProgress
  <1>3. MediaIsListed'
    BY <1>s, <1>d, <1>u DEF Consistent, MediaIsListed, Listed
  <1>4. FreshIsUnused'
    <2>1. ~(i > made)
      BY DEF Consistent, FreshIsUnused, Listed
    <2> QED
      BY <2>1, <1>s, <1>d DEF Consistent, FreshIsUnused
  <1>5. KeysNameListed(mem)'
    BY <1>s DEF Consistent, KeysNameListed, Typed, JournalsOK, Journals, Ids
  <1>6. KeysNameListed(disk)'
    <2>1. CASE disk' = disk
      BY <2>1 DEF Consistent, KeysNameListed
    <2>2. CASE disk' = mem'
      BY <2>2, <1>5 DEF KeysNameListed
    <2> QED
      BY <2>1, <2>2 DEF Saved
  <1> QED
    BY <1>1, <1>2, <1>3, <1>4, <1>5, <1>6 DEF Consistent

(* A recording is accepted: only for a free camera and an unused key. *)
LEMMA CreateStep ==
    ASSUME Typed, Consistent, NEW k \in Keys, NEW c \in Cameras, NEW t \in {"manual", "motion"},
           up, Admits(k, c), Create(k, c, t), UNCHANGED <<up, media>>
    PROVE  Consistent'
  <1> DEFINE n == made + 1
  <1>s. /\ n \in Ids
        /\ mem'.keys = [mem.keys EXCEPT ![k] = n]
        /\ mem'.status[n] = "pending"
        /\ \A j \in Ids : j # n => mem'.status[j] = mem.status[j]
    BY Insert
  <1>m. made \in Nat /\ n > made
    BY BoundIsNat DEF Typed, FilesOK
  <1>o. /\ made' = n
        /\ \A j \in Ids : camera'[j] = IF j = n THEN c ELSE camera[j]
        /\ Saved
        /\ \/ disk' = mem' /\ task' = [task EXCEPT ![n] = "spawned"]
           \/ task' = task
    BY DEF Create, PersistThenSpawn, Persisted, PersistFails, Goto, Saved, Typed, NamesOK
  <1>n. mem.status[n] = "none" /\ disk.status[n] = "none" /\ task[n] = "none" /\ media[n] = 0
    BY <1>s, <1>m DEF Consistent, FreshIsUnused
  <1>d. \A j \in Ids : disk'.status[j] \in {disk.status[j], mem'.status[j]}
    BY <1>o DEF Saved
  <1>t. \A j \in Ids : j # n => task'[j] = task[j]
    BY <1>o DEF Typed, NamesOK
  <1>1. TasksAreSaved'
    <2> SUFFICES ASSUME NEW j \in Ids
                 PROVE  /\ task'[j] # "none" => up'
                        /\ task'[j] = "spawned" => mem'.status[j] = "pending" /\ disk'.status[j] \in Active
                        /\ task'[j] \in Capturing
                              => mem'.status[j] = "recording" /\ disk'.status[j] \in Active
      BY DEF TasksAreSaved
    <2>1. CASE j = n /\ task' = task
      BY <2>1, <1>n DEF Capturing
    <2>2. CASE j = n /\ disk' = mem' /\ task' = [task EXCEPT ![n] = "spawned"]
      <3>1. task'[n] = "spawned"
        BY <2>2, <1>s DEF Typed, NamesOK
      <3> QED
        BY <2>2, <3>1, <1>s DEF Capturing, Active
    <2>3. CASE j # n
      BY <2>3, <1>s, <1>d, <1>t DEF Consistent, TasksAreSaved, Active
    <2> QED
      BY <2>1, <2>2, <2>3, <1>o
  <1>2. OneInProgress'
    <2>1. \A j \in Ids : j # n => (InProgress(j)' <=> InProgress(j)) /\ (InProgress(j) => camera[j] # c)
      BY <1>s DEF InProgress, Admits, Busy
    <2> QED
      BY <2>1, <1>o DEF Consistent, OneInProgress, InProgress
  <1>3. MediaIsListed'
    BY <1>s, <1>d, <1>n DEF Consistent, MediaIsListed, Listed
  <1>4. FreshIsUnused'
    <2> SUFFICES ASSUME NEW j \in Ids, j > n
                 PROVE  /\ mem'.status[j] = "none" /\ disk'.status[j] = "none"
                        /\ task'[j] = "none" /\ media[j] = 0
      BY <1>o DEF FreshIsUnused
    <2>1. j > made /\ j # n
      BY <1>m, BoundIsNat DEF Ids
    <2> QED
      BY <2>1, <1>s, <1>d, <1>t DEF Consistent, FreshIsUnused
  <1>5. KeysNameListed(mem)'
    <2>1. \A l \in Keys : mem'.keys[l] = IF l = k THEN n ELSE mem.keys[l]
      BY <1>s DEF Typed, JournalsOK, Journals
    <2>2. \A l \in Keys : mem.keys[l] # n
      <3>1. n # 0
        BY <1>m
      <3> QED
        BY <3>1, <1>n DEF Consistent, KeysNameListed
    <2>3. \A l \in Keys : mem.keys[l] # 0 => mem.keys[l] \in Ids
      BY BoundIsNat DEF Typed, JournalsOK, Journals, Ids
    <2>4. \A l \in Keys : mem'.keys[l] # 0 => mem'.status[mem'.keys[l]] # "none"
      BY <1>s, <2>1, <2>2, <2>3 DEF Consistent, KeysNameListed
    <2> QED
      BY <2>1, <2>2, <2>4 DEF Consistent, KeysNameListed
  <1>6. KeysNameListed(disk)'
    <2>1. CASE disk' = disk
      BY <2>1 DEF Consistent, KeysNameListed
    <2>2. CASE disk' = mem'
      BY <2>2, <1>5 DEF KeysNameListed
    <2> QED
      BY <2>1, <2>2, <1>o DEF Saved
  <1> QED
    BY <1>1, <1>2, <1>3, <1>4, <1>5, <1>6 DEF Consistent

(* A finished recording is deleted or evicted, or the attempt fails. *)
LEMMA AckStep ==
    ASSUME Typed, Consistent, NEW i \in Ids, up, Acknowledged(i) \/ AcknowledgeFails(i),
           UNCHANGED <<up, made, camera, task>>
    PROVE  Consistent'
  <1>l. Listed(i) /\ ~InProgress(i)
    BY DEF Acknowledged, AcknowledgeFails, Deletable
  <1>1. CASE UNCHANGED <<mem, disk>> /\ media' \in {media, [media EXCEPT ![i] = 0]}
    <2>1. TasksMoveOn
      BY DEF TasksMoveOn
    <2>2. MediaIsCaptured
      BY <1>1 DEF Typed, FilesOK, MediaIsCaptured
    <2> QED
      BY <1>1, <2>1, <2>2, QuietStep
  <1>2. CASE Removed(i) /\ Saved
    <2>s. /\ mem'.status[i] = "none"
          /\ \A j \in Ids : j # i => mem'.status[j] = mem.status[j]
          /\ \A k \in Keys : mem'.keys[k] # 0 => mem'.keys[k] = mem.keys[k] /\ mem.keys[k] # i
      BY <1>2, Forget DEF Typed
    <2>e. \A j \in Ids : media'[j] = IF j = i THEN 0 ELSE media[j]
      BY <1>2, Forget DEF Typed, FilesOK
    <2>d. \A j \in Ids : disk'.status[j] \in {disk.status[j], mem'.status[j]}
      BY <1>2 DEF Saved
    <2>t. task[i] \notin {"spawned"} \cup Capturing
      BY <1>l DEF Consistent, TasksAreSaved, InProgress, Active
    <2>1. TasksAreSaved'
      BY <2>s, <2>d, <2>t DEF Consistent, TasksAreSaved, Active
    <2>2. OneInProgress'
      <3>1. \A j \in Ids : InProgress(j)' => InProgress(j)
        BY <2>s DEF InProgress, Active
      <3> QED
        BY <3>1 DEF Consistent, OneInProgress
    <2>3. MediaIsListed'
      BY <2>s, <2>d, <2>e DEF Consistent, MediaIsListed, Listed
    <2>4. FreshIsUnused'
      BY <2>s, <2>d, <2>e DEF Consistent, FreshIsUnused
    <2>5. KeysNameListed(mem)'
      <3>1. \A k \in Keys : mem.keys[k] # 0 => mem.keys[k] \in Ids
        BY BoundIsNat DEF Typed, JournalsOK, Journals, Ids
      <3> QED
        BY <3>1, <2>s DEF Consistent, KeysNameListed
    <2>6. KeysNameListed(disk)'
      <3>1. CASE disk' = disk
        BY <3>1 DEF Consistent, KeysNameListed
      <3>2. CASE disk' = mem'
        BY <3>2, <2>5 DEF KeysNameListed
      <3> QED
        BY <1>2, <3>1, <3>2 DEF Saved
    <2> QED
      BY <2>1, <2>2, <2>3, <2>4, <2>5, <2>6 DEF Consistent
  <1> QED
    BY <1>1, <1>2 DEF Acknowledged, AcknowledgeFails, Persisted, PersistFails, Saved

LEMMA TaskStepKeeps ==
    ASSUME Typed, Consistent, NEW i \in Ids, TaskStep(i) \/ StreamStep(i)
    PROVE  Consistent'
  <1>g. ASSUME NEW stage, Goto(i, stage)
        PROVE  task'[i] = stage /\ \A j \in Ids : j # i => task'[j] = task[j]
    BY <1>g DEF Goto, Typed, NamesOK
  <1>p. ASSUME task[i] \in Capturing, Published(i) \/ UNCHANGED media
        PROVE  MediaIsCaptured
    BY <1>p DEF Published, Typed, FilesOK, MediaIsCaptured
  <1>m. ASSUME task' = task \/ (task[i] # "none" /\ task'[i] \in Lax
                                 /\ \A j \in Ids : j # i => task'[j] = task[j])
        PROVE  TasksMoveOn
    BY <1>m DEF TasksMoveOn
  <1>q. ASSUME NEW stage \in Capturing \cup {"failing"}, Goto(i, stage), task[i] \in Capturing,
               Published(i) \/ UNCHANGED media, UNCHANGED <<up, mem, disk, made, camera>>
        PROVE  Consistent'
    <2>1. task[i] # "none"
      BY <1>q DEF Capturing
    <2>2. TasksMoveOn
      BY <1>q, <1>g, <2>1 DEF TasksMoveOn, Lax
    <2>3. MediaIsCaptured
      BY <1>q, <1>p
    <2> QED
      BY <1>q, <2>2, <2>3, QuietStep
  <1>l. task[i] \in {"spawned"} \cup Capturing => Listed(i) /\ InProgress(i)
    BY DEF Consistent, TasksAreSaved, Listed, InProgress, Active
  <1>s. JournalsOK
    BY DEF Typed
  <1>1. CASE MarkRecording(i)
    <2>1. mem'.status[i] = "recording"
      BY <1>1, <1>s, Set DEF MarkRecording, Statuses
    <2>2. /\ Saved
          /\ \/ disk'.status[i] \in Active /\ task'[i] = "opening"
             \/ task'[i] = "failing"
          /\ \A j \in Ids : j # i => task'[j] = task[j]
      BY <1>1, <1>g, <2>1 DEF MarkRecording, Persisted, PersistFails, Saved, Active
    <2> QED
      BY <1>1, <1>l, <2>2, StatusStep DEF MarkRecording, Statuses, Capturing, Lax
  <1>2. CASE MarkReady(i)
    <2>1. /\ Saved
          /\ task'[i] \in Lax
          /\ \A j \in Ids : j # i => task'[j] = task[j]
      BY <1>2, <1>g DEF MarkReady, Persisted, PersistFails, Saved, Lax
    <2> QED
      BY <1>2, <1>l, <2>1, StatusStep DEF MarkReady, Statuses, Capturing, Active
  <1>3. CASE Finish(i)
    <2>1. task'[i] = "none" /\ \A j \in Ids : j # i => task'[j] = task[j]
      BY <1>3, <1>g DEF Finish
    <2>2. CASE Listed(i)
      <3>1. SetStatus(i, FinalStatus(i)) /\ Saved
        BY <1>3, <2>2 DEF Finish, Persisted, PersistFails, Saved
      <3>2. FinalStatus(i) \in Statuses \ {"none"} /\ (FinalStatus(i) \in Active => InProgress(i))
        BY <1>s, <2>2 DEF FinalStatus, Listed, InProgress, Statuses, Active, JournalsOK, Journals
      <3> QED
        BY <1>3, <2>1, <2>2, <3>1, <3>2, StatusStep DEF Finish, Lax
    <2>3. CASE ~Listed(i)
      <3>1. TasksMoveOn /\ MediaIsCaptured
        BY <1>3, <2>1, <1>m DEF Finish, Lax, MediaIsCaptured
      <3> QED
        BY <1>3, <2>3, <3>1, QuietStep DEF Finish
    <2> QED
      BY <2>2, <2>3
  <1>4. CASE OpenPartial(i) \/ SyncPartial(i) \/ Publish(i) \/ Timeout(i) \/ CleanUp(i)
    BY <1>4, <1>q DEF OpenPartial, SyncPartial, Publish, Timeout, TimesOut, CleanUp, Capturing
  <1>5. CASE StreamStep(i)
    <2>1. CASE task' = task
      <3>1. TasksMoveOn /\ MediaIsCaptured
        BY <1>5, <2>1, <1>m DEF StreamStep, Frame, StreamEnds, MediaIsCaptured
      <3> QED
        BY <1>5, <3>1, QuietStep DEF StreamStep, Frame, StreamEnds
    <2>2. CASE \E stage \in Capturing : Goto(i, stage)
      BY <1>5, <2>2, <1>q DEF StreamStep, Frame, StreamEnds, Capturing
    <2> QED
      BY <1>5, <2>1, <2>2 DEF StreamStep, Frame, StreamEnds, Capturing
  <1> QED
    BY <1>1, <1>2, <1>3, <1>4, <1>5 DEF TaskStep

LEMMA RestartKeeps == Typed /\ Consistent /\ (Crash \/ Load) => Consistent'
  <1> SUFFICES ASSUME Typed, Consistent, Crash \/ Load PROVE Consistent'
    OBVIOUS
  <1>1. CASE Crash
    <2>1. \A i \in Ids : task'[i] = "none" /\ mem'.status[i] = "none"
      BY <1>1, Empty DEF Crash
    <2>2. KeysNameListed(mem)' /\ KeysNameListed(disk)'
      BY <1>1, Empty DEF Crash, Consistent, KeysNameListed
    <2> QED
      BY <1>1, <2>1, <2>2 DEF Crash, Consistent, TasksAreSaved, OneInProgress, MediaIsListed,
         FreshIsUnused, InProgress, Active, Capturing
  <1>2. CASE Load
    <2>r. /\ Reloaded.keys = disk.keys
          /\ \A i \in Ids : /\ Reloaded.status[i] \notin Active
                            /\ (Reloaded.status[i] = "none") <=> (disk.status[i] = "none")
      BY Reload DEF Typed
    <2>k. \A k \in Keys : disk.keys[k] # 0 => disk.keys[k] \in Ids
      BY BoundIsNat DEF Typed, JournalsOK, Journals, Ids
    <2>n. /\ \A k \in Keys : Reloaded.keys[k] # 0 => Reloaded.status[Reloaded.keys[k]] # "none"
          /\ \A k, l \in Keys : Reloaded.keys[k] = Reloaded.keys[l] /\ Reloaded.keys[k] # 0 => k = l
      BY <2>r, <2>k DEF Consistent, KeysNameListed
    <2>t. \A i \in Ids : task'[i] = "none"
      BY <1>2 DEF Load, Consistent, TasksAreSaved
    <2>d. disk' \in {disk, Reloaded} /\ UNCHANGED <<made, camera, media>>
      BY <1>2 DEF Load, Reloaded
    <2>1. CASE up' = TRUE /\ mem' = Reloaded
      BY <2>1, <2>r, <2>n, <2>t, <2>d DEF Consistent, TasksAreSaved, OneInProgress, MediaIsListed,
         FreshIsUnused, KeysNameListed, InProgress, Listed, Capturing
    <2>2. CASE UNCHANGED <<up, mem>>
      <3>1. ~up'
        BY <1>2, <2>2 DEF Load
      <3> QED
        BY <2>2, <3>1, <2>r, <2>n, <2>t, <2>d DEF Consistent, TasksAreSaved, OneInProgress,
           MediaIsListed, FreshIsUnused, KeysNameListed, InProgress, Listed, Capturing
    <2> QED
      BY <1>2, <2>1, <2>2 DEF Load, Reloaded
  <1> QED
    BY <1>1, <1>2

LEMMA ConsistentStep == Typed /\ Consistent /\ [Next]_vars => Consistent'
  <1> SUFFICES ASSUME Typed, Consistent, [Next]_vars PROVE Consistent'
    OBVIOUS
  <1>q. ASSUME UNCHANGED <<up, mem, disk, made, camera, task, media>> PROVE Consistent'
    <2>1. TasksMoveOn /\ MediaIsCaptured
      BY <1>q DEF TasksMoveOn, MediaIsCaptured
    <2> QED
      BY <1>q, <2>1, QuietStep
  <1>1. ASSUME NEW k \in Keys, NEW c \in Cameras, StartManual(k, c) \/ MotionEvent(k, c)
        PROVE Consistent'
    BY <1>1, <1>q, CreateStep DEF StartManual, MotionEvent
  <1>2. ASSUME NEW i \in Ids, Delete(i) PROVE Consistent'
    BY <1>2, AckStep DEF Delete
  <1>3. ASSUME NEW i \in Ids, TaskStep(i) \/ StreamStep(i) PROVE Consistent'
    BY <1>3, TaskStepKeeps
  <1>4. CASE PollerStep
    <2>1. CASE StartMotion
      BY <2>1, <1>q, CreateStep DEF StartMotion, Typed, PollerOK, PollerKnows
    <2>2. CASE RemoveVictim
      BY <2>2, <1>q, AckStep DEF RemoveVictim, Typed, PollerOK, PollerKnows
    <2> QED
      BY <1>4, <1>q, <2>1, <2>2 DEF PollerStep, ChooseVictim
  <1>5. CASE Crash \/ Load
    BY <1>5, RestartKeeps
  <1>6. CASE UNCHANGED vars
    BY <1>6, <1>q DEF vars
  <1> QED
    BY <1>1, <1>2, <1>3, <1>4, <1>5, <1>6 DEF Next

-----------------------------------------------------------------------------
(* What the action properties need: a capture that is being published has     *)
(* frames, and the poller's victim is a motion recording for good.           *)

HasFrames ==
    \A i \in Ids :
        /\ task[i] \in {"syncing", "renaming"} => written[i] # 0
        /\ task[i] = "published" => media[i] # 0
VictimIsMotion ==
    poller.at = "removing" => poller.victim <= made /\ trigger[poller.victim] = "motion"

LEMMA FramesStep == Typed /\ Consistent /\ HasFrames /\ [Next]_vars => HasFrames'
  <1> SUFFICES ASSUME Typed, Consistent, HasFrames, [Next]_vars PROVE HasFrames'
    OBVIOUS
  <1> USE DEF HasFrames
  <1>t. /\ task \in [Ids -> Stages]
        /\ written \in [Ids -> Nat]
        /\ media \in [Ids -> Nat]
    BY BoundIsNat DEF Typed, NamesOK, FilesOK
  <1>g. ASSUME NEW i \in Ids, NEW stage, Goto(i, stage)
        PROVE  task'[i] = stage /\ \A j \in Ids : j # i => task'[j] = task[j]
    BY <1>g, <1>t DEF Goto
  <1>c. ASSUME UNCHANGED <<task, written, media>> PROVE HasFrames'
    BY <1>c
  <1>n. ASSUME NEW i \in Ids, NEW stage, Goto(i, stage), UNCHANGED <<written, media>>,
               stage \notin {"syncing", "renaming", "published"}
        PROVE  HasFrames'
    BY <1>n, <1>g
  <1>b. ASSUME NEW k \in Keys, NEW c \in Cameras, NEW t \in {"manual", "motion"}, Create(k, c, t),
               UNCHANGED fileVars
        PROVE  HasFrames'
    <2>1. made + 1 \in Ids
      BY <1>b, Insert
    <2>2. CASE Goto(made + 1, "spawned")
      BY <1>b, <2>1, <2>2, <1>n
    <2> QED
      BY <1>b, <1>c, <2>2 DEF Create, PersistThenSpawn
  <1>d. ASSUME NEW i \in Ids, Acknowledged(i) \/ AcknowledgeFails(i), UNCHANGED <<task, written>>
        PROVE  HasFrames'
    <2>1. task[i] # "published"
      BY <1>d DEF Acknowledged, AcknowledgeFails, Deletable, InProgress, Active, Consistent,
         TasksAreSaved, Capturing
    <2>2. \A j \in Ids : j # i => media'[j] = media[j]
      BY <1>d, <1>t DEF Acknowledged, AcknowledgeFails, Removed
    <2> QED
      BY <1>d, <2>1, <2>2
  <1>p. ASSUME NEW i \in Ids, NEW stage, Goto(i, stage), Published(i), stage \notin {"syncing", "renaming"},
               stage = "published" => task[i] = "renaming"
        PROVE  HasFrames'
    <2>1. /\ media'[i] = written[i]
          /\ \A j \in Ids : j # i => media'[j] = media[j] /\ written'[j] = written[j]
      BY <1>p, <1>t DEF Published
    <2> QED
      BY <1>p, <1>g, <2>1
  <1>1. ASSUME NEW k \in Keys, NEW c \in Cameras, StartManual(k, c) \/ MotionEvent(k, c)
        PROVE HasFrames'
    BY <1>1, <1>b, <1>c DEF StartManual, MotionEvent
  <1>2. ASSUME NEW i \in Ids, Delete(i) PROVE HasFrames'
    BY <1>2, <1>d DEF Delete
  <1>3. ASSUME NEW i \in Ids, TaskStep(i) PROVE HasFrames'
    <2>1. CASE MarkRecording(i) \/ OpenPartial(i) \/ Timeout(i) \/ MarkReady(i) \/ Finish(i)
      BY <2>1, <1>n DEF MarkRecording, OpenPartial, Timeout, MarkReady, Finish
    <2>2. CASE SyncPartial(i)
      BY <2>2, <1>g, <1>n DEF SyncPartial
    <2>3. CASE Publish(i)
      BY <2>3, <1>p, <1>n DEF Publish
    <2>4. CASE CleanUp(i)
      <3>1. CASE Published(i)
        BY <2>4, <3>1, <1>p DEF CleanUp
      <3>2. CASE written' = [written EXCEPT ![i] = 0] /\ UNCHANGED media
        BY <2>4, <3>2, <1>g, <1>t DEF CleanUp
      <3>3. CASE UNCHANGED fileVars
        BY <2>4, <3>3, <1>n DEF CleanUp
      <3> QED
        BY <2>4, <3>1, <3>2, <3>3 DEF CleanUp
    <2> QED
      BY <1>3, <2>1, <2>2, <2>3, <2>4 DEF TaskStep
  <1>4. ASSUME NEW i \in Ids, StreamStep(i) PROVE HasFrames'
    <2>1. CASE Frame(i)
      <3>1. CASE written' = [written EXCEPT ![i] = @ + 1]
        <4>1. written'[i] # 0 /\ \A j \in Ids : j # i => written'[j] = written[j]
          BY <3>1, <1>t
        <4>2. media' = media
          BY <2>1 DEF Frame
        <4>3. \A j \in Ids : j # i => task'[j] = task[j]
          BY <2>1, <1>g DEF Frame
        <4>4. task'[i] # "published"
          BY <2>1, <1>g DEF Frame
        <4> QED
          BY <4>1, <4>2, <4>3, <4>4
      <3> QED
        BY <2>1, <3>1, <1>n DEF Frame
    <2>2. CASE StreamEnds(i)
      BY <2>2, <1>g DEF StreamEnds
    <2> QED
      BY <1>4, <2>1, <2>2 DEF StreamStep
  <1>5. CASE PollerStep
    BY <1>5, <1>b, <1>c, <1>d DEF PollerStep, StartMotion, ChooseVictim, RemoveVictim, Typed, PollerOK,
       PollerKnows
  <1>6. CASE Crash \/ Load
    BY <1>6, <1>t DEF Crash, Load
  <1>8. CASE UNCHANGED vars
    BY <1>8, <1>c DEF vars
  <1> QED
    BY <1>1, <1>2, <1>3, <1>4, <1>5, <1>6, <1>8 DEF Next

LEMMA VictimStep == Typed /\ Consistent /\ VictimIsMotion /\ [Next]_vars => VictimIsMotion'
  <1> SUFFICES ASSUME Typed, Consistent, VictimIsMotion, [Next]_vars PROVE VictimIsMotion'
    OBVIOUS
  <1> USE DEF VictimIsMotion
  <1>c. ASSUME UNCHANGED <<poller, made, trigger>> PROVE VictimIsMotion'
    BY <1>c
  <1>d. ASSUME poller'.at # "removing" PROVE VictimIsMotion'
    BY <1>d
  <1>i. ~("idle" = "removing") /\ Idle.at = "idle"
    BY DEF Idle
  <1>p. poller \in Pollers /\ PollerKnows
    BY DEF Typed, PollerOK
  <1>1. ASSUME NEW k \in Keys, NEW c \in Cameras, StartManual(k, c) PROVE VictimIsMotion'
    <2>1. /\ UNCHANGED poller
          /\ made' = made + 1
          /\ trigger' = [trigger EXCEPT ![made + 1] = "manual"]
      BY <1>1 DEF StartManual, Create
    <2>2. made \in Nat /\ trigger \in [Ids -> {"manual", "motion"}]
      BY BoundIsNat DEF Typed, FilesOK, NamesOK
    <2>3. poller.at = "removing" => poller.victim \in Ids /\ poller.victim <= made
      BY <1>p DEF PollerKnows
    <2> QED
      BY <2>1, <2>2, <2>3 DEF Ids
  <1>2. ASSUME NEW k \in Keys, NEW c \in Cameras, MotionEvent(k, c) PROVE VictimIsMotion'
    BY <1>2, <1>d DEF MotionEvent
  <1>3. ASSUME NEW i \in Ids, Delete(i) \/ TaskStep(i) \/ StreamStep(i) PROVE VictimIsMotion'
    BY <1>3, <1>c DEF Delete, TaskStep, StreamStep, MarkRecording, OpenPartial, SyncPartial, Publish,
       Timeout, CleanUp, MarkReady, Finish, Frame, StreamEnds
  <1>5. CASE PollerStep
    <2>1. CASE StartMotion
      BY <2>1, <1>d, <1>i, <1>p DEF StartMotion, Pollers
    <2>2. CASE ChooseVictim
      <3>1. CASE poller' = Idle
        BY <3>1, <1>d, <1>i
      <3>2. ASSUME NEW i \in Evictable, poller' = [poller EXCEPT !.at = "removing", !.victim = i]
            PROVE  VictimIsMotion'
        <4>1. poller'.victim = i
          BY <3>2, <1>p DEF Pollers
        <4>2. i \in Ids /\ trigger[i] = "motion" /\ mem.status[i] # "none"
          BY DEF Evictable
        <4>3. i <= made
          BY <4>2, BoundIsNat DEF Consistent, FreshIsUnused, Typed, FilesOK, Ids
        <4> QED
          BY <2>2, <4>1, <4>2, <4>3 DEF ChooseVictim
      <3> QED
        BY <2>2, <3>1, <3>2 DEF ChooseVictim
    <2>3. CASE RemoveVictim
      BY <2>3, <1>d, <1>i, <1>p DEF RemoveVictim, GiveUp, TryAgain, Pollers
    <2> QED
      BY <1>5, <2>1, <2>2, <2>3 DEF PollerStep
  <1>6. CASE Crash \/ Load
    BY <1>6, <1>c, <1>d, <1>i DEF Crash, Load
  <1>8. CASE UNCHANGED vars
    BY <1>8, <1>c DEF vars
  <1> QED
    BY <1>1, <1>2, <1>3, <1>5, <1>6, <1>8 DEF Next

-----------------------------------------------------------------------------
(* The sum over the files of the spool, up to a number.  What is true of the *)
(* first and of the next is true of all: a least counterexample has a         *)
(* predecessor.                                                             *)
Smaller == {p \in Nat \X Nat : p[1] < p[2]}

LEMMA Least ==
    ASSUME NEW S \in SUBSET Nat, S # {}
    PROVE \E x \in S : \A y \in S : x <= y
  <1>1. OpToRel(<, Nat) = Smaller
    BY Zenon DEF OpToRel, Smaller
  <1>2. IsWellFoundedOn(Smaller, Nat)
    BY <1>1, NatLessThanWellFounded, Zenon
  <1>3. PICK x \in S : \A y \in S : ~ (<<y, x>> \in Smaller)
    BY <1>2, WFMin
  <1>4. ASSUME NEW y \in S PROVE x <= y
    <2>1. y < x => <<y, x>> \in Smaller
      BY DEF Smaller
    <2> QED
      BY <1>3, <2>1
  <1> QED
    BY <1>4

LEMMA Induction ==
    ASSUME NEW good, 0 \in good,
           \A n \in 1 .. MaxRecordings : n - 1 \in good => n \in good
    PROVE  \A n \in 0 .. MaxRecordings : n \in good
  <1>1. MaxRecordings \in Nat
    BY BoundIsNat
  <1> DEFINE bad == {n \in 0 .. MaxRecordings : n \notin good}
  <1>2. CASE bad # {}
    <2>1. bad \in SUBSET Nat
      BY <1>1
    <2>2. PICK x \in bad : \A y \in bad : x <= y
      BY <1>2, <2>1, Least
    <2>3. x \in 1 .. MaxRecordings /\ x \notin good
      BY <1>1
    <2>4. x - 1 \in 0 .. MaxRecordings /\ ~ (x <= x - 1)
      BY <1>1, <2>3
    <2>5. x - 1 \in good
      BY <2>2, <2>4
    <2> QED
      BY <2>3, <2>5
  <1> QED
    BY <1>2

Sizes == [Ids -> Nat]
Sums(f, h, n) == h = [m \in 0 .. n |-> IF m = 0 THEN 0 ELSE h[m - 1] + f[m]]
Sum(f) == CHOOSE h : Sums(f, h, MaxRecordings)

LEMMA TotalIsSum == ASSUME NEW f PROVE Total(f) = Sum(f)[MaxRecordings]
  BY DEF Total, Sum, Sums

(* A longer sum takes over the shorter one. *)
LEMMA SumExists ==
    ASSUME NEW f PROVE \E h : Sums(f, h, MaxRecordings)
  <1> DEFINE good == {n \in 0 .. MaxRecordings : \E h : Sums(f, h, n)}
  <1>z. MaxRecordings \in Nat
    BY BoundIsNat
  <1>0. 0 \in good
    <2>1. Sums(f, [m \in 0 .. 0 |-> 0], 0)
      BY DEF Sums
    <2> QED
      BY <1>z, <2>1
  <1>1. ASSUME NEW n \in 1 .. MaxRecordings, n - 1 \in good PROVE n \in good
    <2>1. PICK h : Sums(f, h, n - 1)
      BY <1>1
    <2> DEFINE g == [m \in 0 .. n |-> IF m = n THEN h[n - 1] + f[n] ELSE h[m]]
    <2>2. ASSUME NEW m \in 0 .. n PROVE g[m] = IF m = 0 THEN 0 ELSE g[m - 1] + f[m]
      <3>1. CASE m = n
        BY <1>z, <3>1
      <3>2. CASE m # n
        <4>1. m \in 0 .. n - 1 /\ (m # 0 => m - 1 \in 0 .. n /\ m - 1 # n)
          BY <1>z, <3>2
        <4>2. h[m] = IF m = 0 THEN 0 ELSE h[m - 1] + f[m]
          BY <2>1, <4>1 DEF Sums
        <4> QED
          BY <3>2, <4>1, <4>2
      <3> QED
        BY <3>1, <3>2
    <2>3. g = [m \in 0 .. n |-> g[m]]
      OBVIOUS
    <2>5. g = [m \in 0 .. n |-> IF m = 0 THEN 0 ELSE g[m - 1] + f[m]]
      <3> HIDE DEF g
      <3> QED
        BY <2>2, <2>3
    <2>4. Sums(f, g, n)
      BY <2>5 DEF Sums
    <2> QED
      BY <1>z, <2>4
  <1>2. \A n \in 0 .. MaxRecordings : n \in good
    <2> HIDE DEF good
    <2> QED
      BY <1>0, <1>1, Induction
  <1> QED
    BY <1>z, <1>2

LEMMA SumAt ==
    ASSUME NEW f \in Sizes
    PROVE  /\ Sum(f)[0] = 0
           /\ \A n \in 1 .. MaxRecordings : Sum(f)[n] = Sum(f)[n - 1] + f[n]
           /\ \A n \in 0 .. MaxRecordings : Sum(f)[n] \in Nat
  <1>z. MaxRecordings \in Nat
    BY BoundIsNat
  <1> DEFINE h == Sum(f)
  <1>1. Sums(f, h, MaxRecordings)
    BY SumExists DEF Sum
  <1> HIDE DEF h
  <1>2. \A n \in 0 .. MaxRecordings : h[n] = IF n = 0 THEN 0 ELSE h[n - 1] + f[n]
    BY <1>1 DEF Sums
  <1>3. h[0] = 0
    BY <1>2, <1>z
  <1>4. \A n \in 1 .. MaxRecordings : h[n] = h[n - 1] + f[n]
    BY <1>2, <1>z
  <1> DEFINE good == {n \in 0 .. MaxRecordings : h[n] \in Nat}
  <1>5. 0 \in good
    BY <1>3, <1>z
  <1>6. ASSUME NEW n \in 1 .. MaxRecordings, n - 1 \in good PROVE n \in good
    BY <1>4, <1>6, <1>z DEF Sizes, Ids
  <1>7. \A n \in 0 .. MaxRecordings : n \in good
    <2> HIDE DEF good
    <2> QED
      BY <1>5, <1>6, Induction
  <1> QED
    BY <1>3, <1>4, <1>7 DEF h

(* A file that changes alone changes the sum by as much. *)
LEMMA SumExcept ==
    ASSUME NEW f \in Sizes, NEW i \in Ids, NEW v \in Nat
    PROVE  Total([f EXCEPT ![i] = v]) = Total(f) - f[i] + v
  <1>z. MaxRecordings \in Nat /\ i \in 1 .. MaxRecordings
    BY BoundIsNat DEF Ids
  <1> DEFINE g == [f EXCEPT ![i] = v]
  <1>g. /\ g \in Sizes /\ f[i] \in Nat /\ g[i] = v
        /\ \A n \in 1 .. MaxRecordings : n # i => g[n] = f[n] /\ f[n] \in Nat
    BY DEF Sizes, Ids
  <1> HIDE DEF g
  <1> DEFINE good == {n \in 0 .. MaxRecordings :
                        Sum(g)[n] = IF n < i THEN Sum(f)[n] ELSE Sum(f)[n] - f[i] + v}
  <1>1. 0 \in good
    BY <1>z, <1>g, SumAt
  <1>2. ASSUME NEW n \in 1 .. MaxRecordings, n - 1 \in good PROVE n \in good
    <2>1. /\ Sum(f)[n] = Sum(f)[n - 1] + f[n] /\ Sum(f)[n - 1] \in Nat /\ Sum(f)[n] \in Nat
          /\ Sum(g)[n] = Sum(g)[n - 1] + g[n] /\ Sum(g)[n - 1] \in Nat
      <3>1. n - 1 \in 0 .. MaxRecordings /\ n \in 0 .. MaxRecordings
        BY <1>z
      <3> QED
        BY <3>1, <1>g, SumAt
    <2>2. Sum(g)[n - 1] = IF n - 1 < i THEN Sum(f)[n - 1] ELSE Sum(f)[n - 1] - f[i] + v
      BY <1>2
    <2>3. CASE n < i
      BY <1>z, <1>g, <2>1, <2>2, <2>3
    <2>4. CASE n = i
      BY <1>z, <1>g, <2>1, <2>2, <2>4
    <2>5. CASE n > i
      BY <1>z, <1>g, <2>1, <2>2, <2>5
    <2> QED
      BY <1>z, <2>3, <2>4, <2>5
  <1>3. \A n \in 0 .. MaxRecordings : n \in good
    <2> HIDE DEF good
    <2> QED
      BY <1>1, <1>2, Induction
  <1>4. Sum(g)[MaxRecordings] = Sum(f)[MaxRecordings] - f[i] + v
    BY <1>3, <1>z
  <1> QED
    BY <1>4, TotalIsSum DEF g

LEMMA TotalIsNat == ASSUME NEW f \in Sizes PROVE Total(f) \in Nat
  BY BoundIsNat, SumAt, TotalIsSum

LEMMA EmptySum == Total([i \in Ids |-> 0]) = 0
  <1> DEFINE f == [i \in Ids |-> 0]
  <1>z. MaxRecordings \in Nat
    BY BoundIsNat
  <1>f. f \in Sizes /\ \A n \in 1 .. MaxRecordings : f[n] = 0
    BY DEF Sizes, Ids
  <1> HIDE DEF f
  <1> DEFINE good == {n \in 0 .. MaxRecordings : Sum(f)[n] = 0}
  <1>1. 0 \in good
    BY <1>z, <1>f, SumAt
  <1>2. ASSUME NEW n \in 1 .. MaxRecordings, n - 1 \in good PROVE n \in good
    BY <1>z, <1>f, <1>2, SumAt
  <1>3. \A n \in 0 .. MaxRecordings : n \in good
    <2> HIDE DEF good
    <2> QED
      BY <1>1, <1>2, Induction
  <1> QED
    BY <1>3, <1>z, TotalIsSum DEF f

-----------------------------------------------------------------------------
(* The room left in the spool: what is published and what may still be       *)
(* published stay under the bound together, because the recordings that may  *)
(* still publish are of different cameras.                                  *)
Limit == Quota + (Cardinality(Cameras) - 1) * MaxBytes
Fit(sizes, owed) == Total(sizes) + MaxBytes * Cardinality(owed) <= Limit

LEMMA Counts ==
    /\ MaxBytes \in Nat /\ Quota \in Nat /\ MaxBytes <= Quota
    /\ Cardinality(Cameras) \in Nat /\ Limit \in Int
    /\ Limit = Quota - MaxBytes + MaxBytes * Cardinality(Cameras)
  <1>1. MaxBytes \in Nat /\ Quota \in Nat /\ MaxBytes <= Quota /\ Cardinality(Cameras) \in Nat
    BY RecordingsAssumption, FS_CardinalityType
  <1> QED
    BY <1>1 DEF Limit

LEMMA SomeIds ==
    ASSUME NEW P \in SUBSET Ids PROVE IsFiniteSet(P) /\ Cardinality(P) \in Nat
  <1>1. IsFiniteSet(Ids)
    BY BoundIsNat, FS_Interval DEF Ids
  <1> QED
    BY <1>1, FS_Subset, FS_CardinalityType

LEMMA Times ==
    ASSUME NEW m \in Nat, NEW a \in Nat, NEW b \in Nat, a <= b PROVE m * a <= m * b
  <1>1. b - a \in Nat
    OBVIOUS
  <1>2. m * (b - a) \in Nat
    BY <1>1
  <1>3. m * (b - a) = m * b - m * a /\ m * b \in Nat /\ m * a \in Nat
    OBVIOUS
  <1> QED
    BY <1>2, <1>3

LEMMA FitShrinks ==
    ASSUME NEW s \in Sizes, NEW r \in Sizes, NEW P \in SUBSET Ids, NEW Q \in SUBSET P,
           Fit(s, P), Total(r) <= Total(s)
    PROVE  Fit(r, Q)
  <1>1. Cardinality(Q) <= Cardinality(P) /\ Cardinality(P) \in Nat /\ Cardinality(Q) \in Nat
    BY SomeIds, FS_Subset
  <1>2. MaxBytes * Cardinality(Q) <= MaxBytes * Cardinality(P)
    BY <1>1, Counts, Times
  <1>3. MaxBytes * Cardinality(Q) \in Nat /\ MaxBytes * Cardinality(P) \in Nat
    BY <1>1, Counts
  <1> QED
    BY <1>2, <1>3, Counts, TotalIsNat DEF Fit

LEMMA FitPublishes ==
    ASSUME NEW s \in Sizes, NEW P \in SUBSET Ids, NEW i \in P, NEW v \in 0 .. MaxBytes, Fit(s, P)
    PROVE  Fit([s EXCEPT ![i] = v], P \ {i})
  <1>1. Total([s EXCEPT ![i] = v]) = Total(s) - s[i] + v
    BY SumExcept, Counts
  <1>2. s[i] \in Nat /\ Total(s) \in Nat
    BY TotalIsNat DEF Sizes
  <1>3. Cardinality(P \ {i}) = Cardinality(P) - 1 /\ Cardinality(P) \in Nat /\ Cardinality(P \ {i}) \in Nat
    BY SomeIds, FS_RemoveElement
  <1>4. MaxBytes * (Cardinality(P) - 1) = MaxBytes * Cardinality(P) - MaxBytes
    BY <1>3, Counts
  <1>5. MaxBytes * Cardinality(P) \in Nat
    BY <1>3, Counts
  <1> QED
    BY <1>1, <1>2, <1>3, <1>4, <1>5, Counts DEF Fit

LEMMA FitAdmits ==
    ASSUME NEW s \in Sizes, NEW P \in SUBSET Ids, NEW of,
           Total(s) + MaxBytes <= Quota,
           \A i \in P : of[i] \in Cameras,
           \A i, j \in P : of[i] = of[j] => i = j
    PROVE  Fit(s, P)
  <1> DEFINE f == [i \in P |-> of[i]]
  <1>1. f \in Injection(P, Cameras)
    BY DEF Injection, IsInjective
  <1>2. Cardinality(P) <= Cardinality(Cameras)
    BY <1>1, FS_Injection, RecordingsAssumption
  <1>3. MaxBytes * Cardinality(P) <= MaxBytes * Cardinality(Cameras)
    BY <1>2, SomeIds, Counts, Times
  <1>4. MaxBytes * Cardinality(P) \in Nat /\ MaxBytes * Cardinality(Cameras) \in Nat
    BY SomeIds, Counts
  <1> QED
    BY <1>3, <1>4, Counts, TotalIsNat DEF Fit

LEMMA FitBounds ==
    ASSUME NEW s \in Sizes, NEW P \in SUBSET Ids, Fit(s, P) PROVE Total(s) <= Limit
  <1>1. MaxBytes * Cardinality(P) \in Nat
    BY SomeIds, Counts
  <1> QED
    BY <1>1, Counts, TotalIsNat DEF Fit

LEMMA FitStarts == Fit([i \in Ids |-> 0], {})
  <1>1. MaxBytes * Cardinality(Cameras) \in Nat
    BY Counts
  <1>2. MaxBytes * Cardinality({}) = 0
    BY Counts, FS_EmptySet
  <1> QED
    BY <1>1, <1>2, Counts, EmptySum DEF Fit

-----------------------------------------------------------------------------
(* The recordings whose media may still be published, and the invariant.     *)
Owing == {"spawned", "opening", "writing", "syncing", "renaming", "racing"}
Owed == {i \in Ids : task[i] \in Owing}
CamerasKnown == \A i \in Owed : camera[i] \in Cameras
HasRoom == CamerasKnown /\ Fit(media, Owed)

LEMMA FilesAreSizes == Typed => media \in Sizes /\ Owed \in SUBSET Ids
  BY BoundIsNat DEF Typed, FilesOK, Sizes, Owed

(* The kinds of steps: the owed recordings get fewer, one of them publishes, *)
(* or a recording is accepted while there is room for one more file.         *)
LEMMA OwesLess ==
    ASSUME Typed, Typed', HasRoom, UNCHANGED camera, Owed' \in SUBSET Owed,
           Total(media') <= Total(media)
    PROVE  HasRoom'
  <1>1. media \in Sizes /\ media' \in Sizes /\ Owed \in SUBSET Ids
    BY FilesAreSizes, BoundIsNat DEF Typed, FilesOK, Sizes
  <1>2. Fit(media', Owed')
    BY <1>1, FitShrinks DEF HasRoom
  <1>3. CamerasKnown'
    BY DEF HasRoom, CamerasKnown
  <1>4. Fit(media, Owed)'
    BY <1>2 DEF Fit, Limit, Total
  <1> QED
    BY <1>3, <1>4 DEF HasRoom

LEMMA Publishes ==
    ASSUME Typed, HasRoom, NEW i \in Ids, i \in Owed, Published(i), UNCHANGED camera,
           NEW stage, Goto(i, stage), stage \notin Owing
    PROVE  HasRoom'
  <1>1. media \in Sizes /\ Owed \in SUBSET Ids
    BY FilesAreSizes
  <1>2. written[i] \in 0 .. MaxBytes /\ media' = [media EXCEPT ![i] = written[i]]
    BY DEF Typed, FilesOK, Published
  <1>3. Owed' = Owed \ {i}
    BY DEF Owed, Goto, Typed, NamesOK
  <1>4. Fit([media EXCEPT ![i] = written[i]], Owed \ {i})
    BY <1>1, <1>2, FitPublishes DEF HasRoom
  <1>5. Fit(media, Owed)'
    BY <1>2, <1>3, <1>4 DEF Fit, Limit, Total
  <1>6. CamerasKnown'
    BY <1>3 DEF HasRoom, CamerasKnown
  <1> QED
    BY <1>5, <1>6 DEF HasRoom

LEMMA Accepts ==
    ASSUME Typed, Typed', Consistent', HasRoom, ~Full, UNCHANGED media,
           NEW k \in Keys, NEW c \in Cameras, NEW t \in {"manual", "motion"}, Create(k, c, t)
    PROVE  HasRoom'
  <1>1. media \in Sizes
    BY FilesAreSizes
  <1>2. Total(media) + MaxBytes <= Quota
    BY <1>1, TotalIsNat, Counts DEF Full, Spool
  <1>3. made + 1 \in Ids
    BY Insert
  <1>4. /\ \A i \in Ids : camera'[i] = IF i = made + 1 THEN c ELSE camera[i]
        /\ \A i \in Ids : task'[i] = task[i] \/ i = made + 1
    BY <1>3 DEF Create, PersistThenSpawn, PersistFails, Goto, Typed, NamesOK
  <1>5. CamerasKnown'
    BY <1>4 DEF CamerasKnown, HasRoom, Owed
  <1>6. \A i \in Owed' : camera'[i] \in Cameras
    BY <1>5 DEF CamerasKnown
  <1>7. Owed' \in SUBSET Ids
    BY DEF Owed
  <1>8. \A i, j \in Owed' : camera'[i] = camera'[j] => i = j
    <2>1. \A i \in Owed' : i \in Ids /\ InProgress(i)'
      BY DEF Consistent, TasksAreSaved, Owed, Owing, Capturing, InProgress, Active
    <2> QED
      BY <2>1 DEF Consistent, OneInProgress
  <1>9. Fit(media, Owed')
    BY <1>1, <1>2, <1>6, <1>7, <1>8, FitAdmits
  <1>10. Fit(media, Owed)'
    BY <1>9 DEF Fit, Limit, Total
  <1> QED
    BY <1>5, <1>10 DEF HasRoom

LEMMA RoomStep == Typed /\ Consistent /\ HasRoom /\ [Next]_vars => HasRoom'
  <1> SUFFICES ASSUME Typed, Consistent, HasRoom, [Next]_vars PROVE HasRoom'
    OBVIOUS
  <1>y. Typed' /\ Consistent'
    BY TypedStep, ConsistentStep
  <1>f. /\ media \in Sizes /\ Total(media) \in Nat
        /\ \A i \in Ids : media[i] \in Nat /\ Total([media EXCEPT ![i] = 0]) <= Total(media)
    <2>1. media \in Sizes
      BY FilesAreSizes
    <2>2. ASSUME NEW i \in Ids
          PROVE media[i] \in Nat /\ Total([media EXCEPT ![i] = 0]) <= Total(media)
      <3>1. Total([media EXCEPT ![i] = 0]) = Total(media) - media[i] + 0
        BY <2>1, SumExcept
      <3> QED
        BY <2>1, <3>1, TotalIsNat DEF Sizes
    <2> QED
      BY <2>1, <2>2, TotalIsNat
  <1>c. ASSUME UNCHANGED <<camera, task, media>> PROVE HasRoom'
    BY <1>c, <1>y, <1>f, OwesLess DEF Owed
  <1>a. ASSUME NEW i \in Ids, Acknowledged(i) \/ AcknowledgeFails(i), UNCHANGED <<camera, task>>
        PROVE  HasRoom'
    <2>1. media' \in {media, [media EXCEPT ![i] = 0]}
      BY <1>a DEF Acknowledged, AcknowledgeFails, Removed
    <2>2. Total(media') <= Total(media)
      BY <2>1, <1>f
    <2> QED
      BY <1>a, <2>2, <1>y, OwesLess DEF Owed
  <1>g. ASSUME NEW i \in Ids, NEW stage, Goto(i, stage), task[i] \in Owing \/ stage \notin Owing,
               UNCHANGED <<camera, media>>
        PROVE  HasRoom'
    <2>1. Owed' \in SUBSET Owed
      BY <1>g DEF Owed, Goto, Typed, NamesOK
    <2> QED
      BY <1>g, <2>1, <1>y, <1>f, OwesLess
  <1>1. ASSUME NEW k \in Keys, NEW c \in Cameras, StartManual(k, c) \/ MotionEvent(k, c)
        PROVE HasRoom'
    BY <1>1, <1>y, <1>c, Accepts DEF StartManual, MotionEvent
  <1>2. ASSUME NEW i \in Ids, Delete(i) PROVE HasRoom'
    BY <1>2, <1>a DEF Delete
  <1>3. ASSUME NEW i \in Ids, TaskStep(i) \/ StreamStep(i) PROVE HasRoom'
    <2>1. CASE MarkRecording(i)
      BY <2>1, <1>g DEF MarkRecording, Owing
    <2>2. CASE OpenPartial(i) \/ SyncPartial(i) \/ Timeout(i)
      BY <2>2, <1>g DEF OpenPartial, SyncPartial, Timeout, TimesOut, Owing
    <2>3. CASE Publish(i)
      <3>1. i \in Owed /\ "published" \notin Owing /\ "cleaning" \notin Owing
        BY <2>3 DEF Publish, Owed, Owing
      <3>2. CASE Published(i)
        BY <2>3, <3>1, <3>2, Publishes DEF Publish
      <3>3. CASE UNCHANGED media
        BY <2>3, <3>1, <3>3, <1>g DEF Publish
      <3> QED
        BY <2>3, <3>2, <3>3 DEF Publish
    <2>4. CASE CleanUp(i)
      <3>1. "failing" \notin Owing /\ Goto(i, "failing") /\ UNCHANGED camera
        BY <2>4 DEF CleanUp, Owing
      <3>2. CASE task[i] = "racing" /\ Published(i)
        BY <3>1, <3>2, Publishes DEF Owed, Owing
      <3>3. CASE UNCHANGED media
        BY <3>1, <3>3, <1>g
      <3> QED
        BY <2>4, <3>2, <3>3 DEF CleanUp
    <2>5. CASE MarkReady(i) \/ Finish(i)
      BY <2>5, <1>g DEF MarkReady, Finish, Owing
    <2>6. CASE Frame(i)
      BY <2>6, <1>g, <1>c DEF Frame, Owing
    <2>7. CASE StreamEnds(i)
      BY <2>7, <1>g DEF StreamEnds, Owing
    <2> QED
      BY <1>3, <2>1, <2>2, <2>3, <2>4, <2>5, <2>6, <2>7 DEF TaskStep, StreamStep
  <1>5. CASE PollerStep
    <2>1. CASE StartMotion
      BY <2>1, <1>y, <1>c, Accepts DEF StartMotion, Typed, PollerOK, PollerKnows
    <2>2. CASE ChooseVictim
      BY <2>2, <1>c DEF ChooseVictim
    <2>3. CASE RemoveVictim
      BY <2>3, <1>c, <1>a DEF RemoveVictim, Typed, PollerOK, PollerKnows
    <2> QED
      BY <1>5, <2>1, <2>2, <2>3 DEF PollerStep
  <1>6. CASE Crash
    <2>1. Owed' \in SUBSET Owed
      BY <1>6 DEF Crash, Owed, Owing
    <2> QED
      BY <1>6, <2>1, <1>y, <1>f, OwesLess DEF Crash
  <1>7. CASE Load
    BY <1>7, <1>c DEF Load
  <1>8. CASE UNCHANGED vars
    BY <1>8, <1>c DEF vars
  <1> QED
    BY <1>1, <1>2, <1>3, <1>5, <1>6, <1>7, <1>8 DEF Next

-----------------------------------------------------------------------------
(* Theorems. *)

LEMMA Start == Init => Typed /\ Consistent
  <1> SUFFICES ASSUME Init PROVE Typed /\ Consistent
    OBVIOUS
  <1>1. Typed
    BY Empty, BoundIsNat DEF Init, Typed, JournalsOK, NamesOK, FilesOK, PollerOK, PollerKnows,
       Pollers, Idle, Stages
  <1>2. Consistent
    BY Empty DEF Init, Consistent, TasksAreSaved, OneInProgress, FreshIsUnused, MediaIsListed,
       KeysNameListed, InProgress, Active, Capturing
  <1> QED
    BY <1>1, <1>2

LEMMA Invariant == Spec => [](Typed /\ Consistent /\ HasFrames /\ VictimIsMotion)
  <1>1. Init => HasFrames /\ VictimIsMotion
    BY DEF Init, HasFrames, VictimIsMotion, Idle
  <1> QED
    BY <1>1, Start, TypedStep, ConsistentStep, FramesStep, VictimStep, PTL DEF Spec

(* The manager, its journal and the spool keep their types, whatever fails. *)
THEOREM TypeCorrect == Spec => []TypeOK
  <1>1. Typed => TypeOK
    BY DEF Typed, JournalsOK, NamesOK, FilesOK, PollerOK, TypeOK
  <1> QED
    BY <1>1, Invariant, PTL

(* Two tasks never capture one camera, for any number of requests, events,   *)
(* failures and restarts.                                                   *)
THEOREM OneCapturePerCamera == Spec => []OneCapture
  <1>1. Consistent => OneCapture
    BY DEF Consistent, TasksAreSaved, OneInProgress, OneCapture, InProgress, Active
  <1> QED
    BY <1>1, Invariant, PTL

(* Every media file belongs to a manifest, in memory and in the journal. *)
THEOREM NoOrphanedMedia == Spec => []MediaIsListed
  <1>1. Consistent => MediaIsListed
    BY DEF Consistent
  <1> QED
    BY <1>1, Invariant, PTL

(* Whenever the engine stops, load marks every unfinished capture failed. *)
THEOREM NoForgottenJob == Spec => []InterruptedIsMarked
  <1>1. Consistent => InterruptedIsMarked
    BY DEF Consistent, TasksAreSaved, InterruptedIsMarked, Recovered
  <1> QED
    BY <1>1, Invariant, PTL

(* An idempotency key always leads a retry to a recording that exists. *)
THEOREM NoDanglingKey == Spec => []KeysPointToListed
  <1>1. Consistent => KeysPointToListed
    BY DEF Consistent, KeysNameListed, KeysPointToListed, Listed
  <1> QED
    BY <1>1, Invariant, PTL

(* A manifest becomes ready only with its media on disk, through failed       *)
(* operations, abandoned renames and restarts.                              *)
THEOREM ReadyIsPublished == Spec => ReadyHasMedia
  <1> DEFINE Gained == \A i \in Ids : mem.status[i] # "ready" /\ mem'.status[i] = "ready" => media'[i] # 0
  <1>1. Typed /\ Consistent /\ HasFrames /\ [Next]_vars => Gained
    <2> SUFFICES ASSUME Typed, HasFrames, [Next]_vars,
                        NEW i \in Ids, mem.status[i] # "ready", mem'.status[i] = "ready"
                 PROVE  media'[i] # 0
      OBVIOUS
    <2>j. JournalsOK
      BY DEF Typed
    <2>c. UNCHANGED mem => FALSE
      OBVIOUS
    <2>b. ASSUME NEW k \in Keys, NEW c \in Cameras, NEW t \in {"manual", "motion"}, Create(k, c, t)
          PROVE  FALSE
      BY <2>b, Insert
    <2>d. ASSUME NEW j \in Ids, Acknowledged(j) \/ AcknowledgeFails(j) PROVE FALSE
      <3>1. Removed(j)
        BY <2>c, <2>d DEF Acknowledged, AcknowledgeFails
      <3> QED
        BY <2>j, <3>1, Forget
    <2>s. ASSUME NEW j \in Ids, NEW s \in Statuses, SetStatus(j, s) PROVE j = i /\ s = "ready"
      BY <2>s, <2>j, Set
    <2>1. ASSUME NEW k \in Keys, NEW c \in Cameras, StartManual(k, c) \/ MotionEvent(k, c) PROVE FALSE
      BY <2>1, <2>b, <2>c DEF StartManual, MotionEvent
    <2>2. ASSUME NEW j \in Ids, Delete(j) PROVE FALSE
      BY <2>2, <2>d DEF Delete
    <2>3. ASSUME NEW j \in Ids, TaskStep(j) \/ StreamStep(j) PROVE media'[i] # 0
      <3>1. CASE MarkRecording(j)
        BY <3>1, <2>s DEF MarkRecording, Statuses
      <3>2. CASE MarkReady(j)
        <4>1. j = i
          BY <3>2, <2>s DEF MarkReady, Statuses
        <4> QED
          BY <3>2, <4>1 DEF MarkReady, HasFrames
      <3>3. CASE Finish(j)
        <4>1. SetStatus(j, FinalStatus(j))
          BY <3>3, <2>c DEF Finish
        <4>2. FinalStatus(j) \in Statuses /\ FinalStatus(j) \in {"failed", mem.status[j]}
          BY <2>j DEF FinalStatus, Statuses, JournalsOK, Journals
        <4>3. j = i /\ FinalStatus(j) = "ready"
          BY <4>1, <4>2, <2>s
        <4> QED
          BY <4>2, <4>3
      <3> QED
        BY <2>3, <2>c, <3>1, <3>2, <3>3 DEF TaskStep, StreamStep, OpenPartial, SyncPartial, Publish,
           Timeout, CleanUp, Frame, StreamEnds
    <2>5. CASE PollerStep
      BY <2>5, <2>b, <2>c, <2>d DEF PollerStep, StartMotion, ChooseVictim, RemoveVictim, Typed,
         PollerOK, PollerKnows
    <2>6. CASE Crash
      BY <2>6, Empty DEF Crash
    <2>7. CASE Load
      <3>1. mem'.status[i] = Recovered(i)
        BY <2>7, <2>c DEF Load
      <3> QED
        BY <2>7, <3>1 DEF Load, Recovered
    <2>8. CASE UNCHANGED vars
      BY <2>8, <2>c DEF vars
    <2> QED
      BY <2>1, <2>2, <2>3, <2>5, <2>6, <2>7, <2>8 DEF Next
  <1>2. Gained => [Gained]_vars
    OBVIOUS
  <1>3. Spec => [][Gained]_vars
    BY <1>1, <1>2, Invariant, PTL DEF Spec
  <1> QED
    BY <1>3 DEF ReadyHasMedia

(* The poller never takes a manual recording away. *)
THEOREM PollerKeepsManual == Spec => ManualIsKept
  <1> DEFINE Kept ==
        \A i \in Ids :
            poller' # poller /\ up' /\ trigger[i] = "manual"
               => media'[i] = media[i] /\ (Listed(i) => mem'.status[i] # "none")
  <1>1. Typed /\ Consistent /\ VictimIsMotion /\ [Next]_vars => Kept
    <2> SUFFICES ASSUME Typed, VictimIsMotion, [Next]_vars,
                        NEW i \in Ids, poller' # poller, up', trigger[i] = "manual"
                 PROVE  media'[i] = media[i] /\ (Listed(i) => mem'.status[i] # "none")
      OBVIOUS
    <2>c. ASSUME UNCHANGED <<mem, media>> PROVE media'[i] = media[i] /\ (Listed(i) => mem'.status[i] # "none")
      BY <2>c DEF Listed
    <2>1. ASSUME NEW k \in Keys, NEW c \in Cameras, StartManual(k, c) PROVE FALSE
      BY <2>1 DEF StartManual
    <2>2. ASSUME NEW k \in Keys, NEW c \in Cameras, MotionEvent(k, c)
          PROVE  media'[i] = media[i] /\ (Listed(i) => mem'.status[i] # "none")
      BY <2>2, <2>c DEF MotionEvent
    <2>3. ASSUME NEW j \in Ids, Delete(j) \/ TaskStep(j) \/ StreamStep(j) PROVE FALSE
      BY <2>3 DEF Delete, TaskStep, StreamStep, MarkRecording, OpenPartial, SyncPartial, Publish,
         Timeout, CleanUp, MarkReady, Finish, Frame, StreamEnds
    <2>4. CASE StartMotion
      <3>1. CASE UNCHANGED mem
        BY <2>4, <3>1, <2>c DEF StartMotion
      <3>2. CASE Create(poller.key, poller.camera, "motion")
        <4>1. poller.key \in Keys /\ poller.camera \in Cameras
          BY <2>4 DEF StartMotion, Typed, PollerOK, PollerKnows
        <4>2. /\ mem'.status[made + 1] = "pending"
              /\ \A j \in Ids : j # made + 1 => mem'.status[j] = mem.status[j]
          BY <3>2, <4>1, Insert
        <4> QED
          BY <2>4, <4>2 DEF StartMotion, Listed
      <3> QED
        BY <2>4, <3>1, <3>2 DEF StartMotion
    <2>5. CASE ChooseVictim
      BY <2>5, <2>c DEF ChooseVictim
    <2>6. CASE RemoveVictim
      <3>1. poller.victim \in Ids /\ poller.victim # i
        BY <2>6 DEF RemoveVictim, Typed, PollerOK, PollerKnows, VictimIsMotion
      <3>2. CASE Removed(poller.victim)
        BY <3>1, <3>2, Forget DEF Typed, FilesOK, Listed
      <3>3. CASE UNCHANGED mem /\ media' \in {media, [media EXCEPT ![poller.victim] = 0]}
        BY <3>1, <3>3 DEF Typed, FilesOK, Listed
      <3> QED
        BY <2>6, <2>c, <3>2, <3>3 DEF RemoveVictim, Acknowledged, AcknowledgeFails
    <2>7. CASE Crash
      BY <2>7 DEF Crash
    <2>8. CASE Load \/ UNCHANGED vars
      BY <2>8 DEF Load, vars
    <2> QED
      BY <2>1, <2>2, <2>3, <2>4, <2>5, <2>6, <2>7, <2>8 DEF Next, PollerStep
  <1>2. Kept => [Kept]_vars
    OBVIOUS
  <1>3. Spec => [][Kept]_vars
    BY <1>1, <1>2, Invariant, PTL DEF Spec
  <1> QED
    BY <1>3 DEF ManualIsKept

(* What is listed and what is kept agree, for every failure and restart.     *)
THEOREM ListIsSound == Spec => []ListedIsSound
  <1>1. MediaIsListed /\ KeysPointToListed => ListedIsSound
    BY DEF ListedIsSound
  <1> QED
    BY <1>1, NoOrphanedMedia, NoDanglingKey, PTL

(* The journal is true of the recordings whenever the engine stops.          *)
THEOREM JournalStaysTrue == Spec => JournalIsTrue
  BY NoForgottenJob, ReadyIsPublished, PTL DEF JournalIsTrue

(* For any number of cameras, recordings and sizes the published files exceed *)
(* the quota by at most one file for every other camera, although the check   *)
(* of the quota reserves nothing for the captures in progress.               *)
THEOREM SpoolStaysBounded == Spec => []SpoolIsBounded
  <1>1. Init => HasRoom
    <2>1. ASSUME Init PROVE media = [i \in Ids |-> 0] /\ Owed = {}
      BY <2>1 DEF Init, Owed, Owing
    <2> QED
      BY <2>1, FitStarts DEF HasRoom, CamerasKnown
  <1>2. Typed /\ HasRoom => SpoolIsBounded
    BY FilesAreSizes, FitBounds DEF HasRoom, SpoolIsBounded, Spool, Limit
  <1> QED
    BY <1>1, <1>2, Invariant, RoomStep, PTL DEF Spec
=============================================================================
