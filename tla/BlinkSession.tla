---------------------------- MODULE BlinkSession ----------------------------
(***************************************************************************)
(* The Blink OAuth session of the engine: blink_session.rs,                *)
(* blink_session_health.rs, blink_client.rs, blink_http.rs, credentials.rs.*)
(*                                                                         *)
(* Blink rotates the refresh token on every refresh, so the grant has      *)
(* three copies that may disagree: the one Blink still accepts (`live`),   *)
(* the one in memory (`session`) and the one in the sealed file (`disk`).  *)
(* The model interleaves HTTP request tasks, the detached rotation tasks   *)
(* they spawn, the background persist retry, one enrollment and one import *)
(* and the crash of the process, at the granularity of the awaits.         *)
(*                                                                         *)
(* Grants are numbered in the order Blink issues them; the access token    *)
(* issued with grant g is g too.  0 stands for "none".                     *)
(***************************************************************************)
EXTENDS Naturals, FiniteSets

CONSTANTS
    Callers,        \* HTTP request tasks that need an access token
    Importer,       \* the task of POST /v1/enrollment/import
    Enroller,       \* the task that completes a sign-in
    MaxGrant,       \* bound: grants Blink issues in one behaviour
    MaxGeneration,  \* bound: session replacements in one process life
    Crashes,        \* bound: crashes of the process
    Imports,        \* the imported grants tried: "live", "dead" or neither
    SaveMayFail,    \* may a write of the sealed file fail?
    Disconnects     \* may the client of an import or a sign-in disconnect?

Tasks == Callers \cup {Importer}
Grants == 1 .. MaxGrant

ASSUME SessionAssumption ==
    /\ Importer \notin Callers
    /\ Enroller \notin Tasks
    /\ MaxGrant \in Nat \ {0}
    /\ MaxGeneration \in Nat
    /\ Crashes \in Nat
    /\ Imports \subseteq {"live", "dead"}
    /\ SaveMayFail \in BOOLEAN
    /\ Disconnects \in BOOLEAN
    /\ "none" \notin Tasks \cup {Enroller}

VARIABLES
    live,       \* grants Blink accepts in a refresh
    issued,     \* number of grants Blink has issued
    refused,    \* access tokens Blink has answered with 401
    up,         \* the process runs and has bootstrapped
    crashes,    \* crashes so far
    session,    \* Inner.session: NoSession or the credentials and access token
    generation, \* Inner.generation
    failure,    \* SessionHealth.failure while it cools down, or NoFailure
    reauth,     \* SessionHealth.reauth_required
    pending,    \* SessionHealth.persist_pending
    retrying,   \* SessionHealth.persist_retrying, and the retry task runs
    disk,       \* the grant in the sealed credential file, 0 when absent
    lock,       \* holder of refresh_lock, "none" when free
    rot,        \* per task, the detached rotation it spawned
    pc,         \* per task, where it stands
    used,       \* per task, the access token of the request it sent
    again,      \* per task, whether it repeats the request after a 401
    import,     \* what the import keeps: its grant, previous session, generation
    enroll      \* the grant of the sign-in being completed, 0 when none

blinkVars == <<live, issued, refused>>
healthVars == <<failure, reauth, pending, retrying>>
memVars == <<session, generation>>
taskVars == <<pc, used, again>>
vars == <<blinkVars, up, crashes, memVars, healthVars, disk, lock, rot,
          taskVars, import, enroll>>

(* A session as loaded or imported, and as Blink issued it with its access token. *)
Loaded(g) == [refresh |-> g, access |-> 0, valid |-> FALSE]
Issued(g) == [refresh |-> g, access |-> g, valid |-> TRUE]
NoSession == Loaded(0)
NoFailure == [generation |-> 0, rejected |-> FALSE]
Sent(g, n) == [phase |-> "sent", grant |-> g, generation |-> n, new |-> 0]
Became(r, phase, new) == [r EXCEPT !.phase = phase, !.new = new]
Quiet == [phase |-> "idle", grant |-> 0, generation |-> 0, new |-> 0]
NoImport == [grant |-> 0, previous |-> NoSession, generation |-> 0]

-----------------------------------------------------------------------------
(* Operators the handlers share. *)

Enrolled == session.refresh # 0

NeedsRefresh(s) == s.access = 0 \/ ~ s.valid

RecentFailure(g) == failure # NoFailure /\ failure.generation = g

LockIgnored == TRUE
CredentialLockFree == lock = "none"

(* invalidate_access: only the token that was refused is forgotten. *)
InvalidatedAlways(s, token) == [s EXCEPT !.access = 0, !.valid = FALSE]
Invalidated(s, token) ==
    IF s.access = token /\ token # 0 THEN [s EXCEPT !.access = 0, !.valid = FALSE] ELSE s

(* replace_session for a session with or without an access token. *)
Replace(s) ==
    /\ session' = s
    /\ generation' = generation + 1
    /\ reauth' = FALSE
    /\ failure' = NoFailure

(* store.save of grant g: the rename is atomic, so the file holds the old   *)
(* or the new grant; the sync of the directory may fail after the rename.   *)
SaveOk(g) == disk' = g
SaveFails(g) == SaveMayFail /\ disk' \in {disk, g}

(* save_current and persist_locked, whose caller holds refresh_lock.        *)
PersistOk ==
    IF ~ Enrolled THEN UNCHANGED <<disk, pending, retrying>>
    ELSE SaveOk(session.refresh) /\ pending' = FALSE /\ UNCHANGED retrying
PersistFailsSilently ==
    Enrolled /\ SaveFails(session.refresh) /\ UNCHANGED pending /\ retrying' = TRUE
PersistFails ==
    Enrolled /\ SaveFails(session.refresh) /\ pending' = TRUE /\ retrying' = TRUE

LockLeaked == UNCHANGED lock
ReleaseCredentialLock == lock' = "none"

(* from_refresh and refresh_failed: only a refused grant asks for a sign-in. *)
Rejected(phase) == phase = "rejected"

(* The error exit of context(): a request ends, an import goes on to restore. *)
Failed(t) == IF t = Importer THEN "restore" ELSE "idle"
(* The successful exit: a request is sent, an import goes on to persist.      *)
Ready(t) == IF t = Importer THEN "persist" ELSE "sent"

Settled(p) == p \in {"idle", "gone"}
ImportRuns == ~ Settled(pc[Importer])

-----------------------------------------------------------------------------
Init ==
    /\ issued \in {0, 1}
    /\ live = 1 .. issued
    /\ disk = issued
    /\ refused = {}
    /\ up = FALSE
    /\ crashes = 0
    /\ session = NoSession
    /\ generation = 0
    /\ failure = NoFailure
    /\ reauth = FALSE
    /\ pending = FALSE
    /\ retrying = FALSE
    /\ lock = "none"
    /\ rot = [t \in Tasks |-> Quiet]
    /\ pc = [t \in Tasks |-> "idle"]
    /\ used = [t \in Tasks |-> 0]
    /\ again = [t \in Tasks |-> FALSE]
    /\ import = NoImport
    /\ enroll = 0

(* bootstrap: the file, when there is one, becomes the session; the server  *)
(* accepts requests only afterwards.                                        *)
Bootstrap ==
    /\ ~ up
    /\ up' = TRUE
    /\ IF disk = 0
       THEN UNCHANGED <<memVars, failure, reauth>>
       ELSE Replace(Loaded(disk))
    /\ UNCHANGED <<blinkVars, crashes, pending, retrying, disk, lock, rot, taskVars, import, enroll>>

-----------------------------------------------------------------------------
(* context(): read the session; refresh the access token when it is missing *)
(* or about to expire; read the session again.                              *)

Request(c) ==
    /\ up /\ pc[c] = "idle"
    /\ pc' = [pc EXCEPT ![c] = "context"]
    /\ again' = [again EXCEPT ![c] = FALSE]
    /\ UNCHANGED <<blinkVars, up, crashes, memVars, healthVars, disk, lock, rot, used, import, enroll>>

Lookup(t) ==
    /\ pc[t] = "context"
    /\ \/ /\ ~ Enrolled
          /\ pc' = [pc EXCEPT ![t] = Failed(t)]
          /\ UNCHANGED used
       \/ /\ Enrolled
          /\ NeedsRefresh(session)
          /\ pc' = [pc EXCEPT ![t] = "queued"]
          /\ UNCHANGED used
       \/ /\ Enrolled
          /\ ~ NeedsRefresh(session)
          /\ pc' = [pc EXCEPT ![t] = Ready(t)]
          /\ used' = [used EXCEPT ![t] = session.access]
    /\ UNCHANGED <<blinkVars, up, crashes, memVars, healthVars, disk, lock, rot, again, import, enroll>>

(* refresh_access up to the spawn: with the lock, look again whether a      *)
(* refresh is needed, fail fast during the cooldown, else hand the lock to  *)
(* a detached rotation of the grant now in memory.                          *)
RefreshAccess(t) ==
    /\ pc[t] = "queued"
    /\ CredentialLockFree
    /\ \/ /\ ~ Enrolled \/ (NeedsRefresh(session) /\ RecentFailure(generation))
          /\ pc' = [pc EXCEPT ![t] = Failed(t)]
          /\ UNCHANGED <<lock, rot>>
       \/ /\ Enrolled
          /\ ~ NeedsRefresh(session)
          /\ pc' = [pc EXCEPT ![t] = "reread"]
          /\ UNCHANGED <<lock, rot>>
       \/ /\ Enrolled
          /\ NeedsRefresh(session)
          /\ ~ RecentFailure(generation)
          /\ pc' = [pc EXCEPT ![t] = "rotating"]
          /\ lock' = t
          /\ rot' = [rot EXCEPT ![t] = Sent(session.refresh, generation)]
    /\ UNCHANGED <<blinkVars, up, crashes, memVars, healthVars, disk, used, again, import, enroll>>

(* The second read of the session.  Another request may have invalidated    *)
(* the fresh access token in between, or an import taken the session away.  *)
Reread(t) ==
    /\ pc[t] = "reread"
    /\ IF ~ Enrolled \/ session.access = 0
       THEN /\ pc' = [pc EXCEPT ![t] = Failed(t)]
            /\ UNCHANGED used
       ELSE /\ pc' = [pc EXCEPT ![t] = Ready(t)]
            /\ used' = [used EXCEPT ![t] = session.access]
    /\ UNCHANGED <<blinkVars, up, crashes, memVars, healthVars, disk, lock, rot, again, import, enroll>>

(* json and post_ack once the request is sent: Blink answers, or refuses     *)
(* the access token; the 401 is handled later than Blink decided it.        *)
Answered(c) ==
    /\ pc[c] = "sent"
    /\ \/ pc' = [pc EXCEPT ![c] = "idle"] /\ UNCHANGED refused
       \/ pc' = [pc EXCEPT ![c] = "refused"] /\ refused' = refused \cup {used[c]}
    /\ UNCHANGED <<live, issued, up, crashes, memVars, healthVars, disk, lock, rot, used, again, import, enroll>>

InvalidateAccess(c) ==
    /\ pc[c] = "refused"
    /\ \/ session' = Invalidated(session, used[c])
       \/ again[c] /\ session' = session      \* post_ack: a second 401 only fails
    /\ pc' = [pc EXCEPT ![c] = IF again[c] THEN "idle" ELSE "context"]
    /\ again' = [again EXCEPT ![c] = TRUE]
    /\ UNCHANGED <<blinkVars, up, crashes, generation, healthVars, disk, lock, rot, used, import, enroll>>

(* The client of a request disconnects: its future is dropped at an await.  *)
(* The rotation it spawned is detached and goes on.                         *)
Cancel(c) ==
    /\ pc[c] # "idle"
    /\ pc' = [pc EXCEPT ![c] = "idle"]
    /\ UNCHANGED <<blinkVars, up, crashes, memVars, healthVars, disk, lock, rot, used, again, import, enroll>>

(* Time passes: the access token enters the 60 s refresh margin; a cooldown *)
(* ends.                                                                    *)
Expire ==
    /\ session.valid
    /\ session' = [session EXCEPT !.valid = FALSE]
    /\ UNCHANGED <<blinkVars, up, crashes, generation, healthVars, disk, lock, rot, taskVars, import, enroll>>

CoolDown ==
    /\ failure # NoFailure
    /\ failure' = NoFailure
    /\ UNCHANGED <<blinkVars, up, crashes, memVars, reauth, pending, retrying, disk, lock, rot, taskVars, import, enroll>>

-----------------------------------------------------------------------------
(* rotate(), the detached task that owns refresh_lock.                      *)

(* Blink answers the refresh.  It rotates a live grant, and the answer may  *)
(* be lost on the way; a dead grant is rejected; anything may fail before   *)
(* Blink acts.                                                              *)
BlinkAnswers(t) ==
    /\ rot[t].phase = "sent"
    /\ \/ /\ rot[t].grant \in live
          /\ issued < MaxGrant
          /\ issued' = issued + 1
          /\ live' = (live \ {rot[t].grant}) \cup {issued + 1}
          /\ \/ rot' = [rot EXCEPT ![t] = Became(@, "answered", issued + 1)]
             \/ rot' = [rot EXCEPT ![t] = Became(@, "transient", @.new)]
       \/ /\ rot[t].grant \notin live
          /\ rot' = [rot EXCEPT ![t] = Became(@, "rejected", @.new)]
          /\ UNCHANGED <<live, issued>>
       \/ /\ rot' = [rot EXCEPT ![t] = Became(@, "transient", @.new)]
          /\ UNCHANGED <<live, issued>>
    /\ UNCHANGED <<refused, up, crashes, memVars, healthVars, disk, lock, taskVars, import, enroll>>

(* The rotated pair reaches memory, unless the session was replaced.        *)
StoreRotated(t) ==
    /\ rot[t].phase = "answered"
    /\ IF Enrolled /\ generation = rot[t].generation
       THEN /\ session' = Issued(rot[t].new)
            /\ reauth' = FALSE
            /\ failure' = NoFailure
            /\ rot' = [rot EXCEPT ![t] = Became(@, "stored", @.new)]
            /\ UNCHANGED <<lock, pc>>
       ELSE /\ rot' = [rot EXCEPT ![t] = Quiet]
            /\ ReleaseCredentialLock
            /\ pc' = [pc EXCEPT ![t] = IF @ = "rotating" THEN "reread" ELSE @]
            /\ UNCHANGED <<session, reauth, failure>>
    /\ UNCHANGED <<blinkVars, up, crashes, generation, pending, retrying, disk, used, again, import, enroll>>

(* persist_locked; a failed write does not fail the refresh.                *)
PersistRotated(t) ==
    /\ rot[t].phase = "stored"
    /\ PersistOk \/ PersistFails
    /\ rot' = [rot EXCEPT ![t] = Quiet]
    /\ ReleaseCredentialLock
    /\ pc' = [pc EXCEPT ![t] = IF @ = "rotating" THEN "reread" ELSE @]
    /\ UNCHANGED <<blinkVars, up, crashes, memVars, failure, reauth, used, again, import, enroll>>

RefreshFailed(t) ==
    /\ rot[t].phase \in {"transient", "rejected"}
    /\ failure' = [generation |-> rot[t].generation, rejected |-> Rejected(rot[t].phase)]
    /\ reauth' = (reauth \/ Rejected(rot[t].phase))
    /\ rot' = [rot EXCEPT ![t] = Quiet]
    /\ ReleaseCredentialLock
    /\ pc' = [pc EXCEPT ![t] = IF @ = "rotating" THEN Failed(t) ELSE @]
    /\ UNCHANGED <<blinkVars, up, crashes, memVars, pending, retrying, disk, used, again, import, enroll>>

(* One turn of the background retry: with the lock, it stops when the file  *)
(* is in sync or the save succeeds, else sleeps again.                      *)
RetryPersist ==
    /\ retrying
    /\ CredentialLockFree
    /\ \/ /\ ~ pending
          /\ retrying' = FALSE
          /\ UNCHANGED <<disk, pending>>
       \/ /\ pending
          /\ retrying' = FALSE
          /\ IF ~ Enrolled THEN UNCHANGED <<disk, pending>>
             ELSE SaveOk(session.refresh) /\ pending' = FALSE
    /\ UNCHANGED <<blinkVars, up, crashes, memVars, failure, reauth, lock, rot, taskVars, import, enroll>>

RetryPersistFails ==
    /\ retrying /\ pending
    /\ CredentialLockFree
    /\ Enrolled
    /\ SaveFails(session.refresh)
    /\ UNCHANGED <<blinkVars, up, crashes, memVars, healthVars, lock, rot, taskVars, import, enroll>>

-----------------------------------------------------------------------------
(* enroll(): the sign-in yielded a grant; save it first, then replace the   *)
(* session, both under the lock.                                            *)
SignIn ==
    /\ up /\ enroll = 0
    /\ issued < MaxGrant
    /\ generation < MaxGeneration
    /\ issued' = issued + 1
    /\ live' = live \cup {issued + 1}
    /\ enroll' = issued + 1
    /\ UNCHANGED <<refused, up, crashes, memVars, healthVars, disk, lock, rot, taskVars, import>>

EnrollSave ==
    /\ enroll # 0
    /\ CredentialLockFree
    /\ \/ /\ SaveOk(enroll)
          /\ lock' = Enroller
          /\ UNCHANGED enroll
       \/ /\ SaveFails(enroll)
          /\ enroll' = 0
          /\ UNCHANGED lock
    /\ UNCHANGED <<blinkVars, up, crashes, memVars, healthVars, rot, taskVars, import>>

EnrollReplace ==
    /\ lock = Enroller
    /\ Replace(Issued(enroll))
    /\ pending' = FALSE
    /\ ReleaseCredentialLock
    /\ enroll' = 0
    /\ UNCHANGED <<blinkVars, up, crashes, retrying, disk, rot, taskVars, import>>

(* The client disconnects while it waits for the lock or between the save   *)
(* and the replacement.                                                     *)
EnrollDisconnect ==
    /\ Disconnects
    /\ enroll # 0
    /\ enroll' = 0
    /\ lock' = IF lock = Enroller THEN "none" ELSE lock
    /\ UNCHANGED <<blinkVars, up, crashes, memVars, healthVars, disk, rot, taskVars, import>>

-----------------------------------------------------------------------------
(* import(): take the previous session, replace it by the imported one,     *)
(* release the lock, refresh through context(), then persist or restore.    *)
ImportStart(kind) ==
    /\ up /\ pc[Importer] = "idle"
    /\ issued < MaxGrant
    /\ generation < MaxGeneration
    /\ issued' = issued + 1
    /\ live' = IF kind = "live" THEN live \cup {issued + 1} ELSE live
    /\ import' = [NoImport EXCEPT !.grant = issued + 1]
    /\ pc' = [pc EXCEPT ![Importer] = "take"]
    /\ UNCHANGED <<refused, up, crashes, memVars, healthVars, disk, lock, rot, used, again, enroll>>

(* Between take() and replace_session() the engine has no session.          *)
ImportTake ==
    /\ pc[Importer] = "take"
    /\ CredentialLockFree
    /\ lock' = Importer
    /\ import' = [import EXCEPT !.previous = session]
    /\ session' = NoSession
    /\ pc' = [pc EXCEPT ![Importer] = "taken"]
    /\ UNCHANGED <<blinkVars, up, crashes, generation, healthVars, disk, rot, used, again, enroll>>

ImportReplace ==
    /\ pc[Importer] = "taken"
    /\ Replace(Loaded(import.grant))
    /\ import' = [import EXCEPT !.generation = generation + 1]
    /\ ReleaseCredentialLock
    /\ pc' = [pc EXCEPT ![Importer] = "context"]
    /\ UNCHANGED <<blinkVars, up, crashes, pending, retrying, disk, rot, used, again, enroll>>

(* context() succeeded: an explicit save makes a failed write visible.      *)
ImportPersist ==
    /\ pc[Importer] = "persist"
    /\ CredentialLockFree
    /\ PersistOk \/ PersistFails
    /\ pc' = [pc EXCEPT ![Importer] = "idle"]
    /\ UNCHANGED <<blinkVars, up, crashes, memVars, failure, reauth, lock, rot, used, again, import, enroll>>

RestoreNothing == UNCHANGED <<memVars, failure, reauth>>
RestorePrevious ==
    IF generation # import.generation THEN UNCHANGED <<memVars, failure, reauth>>
    ELSE IF import.previous.refresh # 0 THEN Replace(import.previous)
    ELSE session' = NoSession /\ UNCHANGED <<generation, failure, reauth>>

(* context() failed: unless the session was replaced meanwhile, the         *)
(* previous one comes back; without a previous one the engine forgets it.   *)
ImportRestore ==
    /\ pc[Importer] = "restore"
    /\ CredentialLockFree
    /\ RestorePrevious
    /\ pc' = [pc EXCEPT ![Importer] = "idle"]
    /\ UNCHANGED <<blinkVars, up, crashes, pending, retrying, disk, lock, rot, used, again, import, enroll>>

(* The client disconnects: whatever the import did so far stays.            *)
ImportDisconnect ==
    /\ Disconnects
    /\ ImportRuns
    /\ pc' = [pc EXCEPT ![Importer] = "gone"]
    /\ lock' = IF pc[Importer] = "taken" THEN "none" ELSE lock
    /\ UNCHANGED <<blinkVars, up, crashes, memVars, healthVars, disk, rot, used, again, import, enroll>>

-----------------------------------------------------------------------------
(* The process dies: memory is gone, Blink and the file stay.               *)
Crash ==
    /\ up /\ crashes < Crashes
    /\ crashes' = crashes + 1
    /\ up' = FALSE
    /\ session' = NoSession
    /\ generation' = 0
    /\ failure' = NoFailure
    /\ reauth' = FALSE
    /\ pending' = FALSE
    /\ retrying' = FALSE
    /\ lock' = "none"
    /\ rot' = [t \in Tasks |-> Quiet]
    /\ pc' = [t \in Tasks |-> "idle"]
    /\ used' = [t \in Tasks |-> 0]
    /\ again' = [t \in Tasks |-> FALSE]
    /\ import' = NoImport
    /\ enroll' = 0
    /\ UNCHANGED <<blinkVars, disk>>

Context(t) == Lookup(t) \/ RefreshAccess(t) \/ Reread(t)

Rotate(t) == BlinkAnswers(t) \/ StoreRotated(t) \/ PersistRotated(t) \/ RefreshFailed(t)

Import ==
    \/ \E kind \in Imports : ImportStart(kind)
    \/ ImportTake \/ ImportReplace \/ ImportPersist \/ ImportRestore \/ ImportDisconnect

Enroll == SignIn \/ EnrollSave \/ EnrollReplace \/ EnrollDisconnect

Next ==
    \/ Bootstrap
    \/ \E c \in Callers : Request(c) \/ Answered(c) \/ InvalidateAccess(c) \/ Cancel(c)
    \/ \E t \in Tasks : Context(t) \/ Rotate(t)
    \/ Expire \/ CoolDown
    \/ RetryPersist \/ RetryPersistFails
    \/ Enroll \/ Import
    \/ Crash

Spec == Init /\ [][Next]_vars

(* Scheduling.  Blink answers or the HTTP client times out after 20 s, and  *)
(* tokio runs every ready task, so each step of a detached rotation and of   *)
(* context() is weakly fair; tokio's Mutex is a FIFO queue, so a waiter on   *)
(* refresh_lock is served (strong fairness).                                *)
TaskFairness ==
    /\ \A t \in Tasks : WF_vars(Rotate(t)) /\ WF_vars(Reread(t)) /\ SF_vars(RefreshAccess(t))
    /\ WF_vars(EnrollReplace) /\ WF_vars(ImportReplace)
FairSpec == Spec /\ TaskFairness

-----------------------------------------------------------------------------
SessionType == [refresh : 0 .. MaxGrant, access : 0 .. MaxGrant, valid : BOOLEAN]
RotationType == [phase : {"idle", "sent", "answered", "stored", "transient", "rejected"},
                 grant : 0 .. MaxGrant, generation : Nat, new : 0 .. MaxGrant]
FailureType == [generation : Nat, rejected : BOOLEAN]
ImportType == [grant : 0 .. MaxGrant, previous : SessionType, generation : Nat]
PCs == {"idle", "context", "queued", "rotating", "reread", "sent", "refused",
        "take", "taken", "persist", "restore", "gone"}

(* Every variable stays in its range. *)
TypeOK ==
    /\ live \subseteq Grants /\ refused \subseteq 0 .. MaxGrant
    /\ issued \in 0 .. MaxGrant /\ disk \in 0 .. MaxGrant /\ enroll \in 0 .. MaxGrant
    /\ up \in BOOLEAN /\ crashes \in 0 .. Crashes
    /\ session \in SessionType /\ generation \in Nat
    /\ failure \in FailureType
    /\ reauth \in BOOLEAN /\ pending \in BOOLEAN /\ retrying \in BOOLEAN
    /\ lock \in Tasks \cup {Enroller, "none"}
    /\ rot \in [Tasks -> RotationType]
    /\ pc \in [Tasks -> PCs]
    /\ used \in [Tasks -> 0 .. MaxGrant]
    /\ again \in [Tasks -> BOOLEAN]
    /\ import \in ImportType

Presented(t) == rot[t].phase \in {"sent", "answered", "transient", "rejected"}

(* Single flight: no refresh grant is presented to Blink by two rotations at  *)
(* once, whichever requests, retries and imports ask for a token             *)
(* (blink_session.rs: "two refreshes with the same token would race").       *)
OneOffer ==
    \A t, u \in Tasks :
        Presented(t) /\ Presented(u) /\ rot[t].grant = rot[u].grant => t = u

(* An enrollment or an import never replaces the credentials under a refresh *)
(* in flight: the grant Blink is rotating is the one in memory, so the       *)
(* rotated pair always has a session to land in.                             *)
RotatesCurrentSession ==
    \A t \in Tasks : Presented(t) =>
        /\ session.refresh = rot[t].grant
        /\ generation = rot[t].generation

(* A restart does not lose a sign-in: while the grant in memory works, the   *)
(* sealed file holds one that works too, or the disagreement is flagged in   *)
(* /healthz (persist_pending), or the task about to write it still runs.     *)
Recoverable ==
    up /\ session.refresh \in live =>
        \/ disk \in live
        \/ pending
        \/ \E t \in Tasks : rot[t].phase = "stored"
        \/ ImportRuns

(* A file flagged out of sync always has its retry task, although the task   *)
(* stops itself concurrently with new failures asking for one.               *)
FlaggedFileIsRetried == pending /\ Enrolled => retrying

(* reauth_required is never raised against a grant Blink would still accept: *)
(* not after an outage, a lost answer or a replaced session.                 *)
ReauthMeansRefused == reauth /\ Enrolled => session.refresh \notin live

(* A late 401 never discards an access token Blink has not refused           *)
(* (invalidate_access compares tokens).                                      *)
FreshTokenKept ==
    [][session.access # 0 /\ session'.access = 0 /\ session'.refresh = session.refresh
         => session.access \in refused]_vars

(* Rotations do not disturb each other, and nothing replaces the session     *)
(* under one.                                                               *)
RefreshIsSingle == OneOffer /\ RotatesCurrentSession

(* The file catches up with memory, or says that it has not and is retried.  *)
FileRecovers == Recoverable /\ FlaggedFileIsRetried

(* What Blink has not refused is not given up: neither the sign-in after a   *)
(* failure that proves nothing, nor a token that is newer than the refusal.  *)
RefusalsAreTrue == []ReauthMeansRefused /\ FreshTokenKept

(* A request that needs a refresh leaves refresh_access: it is never stuck   *)
(* behind a lock whose holder has finished or has been cancelled.            *)
ContextReturns == \A t \in Tasks : pc[t] \in {"queued", "rotating"} ~> pc[t] \notin {"queued", "rotating"}

(* What blink_client.rs says of import: "An import Blink refuses restores    *)
(* the previous session".  No session in memory is the grant of an import    *)
(* that has returned an error, unless there was no session before.           *)
RefusedImportRestores ==
    reauth /\ import.grant # 0 /\ ~ ImportRuns /\ session.refresh = import.grant
        => import.previous.refresh = 0

(* The same of an import whose client waited for its answer: whoever else    *)
(* refreshes, signs in or asks meanwhile, the refused grant does not stay.   *)
AnsweredImportRestores == pc[Importer] # "gone" => RefusedImportRestores

-----------------------------------------------------------------------------
(* The abstract custody of the grant, implemented by the engine. *)
Offered == {<<t, rot[t].grant>> : t \in {u \in Tasks : Presented(u)}}
Custody == INSTANCE GrantCustody WITH
    Presenters <- Tasks,
    held <- session.refresh,
    sealed <- disk,
    signIn <- enroll,
    offered <- Offered

(* The engine implements GrantCustody: single flight and the file's          *)
(* discipline together, for every interleaving.                              *)
KeepsCustody == Custody!Spec
=============================================================================
