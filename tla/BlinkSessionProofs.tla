------------------------- MODULE BlinkSessionProofs -------------------------
(***************************************************************************)
(* Proofs about BlinkSession for every number of requests, grants,         *)
(* crashes and imports: type correctness, single flight of the refresh,    *)
(* that the engine implements GrantCustody, that what Blink has not        *)
(* refused is not given up, that an import which returned an error does    *)
(* not leave its grant behind, and that the file recovers.                 *)
(***************************************************************************)
EXTENDS BlinkSession, TLAPS

(* The inductive invariant.  A rotation in flight owns the credential lock, *)
(* so does an import that has taken the session away; and the grant a       *)
(* rotation presents is the one in memory, of the same generation; nothing  *)
(* runs before the bootstrap.                                               *)
RotationOwnsLock == \A t \in Tasks : rot[t].phase # "idle" => lock = t
TakenOwnsLock ==
    pc[Importer] = "taken" => lock = Importer /\ rot[Importer].phase = "idle"
DownIsIdle == ~ up => \A t \in Tasks : rot[t].phase = "idle" /\ pc[t] = "idle"
InFlight == RotationOwnsLock /\ TakenOwnsLock /\ RotatesCurrentSession /\ DownIsIdle

USE DEF healthVars, memVars, taskVars, blinkVars

(* The records the actions build are of their types. *)
LEMMA EmptyRecords ==
    /\ NoSession \in SessionType /\ NoFailure \in FailureType
    /\ Quiet \in RotationType /\ NoImport \in ImportType
  <1> 0 \in 0 .. MaxGrant
    BY SessionAssumption
  <1>1. NoSession \in SessionType
    BY DEF NoSession, Loaded, SessionType
  <1>2. NoFailure \in FailureType
    BY DEF NoFailure, FailureType
  <1>3. Quiet \in RotationType
    BY DEF Quiet, RotationType
  <1>4. NoImport \in ImportType
    BY <1>1 DEF NoImport, ImportType
  <1> QED
    BY <1>1, <1>2, <1>3, <1>4

LEMMA SessionRecord ==
    ASSUME NEW g \in 0 .. MaxGrant
    PROVE Loaded(g) \in SessionType /\ Issued(g) \in SessionType
  <1> 0 \in 0 .. MaxGrant
    BY SessionAssumption
  <1> QED
    BY DEF SessionType, Loaded, Issued

LEMMA SessionUpdates ==
    ASSUME NEW s \in SessionType
    PROVE /\ [s EXCEPT !.valid = FALSE] \in SessionType
          /\ [s EXCEPT !.access = 0, !.valid = FALSE] \in SessionType
          /\ [s EXCEPT !.valid = FALSE].refresh = s.refresh
          /\ [s EXCEPT !.access = 0, !.valid = FALSE].refresh = s.refresh
  <1> 0 \in 0 .. MaxGrant
    BY SessionAssumption
  <1> QED
    BY DEF SessionType

LEMMA SessionFields ==
    ASSUME NEW s \in SessionType
    PROVE s.refresh \in 0 .. MaxGrant /\ s.access \in 0 .. MaxGrant
  BY DEF SessionType

LEMMA SentRotation ==
    ASSUME NEW g \in 0 .. MaxGrant, NEW n \in Nat
    PROVE Sent(g, n) \in RotationType
  <1> 0 \in 0 .. MaxGrant
    BY SessionAssumption
  <1> QED
    BY DEF RotationType, Sent

LEMMA RotationFields ==
    ASSUME NEW r \in RotationType
    PROVE r.grant \in 0 .. MaxGrant /\ r.generation \in Nat /\ r.new \in 0 .. MaxGrant
  BY DEF RotationType

LEMMA FailureRecord ==
    ASSUME NEW n \in Nat, NEW b \in BOOLEAN
    PROVE [generation |-> n, rejected |-> b] \in FailureType
  BY DEF FailureType

(* Changing one field of a rotation record. *)
LEMMA RotationUpdates ==
    ASSUME NEW r \in RotationType
    PROVE /\ Became(r, "transient", r.new) \in RotationType
          /\ Became(r, "rejected", r.new) \in RotationType
          /\ Became(r, "stored", r.new) \in RotationType
          /\ \A n \in 0 .. MaxGrant : Became(r, "answered", n) \in RotationType
  BY DEF RotationType, Became

(* Changing one field of what the import keeps. *)
LEMMA ImportUpdates ==
    ASSUME NEW i \in ImportType
    PROVE /\ \A g \in 0 .. MaxGrant : [i EXCEPT !.grant = g] \in ImportType
          /\ \A s \in SessionType : [i EXCEPT !.previous = s] \in ImportType
          /\ \A n \in Nat : [i EXCEPT !.generation = n] \in ImportType
  BY DEF ImportType

LEMMA ImportFields ==
    ASSUME NEW i \in ImportType
    PROVE i.grant \in 0 .. MaxGrant /\ i.previous \in SessionType
  BY DEF ImportType

(* TypeOK in two halves, the flags apart from the rest. *)
FlagsOK ==
    /\ up \in BOOLEAN /\ reauth \in BOOLEAN /\ pending \in BOOLEAN /\ retrying \in BOOLEAN
    /\ again \in [Tasks -> BOOLEAN]
RangesOK ==
    /\ live \subseteq Grants /\ refused \subseteq 0 .. MaxGrant
    /\ issued \in 0 .. MaxGrant /\ disk \in 0 .. MaxGrant /\ enroll \in 0 .. MaxGrant
    /\ crashes \in 0 .. Crashes
    /\ session \in SessionType /\ generation \in Nat
    /\ failure \in FailureType
    /\ lock \in Tasks \cup {Enroller, "none"}
    /\ rot \in [Tasks -> RotationType]
    /\ pc \in [Tasks -> PCs]
    /\ used \in [Tasks -> 0 .. MaxGrant]
    /\ import \in ImportType

LEMMA FlagsStep == FlagsOK /\ [Next]_vars => FlagsOK'
  <1> SUFFICES ASSUME FlagsOK, [Next]_vars PROVE FlagsOK'
    OBVIOUS
  <1> USE DEF FlagsOK
  <1>1. ASSUME NEW c \in Callers, Request(c) \/ Answered(c) \/ InvalidateAccess(c) \/ Cancel(c)
        PROVE FlagsOK'
    BY <1>1 DEF Request, Answered, InvalidateAccess, Cancel
  <1>2. ASSUME NEW t \in Tasks, Context(t) PROVE FlagsOK'
    BY <1>2 DEF Context, Lookup, RefreshAccess, Reread
  <1>3. ASSUME NEW t \in Tasks, Rotate(t) PROVE FlagsOK'
    BY <1>3 DEF Rotate, BlinkAnswers, StoreRotated, PersistRotated, PersistOk, PersistFails,
       RefreshFailed
  <1>4. CASE Bootstrap \/ Expire \/ CoolDown \/ RetryPersist \/ RetryPersistFails
    BY <1>4 DEF Bootstrap, Replace, Expire, CoolDown, RetryPersist, RetryPersistFails
  <1>5. CASE Enroll
    BY <1>5 DEF Enroll, SignIn, EnrollSave, EnrollReplace, Replace, EnrollDisconnect
  <1>6. CASE Import
    BY <1>6 DEF Import, ImportStart, ImportTake, ImportReplace, Replace, ImportPersist, PersistOk,
       PersistFails, ImportRestore, RestorePrevious, ImportDisconnect
  <1>7. CASE Crash
    BY <1>7 DEF Crash
  <1>8. CASE UNCHANGED vars
    BY <1>8 DEF vars
  <1> QED
    BY <1>1, <1>2, <1>3, <1>4, <1>5, <1>6, <1>7, <1>8 DEF Next

LEMMA RangesStep == RangesOK /\ [Next]_vars => RangesOK'
  <1> SUFFICES ASSUME RangesOK, [Next]_vars PROVE RangesOK'
    OBVIOUS
  <1> MaxGrant \in Nat \ {0} /\ Importer \in Tasks /\ Callers \subseteq Tasks /\ Crashes \in Nat
    BY SessionAssumption DEF Tasks
  <1> USE DEF RangesOK
  <1>1. CASE Bootstrap
    BY <1>1, SessionRecord, EmptyRecords DEF Bootstrap, Replace
  <1>2. ASSUME NEW c \in Callers, Request(c) \/ Answered(c) \/ Cancel(c) PROVE RangesOK'
    BY <1>2 DEF Request, Answered, Cancel, PCs
  <1>3. ASSUME NEW c \in Callers, InvalidateAccess(c) PROVE RangesOK'
    BY <1>3, SessionUpdates DEF InvalidateAccess, Invalidated, PCs
  <1>4. ASSUME NEW t \in Tasks, Lookup(t) \/ Reread(t) PROVE RangesOK'
    BY <1>4, SessionFields DEF Lookup, Reread, Failed, Ready, PCs
  <1>5. ASSUME NEW t \in Tasks, RefreshAccess(t) PROVE RangesOK'
    <2>1. Sent(session.refresh, generation) \in RotationType
      BY SessionFields, SentRotation
    <2> QED
      BY <1>5, <2>1 DEF RefreshAccess, Failed, PCs
  <1>6. ASSUME NEW t \in Tasks, BlinkAnswers(t) PROVE RangesOK'
    <2>1. issued < MaxGrant => issued + 1 \in 0 .. MaxGrant /\ issued + 1 \in Grants
      BY DEF Grants
    <2>2. rot' \in [Tasks -> RotationType]
      <3>1. Became(rot[t], "transient", rot[t].new) \in RotationType
            /\ Became(rot[t], "rejected", rot[t].new) \in RotationType
        BY RotationUpdates
      <3>2. issued < MaxGrant => Became(rot[t], "answered", issued + 1) \in RotationType
        BY <2>1, RotationUpdates
      <3> QED
        BY <1>6, <3>1, <3>2 DEF BlinkAnswers
    <2>3. live' \subseteq Grants /\ issued' \in 0 .. MaxGrant
      BY <1>6, <2>1 DEF BlinkAnswers
    <2> QED
      BY <1>6, <2>2, <2>3 DEF BlinkAnswers
  <1>7. ASSUME NEW t \in Tasks, StoreRotated(t) PROVE RangesOK'
    <2>1. Issued(rot[t].new) \in SessionType
      BY RotationFields, SessionRecord
    <2>2. Became(rot[t], "stored", rot[t].new) \in RotationType
      BY RotationUpdates
    <2>3. rot' \in [Tasks -> RotationType]
      BY <1>7, <2>2, EmptyRecords DEF StoreRotated
    <2>4. session' \in SessionType /\ failure' \in FailureType
      BY <1>7, <2>1, EmptyRecords DEF StoreRotated
    <2>5. pc' \in [Tasks -> PCs] /\ lock' \in Tasks \cup {Enroller, "none"}
      BY <1>7 DEF StoreRotated, ReleaseCredentialLock, PCs
    <2> QED
      BY <1>7, <2>3, <2>4, <2>5 DEF StoreRotated
  <1>8. ASSUME NEW t \in Tasks, PersistRotated(t) PROVE RangesOK'
    BY <1>8, EmptyRecords, SessionFields
       DEF PersistRotated, PersistOk, PersistFails, SaveOk, SaveFails, ReleaseCredentialLock, PCs
  <1>9. ASSUME NEW t \in Tasks, RefreshFailed(t) PROVE RangesOK'
    BY <1>9, EmptyRecords, RotationFields, FailureRecord
       DEF RefreshFailed, Rejected, Failed, ReleaseCredentialLock, PCs
  <1>10. CASE Expire \/ CoolDown
    BY <1>10, EmptyRecords, SessionUpdates DEF Expire, CoolDown
  <1>11. CASE RetryPersist \/ RetryPersistFails
    BY <1>11, SessionFields DEF RetryPersist, RetryPersistFails, SaveOk, SaveFails
  <1>12. CASE SignIn
    BY <1>12 DEF SignIn, Grants
  <1>13. CASE EnrollSave \/ EnrollReplace \/ EnrollDisconnect
    <2>1. Issued(enroll) \in SessionType
      BY SessionRecord
    <2>2. CASE EnrollSave
      BY <2>2 DEF EnrollSave, SaveOk, SaveFails
    <2>4. CASE EnrollDisconnect
      BY <2>4 DEF EnrollDisconnect
    <2>3. CASE EnrollReplace
      BY <2>1, <2>3, EmptyRecords DEF EnrollReplace, Replace, ReleaseCredentialLock
    <2> QED
      BY <1>13, <2>2, <2>3, <2>4
  <1>14. ASSUME NEW kind \in Imports, ImportStart(kind) PROVE RangesOK'
    <2>1. issued + 1 \in 0 .. MaxGrant /\ issued + 1 \in Grants
      BY <1>14 DEF ImportStart, Grants
    <2>2. import' \in ImportType
      BY <1>14, <2>1, EmptyRecords, ImportUpdates DEF ImportStart
    <2>3. live' \subseteq Grants
      BY <1>14, <2>1 DEF ImportStart
    <2> QED
      BY <1>14, <2>1, <2>2, <2>3 DEF ImportStart, PCs
  <1>15. CASE ImportTake
    BY <1>15, EmptyRecords, ImportUpdates DEF ImportTake, PCs
  <1>16. CASE ImportReplace
    <2>1. Loaded(import.grant) \in SessionType
      BY ImportFields, SessionRecord
    <2>2. import' \in ImportType
      <3>1. generation + 1 \in Nat
        OBVIOUS
      <3> QED
        BY <1>16, <3>1, ImportUpdates DEF ImportReplace
    <2> QED
      BY <1>16, <2>1, <2>2, EmptyRecords DEF ImportReplace, Replace, ReleaseCredentialLock, PCs
  <1>17. CASE ImportPersist
    BY <1>17, SessionFields DEF ImportPersist, PersistOk, PersistFails, SaveOk, SaveFails, PCs
  <1>18. CASE ImportRestore
    BY <1>18, EmptyRecords, ImportFields DEF ImportRestore, RestorePrevious, Replace, PCs
  <1>19. CASE ImportDisconnect
    BY <1>19 DEF ImportDisconnect, PCs
  <1>20. CASE Crash
    BY <1>20, EmptyRecords DEF Crash, PCs
  <1>21. CASE UNCHANGED vars
    BY <1>21 DEF vars
  <1> QED
    BY <1>1, <1>2, <1>3, <1>4, <1>5, <1>6, <1>7, <1>8, <1>9, <1>10, <1>11, <1>12, <1>13, <1>14,
       <1>15, <1>16, <1>17, <1>18, <1>19, <1>20, <1>21
       DEF Next, Context, Rotate, Enroll, Import

LEMMA InitTypes == Init => FlagsOK /\ RangesOK
<1> SUFFICES ASSUME Init PROVE FlagsOK /\ RangesOK
  OBVIOUS
<1>1. FlagsOK
  BY DEF Init, FlagsOK
<1>2. RangesOK
  <2>1. MaxGrant \in Nat \ {0} /\ Crashes \in Nat
    BY SessionAssumption
  <2> QED
    BY <2>1, EmptyRecords DEF Init, RangesOK, Grants, PCs
<1> QED
  BY <1>1, <1>2

(* Every variable keeps its range in every behaviour. *)
THEOREM TypeCorrect == Spec => []TypeOK
<1>1. FlagsOK /\ RangesOK => TypeOK
  BY DEF FlagsOK, RangesOK, TypeOK
<1> QED
  BY <1>1, InitTypes, FlagsStep, RangesStep, PTL DEF Spec

-----------------------------------------------------------------------------
(* What the steps of a rotation do to the fields of its record. *)
LEMMA RotationSteps ==
    ASSUME NEW r \in RotationType
    PROVE /\ \A n \in 0 .. MaxGrant :
                Became(r, "answered", n).phase = "answered" /\ Became(r, "answered", n).grant = r.grant
                /\ Became(r, "answered", n).generation = r.generation
          /\ Became(r, "transient", r.new).phase = "transient" /\ Became(r, "transient", r.new).grant = r.grant
          /\ Became(r, "transient", r.new).generation = r.generation
          /\ Became(r, "rejected", r.new).phase = "rejected" /\ Became(r, "rejected", r.new).grant = r.grant
          /\ Became(r, "rejected", r.new).generation = r.generation
          /\ Became(r, "stored", r.new).phase = "stored"
  BY DEF RotationType, Became

LEMMA RotationEnds ==
    /\ Quiet.phase = "idle"
    /\ \A g, n : Sent(g, n).phase = "sent" /\ Sent(g, n).grant = g /\ Sent(g, n).generation = n
  BY DEF Quiet, Sent

(* With the credential lock free, or held by who rotates nothing, there is  *)
(* no rotation at all.                                                      *)
LEMMA NoRotation ==
    ASSUME RotationOwnsLock,
           \/ CredentialLockFree
           \/ lock = Enroller
           \/ TakenOwnsLock /\ pc[Importer] = "taken"
    PROVE \A t \in Tasks : rot[t].phase = "idle"
  <1> "none" \notin Tasks /\ Enroller \notin Tasks
    BY SessionAssumption
  <1> QED
    BY DEF RotationOwnsLock, TakenOwnsLock, CredentialLockFree

(* A step that leaves alone what the invariant talks about preserves it.    *)
LEMMA InFlightUnchanged ==
    ASSUME RangesOK, InFlight, UNCHANGED <<lock, rot, generation, up>>,
           session'.refresh = session.refresh,
           pc'[Importer] = "taken" => pc[Importer] = "taken",
           \A t \in Tasks : pc[t] = "idle" => pc'[t] = "idle" \/ up
    PROVE InFlight'
  BY DEF InFlight, RotationOwnsLock, TakenOwnsLock, RotatesCurrentSession, Presented, DownIsIdle

(* Replacing the session is safe when nothing rotates. *)
LEMMA InFlightReplaced ==
    ASSUME RangesOK, InFlight, rot' = rot, \A t \in Tasks : rot[t].phase = "idle",
           pc'[Importer] = "taken" => lock' = Importer,
           ~ up' => \A t \in Tasks : pc'[t] = "idle"
    PROVE InFlight'
  <1> Importer \in Tasks
    BY DEF Tasks
  <1> QED
    BY DEF InFlight, RotationOwnsLock, TakenOwnsLock, RotatesCurrentSession, Presented, DownIsIdle

LEMMA InFlightStep == RangesOK /\ InFlight /\ [Next]_vars => InFlight'
  <1> SUFFICES ASSUME RangesOK, InFlight, [Next]_vars PROVE InFlight'
    OBVIOUS
  <1> /\ Importer \in Tasks /\ Callers \subseteq Tasks /\ Importer \notin Callers
      /\ "none" \notin Tasks /\ Enroller \notin Tasks
    BY SessionAssumption DEF Tasks
  <1>r. rot \in [Tasks -> RotationType] /\ pc \in [Tasks -> PCs] /\ session \in SessionType
    BY DEF RangesOK
  <1>1. CASE Bootstrap
    BY <1>1, <1>r, InFlightReplaced DEF Bootstrap, InFlight, DownIsIdle
  <1>2. ASSUME NEW c \in Callers, Request(c) \/ Answered(c) \/ Cancel(c) PROVE InFlight'
    BY <1>2, <1>r, InFlightUnchanged DEF Request, Answered, Cancel
  <1>3. ASSUME NEW c \in Callers, InvalidateAccess(c) PROVE InFlight'
    BY <1>3, <1>r, InFlightUnchanged, SessionUpdates DEF InvalidateAccess, Invalidated
  <1>4. ASSUME NEW t \in Tasks, Lookup(t) \/ Reread(t) PROVE InFlight'
    BY <1>4, <1>r, InFlightUnchanged DEF Lookup, Reread, Failed, Ready
  <1>5. ASSUME NEW t \in Tasks, RefreshAccess(t) PROVE InFlight'
    <2>1. \A u \in Tasks : rot[u].phase = "idle"
      BY <1>5, NoRotation DEF RefreshAccess, InFlight
    <2>2. CASE rot' = rot
      BY <1>5, <1>r, <2>1, <2>2, InFlightReplaced
         DEF RefreshAccess, Failed, CredentialLockFree, InFlight, TakenOwnsLock, DownIsIdle
    <2>3. CASE rot' = [rot EXCEPT ![t] = Sent(session.refresh, generation)]
      <3>1. lock' = t /\ pc' = [pc EXCEPT ![t] = "rotating"]
        BY <1>5, <2>1, <2>3, <1>r, RotationEnds DEF RefreshAccess
      <3>2. \A u \in Tasks : u # t => rot'[u].phase = "idle"
        BY <2>1, <2>3, <1>r
      <3>3. rot'[t] = Sent(session.refresh, generation)
        BY <2>3, <1>r
      <3>4. up /\ session' = session /\ generation' = generation /\ up' = up
        BY <1>5 DEF RefreshAccess, InFlight, DownIsIdle
      <3>5. pc'[Importer] # "taken"
        BY <1>5, <3>1, <1>r DEF RefreshAccess, CredentialLockFree, InFlight, TakenOwnsLock
      <3> QED
        BY <3>1, <3>2, <3>3, <3>4, <3>5, RotationEnds
           DEF InFlight, RotationOwnsLock, TakenOwnsLock, RotatesCurrentSession, Presented, DownIsIdle
    <2> QED
      BY <1>5, <2>2, <2>3 DEF RefreshAccess
  <1>6. ASSUME NEW t \in Tasks, Rotate(t) PROVE InFlight'
    <2>i. rot[t].phase # "idle" /\ lock = t /\ \A u \in Tasks : u # t => rot[u].phase = "idle"
      BY <1>6 DEF Rotate, BlinkAnswers, StoreRotated, PersistRotated, RefreshFailed, InFlight,
                  RotationOwnsLock
    <2>u. up /\ up' = up /\ generation' = generation
      BY <1>6, <2>i DEF Rotate, BlinkAnswers, StoreRotated, PersistRotated, RefreshFailed, InFlight,
                  DownIsIdle
    <2>t. pc'[Importer] # "taken"
      BY <1>6, <1>r, <2>i DEF Rotate, BlinkAnswers, StoreRotated, PersistRotated, RefreshFailed,
                  InFlight, TakenOwnsLock, Failed
    <2>1. CASE lock' = lock /\ session' = session /\ \E r \in RotationType :
                 /\ rot' = [rot EXCEPT ![t] = r]
                 /\ r.grant = rot[t].grant /\ r.generation = rot[t].generation
                 /\ Presented(t)
      BY <1>r, <2>i, <2>u, <2>t, <2>1
         DEF InFlight, RotationOwnsLock, TakenOwnsLock, RotatesCurrentSession, Presented, DownIsIdle
    <2>2. CASE lock' = lock /\ rot' = [rot EXCEPT ![t] = Became(rot[t], "stored", rot[t].new)]
      BY <1>r, <2>i, <2>u, <2>t, <2>2, RotationSteps
         DEF InFlight, RotationOwnsLock, TakenOwnsLock, RotatesCurrentSession, Presented, DownIsIdle
    <2>3. CASE rot' = [rot EXCEPT ![t] = Quiet]
      BY <1>r, <2>i, <2>u, <2>t, <2>3, RotationEnds
         DEF InFlight, RotationOwnsLock, TakenOwnsLock, RotatesCurrentSession, Presented, DownIsIdle
    <2>4. CASE BlinkAnswers(t)
      <3>1. rot[t] \in RotationType /\ Presented(t)
        BY <2>4, <1>r DEF BlinkAnswers, Presented
      <3>2. \A n \in 0 .. MaxGrant : Became(rot[t], "answered", n) \in RotationType
        BY <3>1, RotationUpdates
      <3>3. ASSUME NEW n \in 0 .. MaxGrant, rot' = [rot EXCEPT ![t] = Became(@, "answered", n)]
            PROVE InFlight'
        BY <2>4, <2>1, <3>1, <3>2, <3>3, RotationSteps DEF BlinkAnswers
      <3>4. issued < MaxGrant => issued + 1 \in 0 .. MaxGrant
        BY SessionAssumption DEF RangesOK
      <3>5. CASE rot' = [rot EXCEPT ![t] = Became(@, "transient", @.new)]
        BY <2>4, <2>1, <3>1, <3>5, RotationUpdates, RotationSteps DEF BlinkAnswers
      <3>6. CASE rot' = [rot EXCEPT ![t] = Became(@, "rejected", @.new)]
        BY <2>4, <2>1, <3>1, <3>6, RotationUpdates, RotationSteps DEF BlinkAnswers
      <3> QED
        BY <2>4, <3>3, <3>4, <3>5, <3>6 DEF BlinkAnswers
    <2> QED
      BY <1>6, <2>2, <2>3, <2>4 DEF Rotate, StoreRotated, PersistRotated, RefreshFailed
  <1>7. CASE Expire \/ CoolDown \/ RetryPersist \/ RetryPersistFails \/ SignIn
    BY <1>7, <1>r, InFlightUnchanged, SessionUpdates
       DEF Expire, CoolDown, RetryPersist, RetryPersistFails, SignIn
  <1>8. CASE EnrollSave
    BY <1>8, <1>r, NoRotation, InFlightReplaced
       DEF EnrollSave, InFlight, TakenOwnsLock, CredentialLockFree, DownIsIdle
  <1>9. CASE EnrollReplace
    BY <1>9, <1>r, NoRotation, InFlightReplaced
       DEF EnrollReplace, InFlight, TakenOwnsLock, DownIsIdle
  <1>10. CASE EnrollDisconnect
    BY <1>10, <1>r, NoRotation, InFlightReplaced, InFlightUnchanged
       DEF EnrollDisconnect, InFlight, TakenOwnsLock, DownIsIdle
  <1>11. ASSUME NEW kind \in Imports, ImportStart(kind) PROVE InFlight'
    BY <1>11, <1>r, InFlightUnchanged DEF ImportStart
  <1>12. CASE ImportTake
    BY <1>12, <1>r, NoRotation, InFlightReplaced DEF ImportTake, InFlight, DownIsIdle
  <1>13. CASE ImportReplace
    BY <1>13, <1>r, NoRotation, InFlightReplaced DEF ImportReplace, InFlight, DownIsIdle
  <1>14. CASE ImportPersist
    BY <1>14, <1>r, InFlightUnchanged DEF ImportPersist
  <1>15. CASE ImportRestore
    BY <1>15, <1>r, NoRotation, InFlightReplaced DEF ImportRestore, InFlight, DownIsIdle
  <1>16. CASE ImportDisconnect
    BY <1>16, <1>r, NoRotation, InFlightReplaced, InFlightUnchanged
       DEF ImportDisconnect, InFlight, DownIsIdle, ImportRuns, Settled
  <1>17. CASE Crash
    BY <1>17, RotationEnds
       DEF Crash, InFlight, RotationOwnsLock, TakenOwnsLock, RotatesCurrentSession, Presented, DownIsIdle
  <1>20. CASE UNCHANGED vars
    BY <1>20, InFlightUnchanged DEF vars
  <1> QED
    BY <1>1, <1>2, <1>3, <1>4, <1>5, <1>6, <1>7, <1>8, <1>9, <1>10, <1>11, <1>12, <1>13, <1>14,
       <1>15, <1>16, <1>17, <1>20 DEF Next, Context, Enroll, Import

LEMMA InFlightInit == Init => InFlight
  BY DEF Init, InFlight, RotationOwnsLock, TakenOwnsLock, RotatesCurrentSession, Presented,
         DownIsIdle, Quiet, Tasks

LEMMA InFlightAlways == Spec => [](FlagsOK /\ RangesOK /\ InFlight)
<1>1. Init => FlagsOK /\ RangesOK
  BY InitTypes
<1> QED
  BY <1>1, InFlightInit, FlagsStep, RangesStep, InFlightStep, PTL DEF Spec

(* Single flight: no grant is presented by two rotations at once. *)
THEOREM SingleFlight == Spec => []OneOffer
<1>1. InFlight => OneOffer
  BY DEF InFlight, RotationOwnsLock, OneOffer, Presented
<1> QED
  BY <1>1, InFlightAlways, PTL

(* The grant Blink is rotating is always the one in memory: no enrollment,  *)
(* import or restore slips under a refresh in flight.                       *)
THEOREM RotationIsCurrent == Spec => []RotatesCurrentSession
<1>1. InFlight => RotatesCurrentSession
  BY DEF InFlight
<1> QED
  BY <1>1, InFlightAlways, PTL

(* Both: no rotation disturbs another, and nothing disturbs a rotation.      *)
THEOREM RefreshStaysSingle == Spec => []RefreshIsSingle
<1>1. OneOffer /\ RotatesCurrentSession => RefreshIsSingle
  BY DEF RefreshIsSingle
<1> QED
  BY <1>1, SingleFlight, RotationIsCurrent, PTL

-----------------------------------------------------------------------------
(* The refinement.  What is presented is the grant in memory, by one task.   *)
LEMMA OfferedIs ==
    ASSUME RangesOK, InFlight
    PROVE /\ (\A t \in Tasks : rot[t].phase = "idle") => Offered = {}
          /\ \A t \in Tasks : Presented(t) => Offered = {<<t, session.refresh>>}
          /\ \A t \in Tasks : rot[t].phase = "stored" => Offered = {}
  <1>1. (\A t \in Tasks : rot[t].phase = "idle") => Offered = {}
    BY DEF Offered, Presented
  <1>2. ASSUME NEW t \in Tasks, Presented(t) PROVE Offered = {<<t, session.refresh>>}
    <2>1. \A u \in Tasks : Presented(u) <=> u = t
      BY <1>2 DEF InFlight, RotationOwnsLock, Presented
    <2>2. rot[t].grant = session.refresh
      BY <1>2 DEF InFlight, RotatesCurrentSession
    <2> QED
      BY <2>1, <2>2 DEF Offered
  <1>3. ASSUME NEW t \in Tasks, rot[t].phase = "stored" PROVE Offered = {}
    <2>1. \A u \in Tasks : ~ Presented(u)
      BY <1>3 DEF InFlight, RotationOwnsLock, Presented
    <2> QED
      BY <2>1 DEF Offered
  <1> QED
    BY <1>1, <1>2, <1>3

LEMMA SameOffered == rot' = rot => Offered' = Offered
  BY DEF Offered, Presented

LEMMA GrantsInMemory ==
    ASSUME RangesOK
    PROVE session.refresh \in Grants \cup {0} /\ disk \in Grants \cup {0} /\ enroll \in Grants \cup {0}
  <1> session.refresh \in 0 .. MaxGrant /\ disk \in 0 .. MaxGrant /\ enroll \in 0 .. MaxGrant
    BY SessionFields DEF RangesOK
  <1> QED
    BY SessionAssumption DEF Grants

LEMMA CustodyInit == Init => Custody!Init
  <1> SUFFICES ASSUME Init PROVE Custody!Init
    OBVIOUS
  <1>1. Offered = {}
    BY DEF Init, Offered, Presented, Quiet
  <1>2. session.refresh = 0
    BY DEF Init, NoSession, Loaded
  <1>3. disk \in Grants \cup {0}
    BY InitTypes, GrantsInMemory
  <1> QED
    BY <1>1, <1>2, <1>3 DEF Init, Custody!Init, Custody!MaybeGrants

LEMMA CustodyStep ==
    ASSUME RangesOK, RangesOK', InFlight, InFlight', [Next]_vars
    PROVE [Custody!Next]_(Custody!vars)
  <1> /\ Importer \in Tasks /\ Callers \subseteq Tasks
    BY DEF Tasks
  <1>r. rot \in [Tasks -> RotationType] /\ session \in SessionType
    BY DEF RangesOK
  <1>g. /\ session'.refresh \in Grants \cup {0} /\ disk' \in Grants \cup {0}
        /\ enroll' \in Grants \cup {0}
    <2> session' \in SessionType /\ disk' \in 0 .. MaxGrant /\ enroll' \in 0 .. MaxGrant
      BY DEF RangesOK
    <2> session'.refresh \in 0 .. MaxGrant
      BY SessionFields
    <2> QED
      BY SessionAssumption DEF Grants
  <1>o. \A t \in Tasks : Presented(t)' => Offered' = {<<t, session'.refresh>>}
    <2> SUFFICES ASSUME NEW t \in Tasks, Presented(t)'
                 PROVE Offered' = {<<t, session'.refresh>>}
      OBVIOUS
    <2>1. \A u \in Tasks : Presented(u)' <=> u = t
      BY DEF InFlight, RotationOwnsLock, Presented
    <2>2. rot'[t].grant = session'.refresh
      BY DEF InFlight, RotatesCurrentSession
    <2> QED
      BY <2>1, <2>2 DEF Offered
  <1> USE DEF Custody!MaybeGrants
  <1>1. CASE UNCHANGED <<session, disk, enroll, rot>>
    BY <1>1, SameOffered DEF Custody!vars
  <1>2. CASE Bootstrap
    <2>1. Offered = {} /\ Offered' = Offered
      BY <1>2, OfferedIs, SameOffered DEF Bootstrap, InFlight, DownIsIdle
    <2> QED
      BY <1>2, <1>g, <2>1 DEF Bootstrap, Custody!Next, Custody!Replace
  <1>3. ASSUME NEW c \in Callers, InvalidateAccess(c) PROVE [Custody!Next]_(Custody!vars)
    BY <1>3, <1>r, SameOffered, SessionUpdates DEF InvalidateAccess, Invalidated, Custody!vars
  <1>4. CASE Expire
    BY <1>4, <1>r, SameOffered, SessionUpdates DEF Expire, Custody!vars
  <1>5. ASSUME NEW t \in Tasks, RefreshAccess(t) PROVE [Custody!Next]_(Custody!vars)
    <2>1. Offered = {}
      BY <1>5, NoRotation, OfferedIs DEF RefreshAccess, InFlight
    <2>2. CASE rot' = rot
      BY <1>5, <1>1, <2>2 DEF RefreshAccess
    <2>3. CASE rot' = [rot EXCEPT ![t] = Sent(session.refresh, generation)] /\ Enrolled
      <3>1. Presented(t)'
        BY <2>3, <1>r, RotationEnds DEF Presented
      <3>2. Offered' = {<<t, session.refresh>>}
        BY <1>5, <1>o, <3>1 DEF RefreshAccess
      <3> QED
        BY <1>5, <2>1, <2>3, <3>2 DEF RefreshAccess, Enrolled, Custody!Next, Custody!Offer
    <2> QED
      BY <1>5, <2>2, <2>3 DEF RefreshAccess
  <1>6. ASSUME NEW t \in Tasks, BlinkAnswers(t) PROVE [Custody!Next]_(Custody!vars)
    <2>1. Offered = {<<t, session.refresh>>}
      BY <1>6, OfferedIs DEF BlinkAnswers, Presented
    <2>2. Presented(t)'
      <3>1. \A n : \A r \in RotationType : Became(r, "answered", n).phase = "answered"
              /\ Became(r, "transient", n).phase = "transient"
              /\ Became(r, "rejected", n).phase = "rejected"
        BY DEF Became, RotationType
      <3> QED
        BY <1>6, <1>r, <3>1 DEF BlinkAnswers, Presented
    <2>3. Offered' = {<<t, session.refresh>>}
      BY <1>6, <1>o, <2>2 DEF BlinkAnswers
    <2> QED
      BY <1>6, <2>1, <2>3 DEF BlinkAnswers, Custody!vars
  <1>7. ASSUME NEW t \in Tasks, StoreRotated(t) \/ RefreshFailed(t)
        PROVE [Custody!Next]_(Custody!vars)
    <2>1. Offered = {<<t, session.refresh>>}
      BY <1>7, OfferedIs DEF StoreRotated, RefreshFailed, Presented
    <2>2. \A u \in Tasks : rot[u].phase # "idle" => u = t
      BY <1>7 DEF StoreRotated, RefreshFailed, InFlight, RotationOwnsLock
    <2>3. rot'[t].phase \in {"idle", "stored"} /\ \A u \in Tasks : u # t => rot'[u] = rot[u]
      BY <1>7, <1>r, RotationEnds, RotationSteps DEF StoreRotated, RefreshFailed
    <2>4. Offered' = {}
      BY <2>2, <2>3 DEF Offered, Presented
    <2> QED
      BY <1>7, <1>g, <2>1, <2>4 DEF StoreRotated, RefreshFailed, Custody!Next, Custody!Settle
  <1>8. ASSUME NEW t \in Tasks, PersistRotated(t) PROVE [Custody!Next]_(Custody!vars)
    <2>1. Offered = {}
      BY <1>8, OfferedIs DEF PersistRotated
    <2>2. \A u \in Tasks : ~ Presented(u)'
      BY <1>8, <1>r, RotationEnds
         DEF PersistRotated, InFlight, RotationOwnsLock, Presented
    <2>3. Offered' = {}
      BY <2>2 DEF Offered
    <2>4. CASE disk' = disk
      BY <1>8, <2>1, <2>3, <2>4 DEF PersistRotated, Custody!vars
    <2>5. CASE disk' = session.refresh /\ Enrolled
      BY <1>8, <2>1, <2>3, <2>5 DEF PersistRotated, Enrolled, Custody!Next, Custody!Seal
    <2> QED
      BY <1>8, <2>4, <2>5 DEF PersistRotated, PersistOk, PersistFails, SaveOk, SaveFails
  <1>9. CASE RetryPersist \/ RetryPersistFails \/ ImportPersist
    <2>1. Offered = {} /\ Offered' = Offered
      BY <1>9, NoRotation, OfferedIs, SameOffered
         DEF RetryPersist, RetryPersistFails, ImportPersist, InFlight
    <2>2. UNCHANGED <<session, enroll>>
      BY <1>9 DEF RetryPersist, RetryPersistFails, ImportPersist
    <2>3. disk' = disk \/ (disk' = session.refresh /\ Enrolled)
      BY <1>9 DEF RetryPersist, RetryPersistFails, ImportPersist, PersistOk, PersistFails,
         SaveOk, SaveFails
    <2>4. CASE disk' = disk
      BY <2>1, <2>2, <2>4 DEF Custody!vars
    <2>5. CASE disk' = session.refresh /\ Enrolled
      BY <2>1, <2>2, <2>5 DEF Enrolled, Custody!Next, Custody!Seal
    <2> QED
      BY <2>3, <2>4, <2>5
  <1>10. CASE SignIn \/ EnrollDisconnect
    BY <1>10, <1>g, SameOffered DEF SignIn, EnrollDisconnect, Custody!Next, Custody!SignIn
  <1>11. CASE EnrollSave
    <2>1. Offered = {} /\ Offered' = Offered
      BY <1>11, NoRotation, OfferedIs, SameOffered DEF EnrollSave, InFlight
    <2>2. CASE disk' = enroll /\ enroll' \in {enroll, 0}
      BY <1>11, <2>1, <2>2 DEF EnrollSave, Custody!Next, Custody!Seal
    <2>3. CASE disk' = disk
      BY <1>11, <1>g, <2>1, <2>3 DEF EnrollSave, Custody!Next, Custody!SignIn
    <2> QED
      BY <1>11, <2>2, <2>3 DEF EnrollSave, SaveOk, SaveFails
  <1>12. CASE EnrollReplace \/ ImportTake \/ ImportReplace \/ ImportRestore
    <2>1. \A t \in Tasks : rot[t].phase = "idle"
      BY <1>12, NoRotation DEF EnrollReplace, ImportTake, ImportReplace, ImportRestore, InFlight
    <2>2. Offered = {} /\ Offered' = Offered
      BY <1>12, <2>1, OfferedIs, SameOffered
         DEF EnrollReplace, ImportTake, ImportReplace, ImportRestore
    <2>3. disk' = disk /\ enroll' \in {enroll, 0}
      BY <1>12 DEF EnrollReplace, ImportTake, ImportReplace, ImportRestore
    <2> QED
      BY <1>g, <2>2, <2>3 DEF Custody!Next, Custody!Replace
  <1>13. CASE Crash
    <2>1. Offered' = {}
      BY <1>13, RotationEnds DEF Crash, Offered, Presented
    <2>2. session'.refresh = 0
      BY <1>13 DEF Crash, NoSession, Loaded
    <2> QED
      BY <1>13, <2>1, <2>2 DEF Crash, Custody!Next, Custody!Restart
  <1>14. ASSUME NEW c \in Callers, Request(c) \/ Answered(c) \/ Cancel(c)
         PROVE [Custody!Next]_(Custody!vars)
    BY <1>14, <1>1 DEF Request, Answered, Cancel
  <1>15. ASSUME NEW t \in Tasks, Lookup(t) \/ Reread(t) PROVE [Custody!Next]_(Custody!vars)
    BY <1>15, <1>1 DEF Lookup, Reread
  <1>16. CASE CoolDown \/ ImportDisconnect \/ (\E kind \in Imports : ImportStart(kind)) \/ UNCHANGED vars
    BY <1>16, <1>1 DEF CoolDown, ImportDisconnect, ImportStart, vars
  <1> QED
    BY <1>2, <1>3, <1>4, <1>5, <1>6, <1>7, <1>8, <1>9, <1>10, <1>11, <1>12, <1>13, <1>14, <1>15,
       <1>16 DEF Next, Context, Rotate, Enroll, Import

(* The engine implements the abstract custody of the grant, whatever the    *)
(* number of requests, sign-ins, imports, crashes and failed writes.        *)
THEOREM ImplementsCustody == Spec => KeepsCustody
<1>1. Init => Custody!Init
  BY CustodyInit
<1>2. RangesOK /\ RangesOK' /\ InFlight /\ InFlight' /\ [Next]_vars => [Custody!Next]_(Custody!vars)
  BY CustodyStep
<1> QED
  BY <1>1, <1>2, InFlightAlways, PTL DEF Spec, KeepsCustody, Custody!Spec

-----------------------------------------------------------------------------
(* What a refusal of Blink proves.  The engine asks for a new sign-in only    *)
(* when Blink has rejected the grant in memory, and throws an access token   *)
(* away only when Blink has refused that token.                              *)
(*                                                                           *)
(* The argument is about which grants can be where.  Grants are numbered as  *)
(* Blink issues them, so a grant that is in memory, in the file or in flight *)
(* is not the next one to be issued ("GrantsAreIssued"); and the session an  *)
(* import puts back is never of the grant that is in memory then             *)
(* ("ImportIsNew"), because the imported grant and whatever it was rotated   *)
(* into are newer than the session that was taken away.                      *)

GrantsAreIssued ==
    /\ live \subseteq 0 .. issued
    /\ session.refresh \in 0 .. issued
    /\ disk \in 0 .. issued /\ enroll \in 0 .. issued
    /\ import.grant \in 0 .. issued /\ import.previous.refresh \in 0 .. issued
    /\ \A t \in Tasks : rot[t].grant \in 0 .. issued /\ rot[t].new \in 0 .. issued

(* What Blink has said stays true until the engine acts on it.              *)
Verdicts ==
    /\ \A t \in Tasks : rot[t].phase = "rejected" => rot[t].grant \notin live
    /\ \A t \in Tasks : rot[t].phase = "answered" => rot[t].new # 0
    /\ \A c \in Callers : pc[c] = "refused" => used[c] \in refused

(* Where there is no session.                                               *)
Empties ==
    /\ ~ up => session = NoSession /\ enroll = 0
    /\ pc[Importer] = "taken" => session = NoSession
    /\ lock = Enroller => enroll # 0
    /\ session.refresh = 0 => session.access = 0

(* The importer has replaced the session.                                   *)
After(p) == p \in PCs \ {"idle", "gone", "take", "taken"}
Arriving(g) == \E t \in Tasks : rot[t].phase = "answered" /\ rot[t].new = g
ImportIsNew ==
    /\ pc[Importer] = "take" =>
        import.grant # 0 /\ import.grant # session.refresh /\ import.grant # enroll
        /\ ~ Arriving(import.grant)
    /\ pc[Importer] = "taken" => import.grant # 0 /\ import.grant # import.previous.refresh
    /\ After(pc[Importer]) =>
        /\ import.generation <= generation
        /\ import.previous.refresh # 0 => ~ Arriving(import.previous.refresh)
        /\ generation = import.generation /\ import.previous.refresh # 0 =>
                session.refresh # import.previous.refresh

(* What an import that was answered has settled: no session of its own grant *)
(* reaches memory after the replacement, and while the one it put there is   *)
(* still there it has no access token.  So the import that returns its       *)
(* success finds another session, and the one that returns an error either   *)
(* does too or takes its own away.                                           *)
Standing(p) == After(p) \/ p \in {"taken", "idle"}
ImportSettles ==
    /\ ~ up => import.grant = 0
    /\ import.grant # 0 /\ Standing(pc[Importer]) =>
        /\ enroll # import.grant /\ ~ Arriving(import.grant)
        /\ import.previous.refresh # import.grant
    /\ import.grant # 0 /\ After(pc[Importer]) /\ session.refresh = import.grant =>
        session.access = 0 /\ generation = import.generation
    /\ import.grant # 0 /\ pc[Importer] \in {"persist", "idle"} =>
        session.refresh # import.grant

LEMMA Names ==
    /\ Importer \in Tasks /\ Callers \subseteq Tasks /\ Importer \notin Callers
    /\ "none" \notin Tasks /\ Enroller \notin Tasks /\ Enroller # "none"
  BY SessionAssumption DEF Tasks

LEMMA Sessions ==
    /\ NoSession.refresh = 0 /\ NoSession.access = 0
    /\ \A g : Loaded(g).refresh = g /\ Loaded(g).access = 0
    /\ \A g : Issued(g).refresh = g /\ Issued(g).access = g
  BY DEF NoSession, Loaded, Issued

(* The fields of a rotation's record after each of its steps.               *)
LEMMA RotationNews ==
    ASSUME NEW r \in RotationType
    PROVE /\ \A n \in 0 .. MaxGrant : Became(r, "answered", n).new = n
          /\ \A p \in {"transient", "rejected", "stored"} :
                /\ Became(r, p, r.new).new = r.new /\ Became(r, p, r.new).grant = r.grant
                /\ Became(r, p, r.new).phase = p
  BY DEF RotationType, Became

LEMMA RestingNews ==
    /\ Quiet.phase = "idle" /\ Quiet.grant = 0 /\ Quiet.new = 0
    /\ \A g, n : Sent(g, n).phase = "sent" /\ Sent(g, n).grant = g /\ Sent(g, n).new = 0
  BY DEF Quiet, Sent

-----------------------------------------------------------------------------
LEMMA GrantsUnchanged ==
    ASSUME GrantsAreIssued, UNCHANGED <<live, issued, import, rot>>,
           session'.refresh \in {0, session.refresh, disk, enroll, import.grant,
                                 import.previous.refresh},
           disk' \in {disk, enroll, session.refresh}, enroll' \in {0, enroll},
           issued \in Nat
    PROVE  GrantsAreIssued'
  <1>1. 0 \in 0 .. issued
    OBVIOUS
  <1> QED BY <1>1 DEF GrantsAreIssued

LEMMA GrantsStep == RangesOK /\ GrantsAreIssued /\ [Next]_vars => GrantsAreIssued'
  <1> SUFFICES ASSUME RangesOK, GrantsAreIssued, [Next]_vars PROVE GrantsAreIssued'
    OBVIOUS
  <1>r. /\ rot \in [Tasks -> RotationType] /\ session \in SessionType /\ import \in ImportType
        /\ issued \in Nat /\ 0 \in 0 .. issued
    BY DEF RangesOK
  <1>n. issued + 1 \in 0 .. issued + 1 /\ \A g \in 0 .. issued : g \in 0 .. issued + 1
    BY <1>r
  <1>1. CASE Bootstrap
    BY <1>1, <1>r, Sessions, GrantsUnchanged DEF Bootstrap, Replace
  <1>2. ASSUME NEW c \in Callers, Request(c) \/ Answered(c) \/ InvalidateAccess(c) \/ Cancel(c)
        PROVE  GrantsAreIssued'
    <2>1. session'.refresh = session.refresh
      BY <1>2, <1>r, SessionUpdates DEF Request, Answered, InvalidateAccess, Invalidated, Cancel
    <2> QED BY <1>2, <1>r, <2>1, GrantsUnchanged DEF Request, Answered, InvalidateAccess, Cancel
  <1>3. ASSUME NEW t \in Tasks, Context(t) PROVE GrantsAreIssued'
    <2>1. CASE rot' = rot
      BY <1>3, <1>r, <2>1, GrantsUnchanged DEF Context, Lookup, RefreshAccess, Reread
    <2>2. CASE RefreshAccess(t) /\ rot' = [rot EXCEPT ![t] = Sent(session.refresh, generation)]
      BY <1>r, <2>2, RestingNews DEF RefreshAccess, GrantsAreIssued
    <2> QED BY <1>3, <2>1, <2>2 DEF Context, Lookup, RefreshAccess, Reread
  <1>4. ASSUME NEW t \in Tasks, BlinkAnswers(t) PROVE GrantsAreIssued'
    <2>r. rot[t] \in RotationType
      BY <1>r
    <2>1. CASE issued' = issued /\ live' = live
      <3>1. PICK p \in {"transient", "rejected"} :
                rot' = [rot EXCEPT ![t] = Became(rot[t], p, rot[t].new)]
        BY <1>4, <1>r, <2>1 DEF BlinkAnswers
      <3>2. /\ Became(rot[t], p, rot[t].new).grant = rot[t].grant
            /\ Became(rot[t], p, rot[t].new).new = rot[t].new
        BY <2>r, RotationNews
      <3> QED BY <1>4, <1>r, <2>1, <3>1, <3>2 DEF BlinkAnswers, GrantsAreIssued
    <2>2. CASE /\ issued < MaxGrant /\ issued' = issued + 1
               /\ live' = (live \ {rot[t].grant}) \cup {issued + 1}
               /\ rot' = [rot EXCEPT ![t] = Became(rot[t], "answered", issued + 1)]
      <3>1. issued + 1 \in 0 .. MaxGrant
        BY <2>2, <1>r, SessionAssumption
      <3>2. /\ Became(rot[t], "answered", issued + 1).grant = rot[t].grant
            /\ Became(rot[t], "answered", issued + 1).new = issued + 1
        BY <2>r, <3>1, RotationNews, RotationSteps
      <3> QED BY <1>4, <1>r, <1>n, <2>2, <3>2 DEF BlinkAnswers, GrantsAreIssued
    <2>3. CASE issued' = issued + 1 /\ live' = (live \ {rot[t].grant}) \cup {issued + 1}
               /\ rot' = [rot EXCEPT ![t] = Became(rot[t], "transient", rot[t].new)]
      <3>1. /\ Became(rot[t], "transient", rot[t].new).grant = rot[t].grant
            /\ Became(rot[t], "transient", rot[t].new).new = rot[t].new
        BY <2>r, RotationNews
      <3> QED BY <1>4, <1>r, <1>n, <2>3, <3>1 DEF BlinkAnswers, GrantsAreIssued
    <2> QED BY <1>4, <1>r, <2>1, <2>2, <2>3 DEF BlinkAnswers
  <1>5. ASSUME NEW t \in Tasks, StoreRotated(t) \/ PersistRotated(t) \/ RefreshFailed(t)
        PROVE  GrantsAreIssued'
    <2>r. rot[t] \in RotationType
      BY <1>r
    <2>1. /\ UNCHANGED <<live, issued, import, enroll>>
          /\ session'.refresh \in {session.refresh, rot[t].new}
          /\ disk' \in {disk, session.refresh}
      BY <1>5, Sessions DEF StoreRotated, PersistRotated, PersistOk, PersistFails, SaveOk, SaveFails,
         RefreshFailed
    <2>2. PICK r \in {Quiet, Became(rot[t], "stored", rot[t].new)} : rot' = [rot EXCEPT ![t] = r]
      BY <1>5, <1>r DEF StoreRotated, PersistRotated, RefreshFailed
    <2>3. r.grant \in {0, rot[t].grant} /\ r.new \in {0, rot[t].new}
      BY <2>r, RestingNews, RotationNews
    <2> QED BY <1>r, <2>1, <2>2, <2>3 DEF GrantsAreIssued
  <1>6. CASE Expire \/ CoolDown \/ RetryPersist \/ RetryPersistFails
    <2>1. session'.refresh = session.refresh
      BY <1>6, <1>r, SessionUpdates DEF Expire, CoolDown, RetryPersist, RetryPersistFails
    <2> QED BY <1>6, <1>r, <2>1, GrantsUnchanged
            DEF Expire, CoolDown, RetryPersist, RetryPersistFails, SaveOk, SaveFails
  <1>7. CASE SignIn
    BY <1>7, <1>r, <1>n DEF SignIn, GrantsAreIssued
  <1>8. CASE EnrollSave \/ EnrollReplace \/ EnrollDisconnect
    BY <1>8, <1>r, Sessions, GrantsUnchanged
       DEF EnrollSave, SaveOk, SaveFails, EnrollReplace, Replace, EnrollDisconnect
  <1>9. ASSUME NEW kind \in Imports, ImportStart(kind) PROVE GrantsAreIssued'
    <2>1. /\ import'.grant = issued + 1 /\ import'.previous.refresh = 0 /\ 0 \in 0 .. issued + 1
      BY <1>9, <1>r, Sessions DEF ImportStart, NoImport
    <2> QED BY <1>9, <1>r, <1>n, <2>1 DEF ImportStart, GrantsAreIssued
  <1>10. CASE ImportTake
    <2>1. import'.grant = import.grant /\ import'.previous = session
      BY <1>10, <1>r DEF ImportTake, ImportType
    <2> QED BY <1>10, <1>r, <2>1, Sessions DEF ImportTake, GrantsAreIssued
  <1>11. CASE ImportReplace
    <2>1. import'.grant = import.grant /\ import'.previous = import.previous
      BY <1>11, <1>r DEF ImportReplace, ImportType
    <2> QED BY <1>11, <1>r, <2>1, Sessions DEF ImportReplace, Replace, GrantsAreIssued
  <1>12. CASE ImportPersist \/ ImportRestore \/ ImportDisconnect
    BY <1>12, <1>r, Sessions, GrantsUnchanged
       DEF ImportPersist, PersistOk, PersistFails, SaveOk, SaveFails, ImportRestore, RestorePrevious,
           Replace, ImportDisconnect
  <1>13. CASE Crash
    <2>1. NoImport.grant = 0 /\ NoImport.previous.refresh = 0
      BY Sessions DEF NoImport
    <2> QED BY <1>13, <1>r, <2>1, Sessions, RestingNews DEF Crash, GrantsAreIssued
  <1>14. CASE UNCHANGED vars
    BY <1>14 DEF vars, GrantsAreIssued
  <1> QED BY <1>1, <1>2, <1>3, <1>4, <1>5, <1>6, <1>7, <1>8, <1>9, <1>10, <1>11, <1>12, <1>13,
             <1>14 DEF Next, Rotate, Enroll, Import

-----------------------------------------------------------------------------
(* Only new grants become live, only the refusals already seen stay.         *)
LEMMA VerdictsUnchanged ==
    ASSUME RangesOK, GrantsAreIssued, Verdicts, rot' = rot, refused \subseteq refused', used' = used,
           live' \subseteq live \cup {issued + 1},
           \A c \in Callers : pc'[c] = "refused" => pc[c] = "refused"
    PROVE  Verdicts'
  <1>1. \A t \in Tasks : rot[t].grant # issued + 1
    BY DEF GrantsAreIssued, RangesOK
  <1> QED BY <1>1 DEF Verdicts

LEMMA VerdictsStep ==
    RangesOK /\ GrantsAreIssued /\ Verdicts /\ InFlight /\ [Next]_vars => Verdicts'
  <1> SUFFICES ASSUME RangesOK, GrantsAreIssued, Verdicts, InFlight, [Next]_vars PROVE Verdicts'
    OBVIOUS
  <1> USE Names
  <1>r. /\ rot \in [Tasks -> RotationType] /\ pc \in [Tasks -> PCs] /\ issued \in Nat
        /\ used \in [Tasks -> 0 .. MaxGrant]
    BY DEF RangesOK
  <1>1. CASE \/ Bootstrap \/ Expire \/ CoolDown \/ RetryPersist \/ RetryPersistFails
             \/ Enroll \/ UNCHANGED vars
    BY <1>1, <1>r, VerdictsUnchanged
       DEF Bootstrap, Expire, CoolDown, RetryPersist, RetryPersistFails, Enroll, SignIn, EnrollSave,
           EnrollReplace, EnrollDisconnect, vars
  <1>2. CASE Import
    BY <1>2, <1>r, VerdictsUnchanged
       DEF Import, ImportStart, ImportTake, ImportReplace, ImportPersist, ImportRestore, ImportDisconnect
  <1>3. ASSUME NEW c \in Callers, Request(c) \/ InvalidateAccess(c) \/ Cancel(c) PROVE Verdicts'
    BY <1>3, <1>r, VerdictsUnchanged DEF Request, InvalidateAccess, Cancel
  <1>4. ASSUME NEW c \in Callers, Answered(c) PROVE Verdicts'
    BY <1>4, <1>r DEF Answered, Verdicts
  <1>5. ASSUME NEW t \in Tasks, Lookup(t) \/ Reread(t) PROVE Verdicts'
    <2>1. \A c \in Callers : pc'[c] = "refused" => pc[c] = "refused" /\ used'[c] = used[c]
      BY <1>5, <1>r DEF Lookup, Reread, Failed, Ready
    <2> QED BY <1>5, <2>1 DEF Lookup, Reread, Verdicts
  <1>6. ASSUME NEW t \in Tasks, RefreshAccess(t) PROVE Verdicts'
    <2>1. CASE rot' = rot
      BY <1>6, <1>r, <2>1, VerdictsUnchanged DEF RefreshAccess, Failed
    <2>2. CASE /\ pc' = [pc EXCEPT ![t] = "rotating"]
               /\ rot' = [rot EXCEPT ![t] = Sent(session.refresh, generation)]
      BY <1>6, <1>r, <2>2, RestingNews DEF RefreshAccess, Verdicts
    <2> QED BY <1>6, <2>1, <2>2 DEF RefreshAccess
  <1>7. ASSUME NEW t \in Tasks, BlinkAnswers(t) PROVE Verdicts'
    <2>1. rot[t] \in RotationType /\ \A u \in Tasks : u # t => rot[u].phase = "idle"
      BY <1>7, <1>r DEF BlinkAnswers, InFlight, RotationOwnsLock
    <2>2. \A c \in Callers : pc'[c] = "refused" => used'[c] \in refused'
      BY <1>7 DEF BlinkAnswers, Verdicts
    <2>3. CASE rot' = [rot EXCEPT ![t] = Became(rot[t], "transient", rot[t].new)]
      <3>1. Became(rot[t], "transient", rot[t].new).phase = "transient"
        BY <2>1, RotationNews
      <3> QED BY <1>r, <2>1, <2>2, <2>3, <3>1 DEF Verdicts
    <2>4. CASE /\ rot[t].grant \notin live /\ live' = live
               /\ rot' = [rot EXCEPT ![t] = Became(rot[t], "rejected", rot[t].new)]
      <3>1. /\ Became(rot[t], "rejected", rot[t].new).phase = "rejected"
            /\ Became(rot[t], "rejected", rot[t].new).grant = rot[t].grant
        BY <2>1, RotationNews
      <3> QED BY <1>r, <2>1, <2>2, <2>4, <3>1 DEF Verdicts
    <2>5. CASE issued < MaxGrant /\ rot' = [rot EXCEPT ![t] = Became(rot[t], "answered", issued + 1)]
      <3>1. issued + 1 \in 0 .. MaxGrant /\ issued + 1 # 0
        BY <2>5, <1>r, SessionAssumption
      <3>2. /\ Became(rot[t], "answered", issued + 1).phase = "answered"
            /\ Became(rot[t], "answered", issued + 1).new = issued + 1
        BY <2>1, <3>1, RotationNews, RotationSteps
      <3> QED BY <1>r, <2>1, <2>2, <2>5, <3>1, <3>2 DEF Verdicts
    <2> QED BY <1>7, <2>3, <2>4, <2>5 DEF BlinkAnswers
  <1>8. ASSUME NEW t \in Tasks, StoreRotated(t) \/ PersistRotated(t) \/ RefreshFailed(t)
        PROVE  Verdicts'
    <2>1. PICK r \in {Quiet, Became(rot[t], "stored", rot[t].new)} : rot' = [rot EXCEPT ![t] = r]
      BY <1>8 DEF StoreRotated, PersistRotated, RefreshFailed
    <2>2. r.phase \in {"idle", "stored"}
      BY <1>r, RestingNews, RotationNews
    <2>3. /\ \A c \in Callers : pc'[c] = "refused" => pc[c] = "refused"
          /\ UNCHANGED <<live, refused, used>>
      BY <1>8, <1>r DEF StoreRotated, PersistRotated, RefreshFailed, Failed
    <2> QED BY <1>r, <2>1, <2>2, <2>3 DEF Verdicts
  <1>9. CASE Crash
    BY <1>9, RestingNews DEF Crash, Verdicts
  <1> QED BY <1>1, <1>2, <1>3, <1>4, <1>5, <1>6, <1>7, <1>8, <1>9 DEF Next, Context, Rotate

-----------------------------------------------------------------------------
(* A sign-in is asked for only after a rejection.                            *)
LEMMA ReauthUnchanged ==
    ASSUME RangesOK, GrantsAreIssued, ReauthMeansRefused,
           reauth' => reauth, session'.refresh \in {0, session.refresh},
           live' \subseteq live \cup {issued + 1}
    PROVE  ReauthMeansRefused'
  <1>1. session.refresh # issued + 1
    BY DEF GrantsAreIssued, RangesOK
  <1> QED BY <1>1 DEF ReauthMeansRefused, Enrolled

LEMMA ReauthStep ==
    RangesOK /\ FlagsOK /\ GrantsAreIssued /\ Verdicts /\ InFlight /\ ReauthMeansRefused /\ [Next]_vars
        => ReauthMeansRefused'
  <1> SUFFICES ASSUME RangesOK, FlagsOK, GrantsAreIssued, Verdicts, InFlight, ReauthMeansRefused, [Next]_vars
               PROVE  ReauthMeansRefused'
    OBVIOUS
  <1>r. session \in SessionType /\ reauth \in BOOLEAN
    BY DEF RangesOK, FlagsOK
  <1>0. ASSUME reauth' = FALSE PROVE ReauthMeansRefused'
    BY <1>0 DEF ReauthMeansRefused
  <1>1. CASE Bootstrap
    <2>1. CASE reauth' = reauth /\ session' = session
      BY <1>1, <2>1, ReauthUnchanged DEF Bootstrap
    <2> QED BY <1>0, <1>1, <2>1 DEF Bootstrap, Replace
  <1>2. ASSUME NEW c \in Callers, Request(c) \/ Answered(c) \/ InvalidateAccess(c) \/ Cancel(c)
        PROVE  ReauthMeansRefused'
    <2>1. session'.refresh = session.refresh
      BY <1>2, <1>r, SessionUpdates DEF Request, Answered, InvalidateAccess, Invalidated, Cancel
    <2> QED BY <1>2, <2>1, ReauthUnchanged DEF Request, Answered, InvalidateAccess, Cancel
  <1>3. ASSUME NEW t \in Tasks, Context(t) PROVE ReauthMeansRefused'
    BY <1>3, ReauthUnchanged DEF Context, Lookup, RefreshAccess, Reread
  <1>4. ASSUME NEW t \in Tasks, BlinkAnswers(t) PROVE ReauthMeansRefused'
    BY <1>4, ReauthUnchanged DEF BlinkAnswers
  <1>5. ASSUME NEW t \in Tasks, StoreRotated(t) \/ PersistRotated(t) PROVE ReauthMeansRefused'
    <2>1. CASE reauth' = reauth /\ session' = session
      BY <1>5, <2>1, ReauthUnchanged DEF StoreRotated, PersistRotated
    <2> QED BY <1>0, <1>5, <2>1 DEF StoreRotated, PersistRotated
  <1>6. ASSUME NEW t \in Tasks, RefreshFailed(t) PROVE ReauthMeansRefused'
    <2>1. CASE rot[t].phase = "transient"
      BY <1>6, <2>1, ReauthUnchanged DEF RefreshFailed, Rejected
    <2>2. CASE rot[t].phase = "rejected"
      <3>1. session.refresh \notin live
        BY <2>2 DEF InFlight, RotatesCurrentSession, Presented, Verdicts
      <3> QED BY <1>6, <3>1 DEF RefreshFailed, ReauthMeansRefused
    <2> QED BY <1>6, <2>1, <2>2 DEF RefreshFailed
  <1>7. CASE Expire \/ CoolDown \/ RetryPersist \/ RetryPersistFails \/ UNCHANGED vars
    <2>1. session'.refresh = session.refresh
      BY <1>7, <1>r, SessionUpdates DEF Expire, CoolDown, RetryPersist, RetryPersistFails, vars
    <2> QED BY <1>7, <2>1, ReauthUnchanged DEF Expire, CoolDown, RetryPersist, RetryPersistFails, vars
  <1>8. CASE SignIn \/ EnrollSave \/ EnrollDisconnect
    BY <1>8, ReauthUnchanged DEF SignIn, EnrollSave, EnrollDisconnect
  <1>9. CASE EnrollReplace \/ ImportReplace \/ Crash
    BY <1>0, <1>9 DEF EnrollReplace, ImportReplace, Replace, Crash
  <1>10. ASSUME NEW kind \in Imports, ImportStart(kind) PROVE ReauthMeansRefused'
    BY <1>10, ReauthUnchanged DEF ImportStart
  <1>11. CASE ImportTake \/ ImportPersist \/ ImportDisconnect
    BY <1>11, Sessions, ReauthUnchanged DEF ImportTake, ImportPersist, ImportDisconnect
  <1>12. CASE ImportRestore
    <2>1. CASE reauth' = reauth /\ session' \in {session, NoSession}
      BY <1>12, <2>1, Sessions, ReauthUnchanged DEF ImportRestore
    <2> QED BY <1>0, <1>12, <2>1 DEF ImportRestore, RestorePrevious, Replace
  <1> QED BY <1>1, <1>2, <1>3, <1>4, <1>5, <1>6, <1>7, <1>8, <1>9, <1>10, <1>11, <1>12
          DEF Next, Rotate, Enroll, Import

-----------------------------------------------------------------------------
(* A step that leaves the session, the lock and the import's position.       *)
LEMMA EmptiesUnchanged ==
    ASSUME Empties, up' = up, session' = session,
           lock' = Enroller => enroll' = enroll /\ lock = Enroller,
           up \/ enroll' = enroll,
           pc'[Importer] = "taken" => pc[Importer] = "taken"
    PROVE  Empties'
  BY DEF Empties

LEMMA EmptiesStep ==
    RangesOK /\ FlagsOK /\ GrantsAreIssued /\ Verdicts /\ InFlight /\ Empties /\ [Next]_vars
        => Empties'
  <1> SUFFICES ASSUME RangesOK, FlagsOK, GrantsAreIssued, Verdicts, InFlight, Empties, [Next]_vars
               PROVE  Empties'
    OBVIOUS
  <1> USE Names
  <1>r. /\ pc \in [Tasks -> PCs] /\ session \in SessionType
        /\ issued \in Nat /\ enroll \in 0 .. issued
    BY DEF RangesOK, GrantsAreIssued
  <1>d. ~ up => \A t \in Tasks : rot[t].phase = "idle" /\ pc[t] = "idle"
    BY DEF InFlight, DownIsIdle
  <1>t. pc[Importer] = "taken" => lock = Importer /\ \A t \in Tasks : rot[t].phase = "idle"
    BY DEF InFlight, TakenOwnsLock, RotationOwnsLock
  <1>1. CASE Bootstrap
    BY <1>1, <1>d, Sessions DEF Bootstrap, Replace, Empties
  <1>2. ASSUME NEW c \in Callers, Request(c) \/ Answered(c) \/ Cancel(c) PROVE Empties'
    BY <1>2, <1>r, EmptiesUnchanged DEF Request, Answered, Cancel
  <1>3. ASSUME NEW c \in Callers, InvalidateAccess(c) PROVE Empties'
    <2>1. session'.refresh = session.refresh /\ (session.access = 0 => session' = session)
          /\ (session'.access = 0 \/ session' = session)
      BY <1>3, <1>r, SessionUpdates DEF InvalidateAccess, Invalidated, SessionType
    <2>2. pc'[Importer] = pc[Importer] /\ UNCHANGED <<up, enroll, lock>>
      BY <1>3, <1>r DEF InvalidateAccess
    <2> QED BY <2>1, <2>2, Sessions DEF Empties
  <1>4. ASSUME NEW t \in Tasks, Context(t) PROVE Empties'
    BY <1>4, <1>r, EmptiesUnchanged DEF Context, Lookup, RefreshAccess, Reread, Failed, Ready
  <1>5. ASSUME NEW t \in Tasks, StoreRotated(t) PROVE Empties'
    <2>1. CASE session' = session
      BY <1>5, <1>r, <2>1, EmptiesUnchanged DEF StoreRotated, ReleaseCredentialLock
    <2>2. CASE session' = Issued(rot[t].new)
      <3>1. rot[t].new # 0 /\ up /\ pc[Importer] # "taken"
        BY <1>5, <1>d, <1>t DEF StoreRotated, Verdicts
      <3>2. pc'[Importer] # "taken" /\ (lock' = Enroller => lock = Enroller)
        BY <1>5, <1>r, <3>1 DEF StoreRotated, ReleaseCredentialLock
      <3> QED BY <1>5, <2>2, <3>1, <3>2, Sessions DEF StoreRotated, Empties
    <2> QED BY <1>5, <2>1, <2>2 DEF StoreRotated
  <1>6. ASSUME NEW t \in Tasks, BlinkAnswers(t) \/ PersistRotated(t) \/ RefreshFailed(t)
        PROVE  Empties'
    BY <1>6, <1>r, EmptiesUnchanged
       DEF BlinkAnswers, PersistRotated, RefreshFailed, ReleaseCredentialLock, Failed
  <1>7. CASE Expire
    <2>1. session'.refresh = session.refresh /\ session'.access = session.access
      BY <1>7, <1>r DEF Expire, SessionType
    <2>2. session # NoSession
      BY <1>7 DEF Expire, NoSession, Loaded
    <2> QED BY <1>7, <2>1, <2>2 DEF Expire, Empties
  <1>8. CASE CoolDown \/ RetryPersist \/ RetryPersistFails \/ UNCHANGED vars
    BY <1>8, EmptiesUnchanged DEF CoolDown, RetryPersist, RetryPersistFails, vars
  <1>9. CASE SignIn
    <2>1. enroll' # 0
      BY <1>9, <1>r DEF SignIn
    <2> QED BY <1>9, <2>1 DEF SignIn, Empties
  <1>10. CASE EnrollSave \/ EnrollDisconnect
    <2>1. enroll # 0 /\ up
      BY <1>10 DEF EnrollSave, EnrollDisconnect, Empties
    <2> QED BY <1>10, <2>1 DEF EnrollSave, EnrollDisconnect, Empties, CredentialLockFree
  <1>11. CASE EnrollReplace
    <2>1. enroll # 0 /\ up /\ pc[Importer] # "taken"
      BY <1>11, <1>t DEF EnrollReplace, Empties
    <2> QED BY <1>11, <2>1, Sessions DEF EnrollReplace, Replace, ReleaseCredentialLock, Empties
  <1>12. ASSUME NEW kind \in Imports, ImportStart(kind) PROVE Empties'
    BY <1>12, <1>r, EmptiesUnchanged DEF ImportStart
  <1>13. CASE ImportTake
    BY <1>13, <1>r, Sessions DEF ImportTake, Empties
  <1>14. CASE ImportReplace
    <2>1. up /\ pc'[Importer] = "context"
      BY <1>14, <1>d, <1>r DEF ImportReplace
    <2> QED BY <1>14, <2>1, Sessions DEF ImportReplace, Replace, ReleaseCredentialLock, Empties
  <1>15. CASE ImportPersist \/ ImportDisconnect
    BY <1>15, <1>r, EmptiesUnchanged DEF ImportPersist, ImportDisconnect
  <1>16. CASE ImportRestore
    <2>1. up /\ pc'[Importer] = "idle"
      BY <1>16, <1>d, <1>r DEF ImportRestore
    <2>2. session' \in {session, NoSession} \/ session'.refresh # 0
      BY <1>16 DEF ImportRestore, RestorePrevious, Replace
    <2> QED BY <1>16, <2>1, <2>2, Sessions DEF ImportRestore, Empties
  <1>17. CASE Crash
    BY <1>17, Sessions DEF Crash, Empties
  <1> QED BY <1>1, <1>2, <1>3, <1>4, <1>5, <1>6, <1>7, <1>8, <1>9, <1>10, <1>11, <1>12, <1>13, <1>14,
             <1>15, <1>16, <1>17 DEF Next, Rotate, Enroll, Import

-----------------------------------------------------------------------------
(* Nothing arrives that Blink has not just issued.                           *)
LEMMA ArrivingUnchanged ==
    ASSUME NEW g, \A t \in Tasks : rot'[t].phase = "answered" =>
                    \/ rot[t].phase = "answered" /\ rot'[t].new = rot[t].new
                    \/ rot'[t].new # g
    PROVE  Arriving(g)' => Arriving(g)
  BY DEF Arriving

LEMMA ArrivingAnswers ==
    ASSUME RangesOK, NEW t \in Tasks, BlinkAnswers(t)
    PROVE  \A g : Arriving(g)' => Arriving(g) \/ g = issued + 1
  <1>r. rot \in [Tasks -> RotationType] /\ rot[t] \in RotationType /\ issued \in Nat
    BY DEF RangesOK
  <1>1. CASE issued < MaxGrant /\ rot' = [rot EXCEPT ![t] = Became(rot[t], "answered", issued + 1)]
    <2>1. issued + 1 \in 0 .. MaxGrant
      BY <1>1, <1>r, SessionAssumption
    <2>2. Became(rot[t], "answered", issued + 1).new = issued + 1
      BY <1>r, <2>1, RotationNews
    <2> QED BY <1>r, <1>1, <2>2, ArrivingUnchanged
  <1>2. ASSUME NEW p \in {"transient", "rejected"},
               rot' = [rot EXCEPT ![t] = Became(rot[t], p, rot[t].new)]
        PROVE  \A g : Arriving(g)' => Arriving(g)
    <2>1. Became(rot[t], p, rot[t].new).phase # "answered"
      BY <1>r, RotationNews
    <2> QED BY <1>r, <1>2, <2>1, ArrivingUnchanged
  <1> QED BY <1>1, <1>2 DEF BlinkAnswers

(* A step of anyone but the import that leaves generation and session alone, *)
(* or replaces the session by one of a grant on its way.                     *)
LEMMA ImportUnchanged ==
    ASSUME RangesOK, GrantsAreIssued, ImportIsNew, import' = import,
           pc'[Importer] \in {"take", "taken"} => pc'[Importer] = pc[Importer],
           After(pc'[Importer]) => After(pc[Importer]),
           \/ session'.refresh = session.refresh /\ generation' = generation
           \/ session'.refresh = 0 /\ generation' = generation
           \/ Arriving(session'.refresh) /\ generation' = generation
           \/ session'.refresh = enroll /\ generation' = generation + 1,
           enroll' \in {0, enroll, issued + 1},
           \A g : Arriving(g)' => Arriving(g) \/ g = issued + 1
    PROVE  ImportIsNew'
  <1>1. /\ import.grant # issued + 1 /\ import.previous.refresh # issued + 1
        /\ generation \in Nat /\ import.generation \in Nat
    BY DEF GrantsAreIssued, RangesOK, ImportType
  <1>2. import.grant # 0 /\ ~ Arriving(import.grant) => ~ Arriving(import.grant)'
    BY <1>1
  <1>3. ~ Arriving(import.previous.refresh) => ~ Arriving(import.previous.refresh)'
    BY <1>1
  <1>4. CASE pc'[Importer] = "take"
    BY <1>1, <1>2, <1>4 DEF ImportIsNew, After
  <1>5. CASE pc'[Importer] = "taken"
    BY <1>5 DEF ImportIsNew, After
  <1>6. CASE After(pc'[Importer])
    BY <1>1, <1>3, <1>6 DEF ImportIsNew, After
  <1>7. CASE pc'[Importer] \notin {"take", "taken"} /\ ~ After(pc'[Importer])
    BY <1>7 DEF ImportIsNew
  <1> QED BY <1>4, <1>5, <1>6, <1>7

LEMMA ImportStep ==
    RangesOK /\ FlagsOK /\ GrantsAreIssued /\ InFlight /\ ImportIsNew /\ [Next]_vars => ImportIsNew'
  <1> SUFFICES ASSUME RangesOK, FlagsOK, GrantsAreIssued, InFlight, ImportIsNew, [Next]_vars
               PROVE  ImportIsNew'
    OBVIOUS
  <1> USE Names
  <1>r. /\ pc \in [Tasks -> PCs] /\ session \in SessionType /\ rot \in [Tasks -> RotationType]
        /\ import \in ImportType /\ generation \in Nat /\ issued \in Nat
    BY DEF RangesOK
  <1>a. rot' = rot => \A g : Arriving(g)' => Arriving(g)
    BY ArrivingUnchanged
  <1>1. CASE Bootstrap
    BY <1>1 DEF InFlight, DownIsIdle, Bootstrap, ImportIsNew, After
  <1>2. ASSUME NEW c \in Callers, Request(c) \/ Answered(c) \/ InvalidateAccess(c) \/ Cancel(c)
        PROVE  ImportIsNew'
    <2>1. session'.refresh = session.refresh
      BY <1>2, <1>r, SessionUpdates DEF Request, Answered, InvalidateAccess, Invalidated, Cancel
    <2>2. pc'[Importer] = pc[Importer] /\ UNCHANGED <<import, generation, enroll, rot>>
      BY <1>2, <1>r DEF Request, Answered, InvalidateAccess, Cancel
    <2> QED BY <1>a, <2>1, <2>2, ImportUnchanged
  <1>3. ASSUME NEW t \in Tasks, Context(t) PROVE ImportIsNew'
    <2>1. \A g : Arriving(g)' => Arriving(g)
      <3>1. CASE rot' = rot
        BY <1>a, <3>1
      <3>2. CASE rot' = [rot EXCEPT ![t] = Sent(session.refresh, generation)]
        BY <1>r, <3>2, RestingNews, ArrivingUnchanged
      <3> QED BY <1>3, <3>1, <3>2 DEF Context, Lookup, RefreshAccess, Reread
    <2>2. pc'[Importer] = pc[Importer]
          \/ (After(pc[Importer]) /\ pc'[Importer] \notin {"take", "taken"})
      BY <1>3, <1>r DEF Context, Lookup, RefreshAccess, Reread, Failed, Ready, After, PCs
    <2> QED BY <1>3, <2>1, <2>2, ImportUnchanged DEF Context, Lookup, RefreshAccess, Reread
  <1>4. ASSUME NEW t \in Tasks, BlinkAnswers(t) PROVE ImportIsNew'
    <2>1. \A g : Arriving(g)' => Arriving(g) \/ g = issued + 1
      BY <1>4, ArrivingAnswers
    <2> QED BY <1>4, <2>1, ImportUnchanged DEF BlinkAnswers
  <1>5. ASSUME NEW t \in Tasks, StoreRotated(t) \/ PersistRotated(t) \/ RefreshFailed(t)
        PROVE  ImportIsNew'
    <2>r. rot[t] \in RotationType
      BY <1>r
    <2>1. PICK r \in {Quiet, Became(rot[t], "stored", rot[t].new)} : rot' = [rot EXCEPT ![t] = r]
      BY <1>5 DEF StoreRotated, PersistRotated, RefreshFailed
    <2>2. r.phase # "answered"
      BY <2>r, RestingNews, RotationNews
    <2>3. \A g : Arriving(g)' => Arriving(g)
      BY <1>r, <2>1, <2>2, ArrivingUnchanged
    <2>4. session' = session \/ Arriving(session'.refresh)
      BY <1>5, Sessions DEF StoreRotated, PersistRotated, RefreshFailed, Arriving
    <2>5. pc'[Importer] = pc[Importer]
          \/ (After(pc[Importer]) /\ pc'[Importer] \notin {"take", "taken"})
      BY <1>5, <1>r DEF StoreRotated, PersistRotated, RefreshFailed, Failed, After, PCs
    <2>6. UNCHANGED <<import, generation, enroll>>
      BY <1>5 DEF StoreRotated, PersistRotated, RefreshFailed
    <2> QED BY <2>3, <2>4, <2>5, <2>6, ImportUnchanged
  <1>6. CASE Expire \/ CoolDown \/ RetryPersist \/ RetryPersistFails \/ UNCHANGED vars
    <2>1. session'.refresh = session.refresh
      BY <1>6, <1>r, SessionUpdates DEF Expire, CoolDown, RetryPersist, RetryPersistFails, vars
    <2>2. UNCHANGED <<pc, import, generation, enroll, rot>>
      BY <1>6 DEF Expire, CoolDown, RetryPersist, RetryPersistFails, vars
    <2> QED BY <1>a, <2>1, <2>2, ImportUnchanged
  <1>7. CASE SignIn \/ EnrollSave \/ EnrollDisconnect
    BY <1>7, <1>a, ImportUnchanged DEF SignIn, EnrollSave, EnrollDisconnect
  <1>8. CASE EnrollReplace
    BY <1>8, <1>a, Sessions, ImportUnchanged DEF EnrollReplace, Replace
  <1>9. ASSUME NEW kind \in Imports, ImportStart(kind) PROVE ImportIsNew'
    <2>1. import'.grant = issued + 1 /\ pc'[Importer] = "take" /\ UNCHANGED <<session, enroll, rot>>
      BY <1>9, <1>r DEF ImportStart, NoImport
    <2>2. /\ ~ Arriving(issued + 1)
          /\ issued + 1 # session.refresh /\ issued + 1 # enroll /\ issued + 1 # 0
      BY <1>r DEF GrantsAreIssued, Arriving
    <2>3. \A t \in Tasks : rot'[t].phase = "answered" => rot'[t].new # import'.grant
      BY <2>1, <2>2 DEF Arriving
    <2> QED BY <2>1, <2>2, <2>3 DEF ImportIsNew, After, Arriving
  <1>10. CASE ImportTake
    <2>1. import'.grant = import.grant /\ import'.previous = session /\ pc'[Importer] = "taken"
      BY <1>10, <1>r DEF ImportTake, ImportType
    <2> QED BY <1>10, <2>1 DEF ImportTake, ImportIsNew, After
  <1>11. CASE ImportReplace
    <2>1. /\ import'.grant = import.grant /\ import'.previous = import.previous
          /\ import'.generation = generation + 1 /\ generation' = generation + 1
          /\ session'.refresh = import.grant /\ pc'[Importer] = "context" /\ rot' = rot
      BY <1>11, <1>r, Sessions DEF ImportReplace, Replace, ImportType
    <2>2. \A t \in Tasks : rot'[t].phase = "idle"
      BY <1>11, <2>1 DEF ImportReplace, InFlight, TakenOwnsLock, RotationOwnsLock
    <2>3. ~ Arriving(import.previous.refresh)'
      BY <2>2 DEF Arriving
    <2>4. import'.generation <= generation'
      BY <1>r, <2>1
    <2> QED BY <1>11, <2>1, <2>3, <2>4 DEF ImportReplace, ImportIsNew, After
  <1>12. CASE ImportPersist \/ ImportRestore \/ ImportDisconnect
    <2>1. pc'[Importer] \in {"idle", "gone"}
      BY <1>12, <1>r DEF ImportPersist, ImportRestore, ImportDisconnect
    <2> QED BY <2>1 DEF ImportIsNew, After
  <1>13. CASE Crash
    <2>1. pc'[Importer] = "idle"
      BY <1>13 DEF Crash
    <2> QED BY <2>1 DEF ImportIsNew, After
  <1> QED BY <1>1, <1>2, <1>3, <1>4, <1>5, <1>6, <1>7, <1>8, <1>9, <1>10, <1>11, <1>12, <1>13
          DEF Next, Rotate, Enroll, Import

-----------------------------------------------------------------------------
(* A step of anyone but the import, or of its context().                     *)
LEMMA SettlesUnchanged ==
    ASSUME RangesOK, GrantsAreIssued, ImportSettles, UNCHANGED <<import, up>>,
           \/ pc'[Importer] = pc[Importer]
           \/ /\ After(pc[Importer]) /\ After(pc'[Importer])
              /\ pc'[Importer] = "persist" => session.access # 0 /\ session' = session,
           \/ /\ session'.refresh = session.refresh /\ generation' = generation
              /\ session.access = 0 => session'.access = 0
           \/ Arriving(session'.refresh) /\ generation' = generation
           \/ session'.refresh = enroll,
           enroll' \in {0, enroll, issued + 1},
           \A g : Arriving(g)' => Arriving(g) \/ g = issued + 1
    PROVE  ImportSettles'
  <1>1. import.grant # issued + 1
    BY DEF GrantsAreIssued, RangesOK
  <1>2. Standing(pc'[Importer]) => Standing(pc[Importer])
    BY DEF Standing
  <1>3. import.grant # 0 /\ Standing(pc'[Importer]) =>
            /\ enroll' # import.grant /\ ~ Arriving(import.grant)'
            /\ import.previous.refresh # import.grant
    BY <1>1, <1>2 DEF ImportSettles
  <1>4. import.grant # 0 /\ After(pc'[Importer]) /\ session'.refresh = import.grant =>
            session'.access = 0 /\ generation' = import.generation
    BY <1>2 DEF ImportSettles, Standing
  <1>5. import.grant # 0 /\ pc'[Importer] \in {"persist", "idle"} => session'.refresh # import.grant
    BY <1>2 DEF ImportSettles, Standing, After, PCs
  <1> QED BY <1>3, <1>4, <1>5 DEF ImportSettles

LEMMA SettlesStep ==
    ASSUME RangesOK, FlagsOK, GrantsAreIssued, InFlight, Empties, ImportIsNew, ImportSettles, [Next]_vars
    PROVE  ImportSettles'
  <1> USE Names
  <1>r. /\ pc \in [Tasks -> PCs] /\ session \in SessionType /\ rot \in [Tasks -> RotationType]
        /\ import \in ImportType /\ generation \in Nat /\ issued \in Nat
    BY DEF RangesOK
  <1>a. rot' = rot => \A g : Arriving(g)' => Arriving(g)
    BY ArrivingUnchanged
  <1>1. CASE Bootstrap
    BY <1>1 DEF Bootstrap, ImportSettles
  <1>2. ASSUME NEW c \in Callers, Request(c) \/ Answered(c) \/ InvalidateAccess(c) \/ Cancel(c)
        PROVE  ImportSettles'
    <2>1. session'.refresh = session.refresh /\ (session.access = 0 => session'.access = 0)
      BY <1>2, <1>r, SessionUpdates
         DEF Request, Answered, InvalidateAccess, Invalidated, Cancel, SessionType
    <2>2. pc'[Importer] = pc[Importer] /\ UNCHANGED <<import, up, generation, enroll, rot>>
      BY <1>2, <1>r DEF Request, Answered, InvalidateAccess, Cancel
    <2> QED BY <1>a, <2>1, <2>2, SettlesUnchanged
  <1>3. ASSUME NEW t \in Tasks, Context(t) PROVE ImportSettles'
    <2>1. \A g : Arriving(g)' => Arriving(g)
      <3>1. CASE rot' = rot
        BY <1>a, <3>1
      <3>2. CASE rot' = [rot EXCEPT ![t] = Sent(session.refresh, generation)]
        BY <1>r, <3>2, RestingNews, ArrivingUnchanged
      <3> QED BY <1>3, <3>1, <3>2 DEF Context, Lookup, RefreshAccess, Reread
    <2>2. UNCHANGED <<import, up, session, generation, enroll>>
      BY <1>3 DEF Context, Lookup, RefreshAccess, Reread
    <2>3. \/ pc'[Importer] = pc[Importer]
          \/ /\ After(pc[Importer]) /\ After(pc'[Importer])
             /\ pc'[Importer] = "persist" => session.access # 0
      BY <1>3, <1>r DEF Context, Lookup, RefreshAccess, Reread, NeedsRefresh, Failed, Ready, After, PCs
    <2> QED BY <2>1, <2>2, <2>3, SettlesUnchanged
  <1>4. ASSUME NEW t \in Tasks, BlinkAnswers(t) PROVE ImportSettles'
    <2>1. \A g : Arriving(g)' => Arriving(g) \/ g = issued + 1
      BY <1>4, <1>r, ArrivingAnswers
    <2> QED BY <1>4, <2>1, SettlesUnchanged DEF BlinkAnswers
  <1>5. ASSUME NEW t \in Tasks, StoreRotated(t) \/ PersistRotated(t) \/ RefreshFailed(t)
        PROVE  ImportSettles'
    <2>r. rot[t] \in RotationType
      BY <1>r
    <2>1. PICK r \in {Quiet, Became(rot[t], "stored", rot[t].new)} : rot' = [rot EXCEPT ![t] = r]
      BY <1>5 DEF StoreRotated, PersistRotated, RefreshFailed
    <2>2. r.phase # "answered"
      BY <2>r, RestingNews, RotationNews
    <2>3. \A g : Arriving(g)' => Arriving(g)
      BY <1>r, <2>1, <2>2, ArrivingUnchanged
    <2>4. session' = session \/ Arriving(session'.refresh)
      BY <1>5, Sessions DEF StoreRotated, PersistRotated, RefreshFailed, Arriving
    <2>5. pc'[Importer] = pc[Importer]
          \/ (After(pc[Importer]) /\ After(pc'[Importer]) /\ pc'[Importer] # "persist")
      BY <1>5, <1>r DEF StoreRotated, PersistRotated, RefreshFailed, Failed, After, PCs
    <2>6. UNCHANGED <<import, up, generation, enroll>>
      BY <1>5 DEF StoreRotated, PersistRotated, RefreshFailed
    <2> QED BY <2>3, <2>4, <2>5, <2>6, SettlesUnchanged
  <1>6. CASE Expire \/ CoolDown \/ RetryPersist \/ RetryPersistFails \/ UNCHANGED vars
    <2>1. session'.refresh = session.refresh /\ (session.access = 0 => session'.access = 0)
      <3>1. CASE Expire
        BY <1>r, <3>1 DEF Expire, SessionType
      <3>2. CASE session' = session
        BY <3>2
      <3> QED BY <1>6, <3>1, <3>2 DEF CoolDown, RetryPersist, RetryPersistFails, vars
    <2>2. UNCHANGED <<pc, import, up, generation, enroll, rot>>
      BY <1>6 DEF Expire, CoolDown, RetryPersist, RetryPersistFails, vars
    <2> QED BY <1>a, <2>1, <2>2, SettlesUnchanged
  <1>7. CASE SignIn \/ EnrollSave \/ EnrollDisconnect
    BY <1>7, <1>a, SettlesUnchanged DEF SignIn, EnrollSave, EnrollDisconnect
  <1>8. CASE EnrollReplace
    BY <1>8, <1>a, Sessions, SettlesUnchanged DEF EnrollReplace, Replace
  <1>9. ASSUME NEW kind \in Imports, ImportStart(kind) PROVE ImportSettles'
    <2>1. pc'[Importer] = "take" /\ up'
      BY <1>9, <1>r DEF ImportStart
    <2> QED BY <2>1 DEF ImportSettles, Standing, After
  <1>10. CASE ImportTake
    <2>1. /\ import'.grant = import.grant /\ import'.previous = session /\ pc'[Importer] = "taken"
          /\ UNCHANGED <<up, enroll, rot>> /\ pc[Importer] = "take"
      BY <1>10, <1>r DEF ImportTake, ImportType
    <2>2. ~ Arriving(import.grant)'
      BY <1>a, <2>1 DEF ImportIsNew
    <2>3. ~ up' => import'.grant = 0
      BY <2>1 DEF ImportSettles
    <2>4. enroll' # import'.grant /\ ~ Arriving(import'.grant)
          /\ import'.previous.refresh # import'.grant
      BY <2>1 DEF ImportIsNew
    <2>5. \A v \in Tasks : rot'[v].phase = "answered" => rot'[v].new # import'.grant
      BY <2>1, <2>4 DEF Arriving
    <2> QED BY <2>1, <2>3, <2>4, <2>5 DEF ImportSettles, Standing, After, Arriving
  <1>11. CASE ImportReplace
    <2>1. /\ import'.grant = import.grant /\ import'.previous = import.previous
          /\ import'.generation = generation' /\ session'.access = 0
          /\ session'.refresh = import.grant /\ pc'[Importer] = "context"
          /\ pc[Importer] = "taken" /\ UNCHANGED <<up, rot, enroll>>
      BY <1>11, <1>r, Sessions DEF ImportReplace, Replace, ImportType
    <2>2. import.grant # 0 => \A v \in Tasks : rot'[v].phase = "answered" => rot'[v].new # import'.grant
      BY <2>1 DEF ImportSettles, Standing, Arriving
    <2> QED BY <2>1, <2>2 DEF ImportSettles, Standing, After, Arriving
  <1>12. CASE ImportPersist
    <2>1. /\ pc[Importer] = "persist" /\ pc'[Importer] = "idle"
          /\ UNCHANGED <<up, import, session, generation, enroll, rot>>
      BY <1>12, <1>r DEF ImportPersist
    <2> QED BY <1>a, <2>1 DEF ImportSettles, Standing, After, PCs, Arriving
  <1>13. CASE ImportRestore
    <2>1. /\ pc[Importer] = "restore" /\ pc'[Importer] = "idle"
          /\ UNCHANGED <<up, import, enroll, rot>>
      BY <1>13, <1>r DEF ImportRestore
    <2>2. import.grant # 0 => /\ enroll # import.grant /\ ~ Arriving(import.grant)
                              /\ import.previous.refresh # import.grant
      BY <2>1 DEF ImportSettles, Standing, After, PCs
    <2>3. import.grant # 0 => session'.refresh # import.grant
      <3>1. CASE generation # import.generation /\ session' = session
        BY <2>1, <3>1 DEF ImportSettles, After, PCs
      <3>2. CASE session' \in {import.previous, NoSession}
        BY <2>2, <3>2, Sessions
      <3> QED BY <1>13, <3>1, <3>2 DEF ImportRestore, RestorePrevious, Replace
    <2>4. import.grant # 0 => ~ Arriving(import.grant)'
      BY <1>a, <2>1, <2>2
    <2> QED BY <2>1, <2>2, <2>3, <2>4 DEF ImportSettles, Standing, After, Arriving
  <1>14. CASE ImportDisconnect
    <2>1. pc'[Importer] = "gone" /\ UNCHANGED <<up, import>>
      BY <1>14, <1>r DEF ImportDisconnect
    <2> QED BY <2>1 DEF ImportSettles, Standing, After
  <1>15. CASE Crash
    <2>1. import'.grant = 0
      BY <1>15 DEF Crash, NoImport
    <2> QED BY <2>1 DEF ImportSettles
  <1> QED BY <1>1, <1>2, <1>3, <1>4, <1>5, <1>6, <1>7, <1>8, <1>9, <1>10, <1>11, <1>12, <1>13, <1>14,
             <1>15 DEF Next, Rotate, Enroll, Import

-----------------------------------------------------------------------------
Inv ==
    /\ FlagsOK /\ RangesOK /\ InFlight /\ GrantsAreIssued /\ Verdicts
    /\ Empties /\ ImportIsNew /\ ImportSettles /\ ReauthMeansRefused

LEMMA InvInit == Init => Inv
  <1> SUFFICES ASSUME Init PROVE Inv
    OBVIOUS
  <1> USE Names
  <1>1. FlagsOK /\ RangesOK /\ InFlight
    BY InitTypes, InFlightInit
  <1>2. /\ issued \in Nat /\ 0 \in 0 .. issued /\ issued \in 0 .. issued
        /\ 1 .. issued \subseteq 0 .. issued
    BY DEF Init
  <1>3. /\ \A t \in Tasks : rot[t] = Quiet /\ pc[t] = "idle"
        /\ NoImport.grant = 0 /\ NoImport.previous.refresh = 0
    BY Sessions DEF Init, NoImport
  <1>4. GrantsAreIssued
    BY <1>2, <1>3, Sessions, RestingNews DEF Init, GrantsAreIssued
  <1>5. Verdicts /\ Empties /\ ImportIsNew /\ ImportSettles /\ ReauthMeansRefused
    BY <1>3, Sessions, RestingNews
       DEF Init, Verdicts, Empties, ImportIsNew, ImportSettles, After, ReauthMeansRefused
  <1> QED BY <1>1, <1>4, <1>5 DEF Inv

LEMMA InvAlways == Spec => []Inv
  <1>1. Inv /\ [Next]_vars => Inv'
    BY FlagsStep, RangesStep, InFlightStep, GrantsStep, VerdictsStep, EmptiesStep, ImportStep, SettlesStep,
       ReauthStep
       DEF Inv
  <1> QED BY InvInit, <1>1, PTL DEF Spec

(* A token is thrown away in the step that follows its refusal; every other   *)
(* step that leaves the session without a token changes its grant.           *)
LEMMA TokenStep ==
    ASSUME Inv, [Next]_vars, session.access # 0, session'.access = 0,
           session'.refresh = session.refresh
    PROVE  session.access \in refused
  <1> SUFFICES ASSUME session' # session PROVE session.access \in refused
    OBVIOUS
  <1>r. session \in SessionType /\ session # NoSession /\ session.refresh # 0
    BY Sessions DEF Inv, RangesOK, Empties
  <1>1. CASE Bootstrap
    BY <1>1, <1>r DEF Bootstrap, Inv, Empties
  <1>2. ASSUME NEW c \in Callers, InvalidateAccess(c) PROVE session.access \in refused
    <2>1. session.access = used[c] /\ pc[c] = "refused"
      BY <1>2 DEF InvalidateAccess, Invalidated
    <2> QED BY <2>1 DEF Inv, Verdicts
  <1>3. ASSUME NEW t \in Tasks, StoreRotated(t) PROVE FALSE
    BY <1>3, Sessions DEF StoreRotated, Inv, Verdicts
  <1>4. CASE Expire
    BY <1>4, <1>r DEF Expire, SessionType
  <1>5. CASE EnrollReplace
    BY <1>5, Sessions DEF EnrollReplace, Replace, Inv, Empties
  <1>6. CASE ImportTake \/ Crash
    BY <1>6, <1>r, Sessions DEF ImportTake, Crash
  <1>7. CASE ImportReplace
    BY <1>7, <1>r DEF ImportReplace, Inv, Empties
  <1>8. CASE ImportRestore
    <2>1. After(pc[Importer])
      BY <1>8 DEF ImportRestore, After, PCs
    <2>2. CASE session' = NoSession
      BY <1>r, <2>2, Sessions
    <2>3. CASE /\ generation = import.generation /\ import.previous.refresh # 0
               /\ session' = import.previous
      BY <2>1, <2>3 DEF Inv, ImportIsNew
    <2> QED BY <1>8, <2>2, <2>3 DEF ImportRestore, RestorePrevious, Replace
  <1> QED BY <1>1, <1>2, <1>3, <1>4, <1>5, <1>6, <1>7, <1>8
          DEF Next, Context, Lookup, RefreshAccess, Reread, Rotate, BlinkAnswers, PersistRotated,
              RefreshFailed, Request, Answered, Cancel, CoolDown, RetryPersist, RetryPersistFails, Enroll,
              SignIn, EnrollSave, EnrollDisconnect, Import, ImportStart, ImportPersist, ImportDisconnect,
              vars

(* The engine asks for a new sign-in only while Blink rejects the grant in    *)
(* memory: not after an outage, a lost answer or a session that an            *)
(* enrollment or an import has replaced meanwhile (refresh_failed,            *)
(* replace_session).                                                         *)
THEOREM ReauthIsDeserved == Spec => []ReauthMeansRefused
  BY InvAlways, PTL DEF Inv

(* And what Blink has not refused is not given up: in addition a 401 that     *)
(* arrives late discards only the access token it was about                  *)
(* (invalidate_access).                                                      *)
THEOREM RefusalsStayTrue == Spec => RefusalsAreTrue
  <1> DEFINE Step == session.access # 0 /\ session'.access = 0 /\ session'.refresh = session.refresh
                        => session.access \in refused
  <1>1. Inv /\ [Next]_vars => [Step]_vars
    BY TokenStep
  <1>2. Inv => ReauthMeansRefused
    BY DEF Inv
  <1>3. RefusalsAreTrue <=> []ReauthMeansRefused /\ [][Step]_vars
    BY DEF RefusalsAreTrue, FreshTokenKept
  <1> QED BY <1>1, <1>2, <1>3, InvAlways, PTL DEF Spec

(* An import that Blink refuses and whose client waited for the answer does   *)
(* not stay: whoever refreshes, signs in or asks meanwhile, the grant of an   *)
(* import that has ended is not the one in memory (import, replace_session). *)
THEOREM AnsweredImportSettles == Spec => []AnsweredImportRestores
  <1>1. Inv => AnsweredImportRestores
    <2> SUFFICES ASSUME Inv, pc[Importer] # "gone", import.grant # 0, ~ ImportRuns
                 PROVE  session.refresh # import.grant
      BY DEF AnsweredImportRestores, RefusedImportRestores
    <2>1. pc[Importer] = "idle"
      BY DEF ImportRuns, Settled
    <2> QED BY <2>1 DEF Inv, ImportSettles
  <1> QED BY <1>1, InvAlways, PTL

-----------------------------------------------------------------------------
(* What a restart finds.  Without imports, the sealed file holds a grant      *)
(* Blink accepts while the one in memory is accepted, or the disagreement    *)
(* is flagged; and a flagged file has its retry task.                        *)
(*                                                                           *)
(* A rotation consumes the grant in memory, hence never the grant of a       *)
(* sign-in that has been saved and not yet put in memory ("SignInLives");    *)
(* and the file already holds that grant when it is ("SavedFirst").          *)

NothingImported == pc[Importer] = "idle"

SignInLives == enroll # 0 => enroll \in live /\ enroll # session.refresh /\ ~ Arriving(enroll)
SavedFirst == lock = Enroller => disk = enroll
StoredSomewhere == \E t \in Tasks : rot[t].phase = "stored"
LastsInFile == up /\ session.refresh \in live => disk \in live \/ pending \/ StoredSomewhere
FlagDiesWithProcess == ~ up => pending = FALSE

FileFollows ==
    /\ NothingImported /\ SignInLives /\ SavedFirst
    /\ LastsInFile /\ FlaggedFileIsRetried /\ FlagDiesWithProcess

(* A step that is not about the file.                                       *)
LEMMA FileUnchanged ==
    ASSUME FileFollows, NothingImported', UNCHANGED <<live, up, pending, disk, enroll, rot>>,
           session'.refresh = session.refresh, pending => retrying' = retrying,
           lock' = Enroller => lock = Enroller
    PROVE  FileFollows'
  BY DEF FileFollows, SignInLives, Arriving, SavedFirst, StoredSomewhere, LastsInFile,
         FlaggedFileIsRetried, Enrolled, FlagDiesWithProcess

(* A rotation moves on without storing anything, and Blink consumes nothing. *)
LEMMA FileRotation ==
    ASSUME Inv, FileFollows, NothingImported',
           UNCHANGED <<live, up, pending, retrying, disk, enroll, session>>,
           NEW t \in Tasks, rot[t].phase # "stored", NEW r, r.phase # "answered",
           rot' = [rot EXCEPT ![t] = r], lock' = Enroller => lock = Enroller
    PROVE  FileFollows'
  <1>1. \A u \in Tasks : rot'[u] = IF u = t THEN r ELSE rot[u]
    BY DEF Inv, RangesOK
  <1>2. SignInLives'
    BY <1>1 DEF FileFollows, SignInLives, Arriving
  <1>3. LastsInFile'
    BY <1>1 DEF FileFollows, LastsInFile, StoredSomewhere
  <1> QED BY <1>2, <1>3 DEF FileFollows, SavedFirst, FlaggedFileIsRetried, Enrolled, FlagDiesWithProcess

(* Blink answers a refresh: it consumes the grant in memory, or nothing.     *)
LEMMA FileAnswers ==
    ASSUME Inv, FileFollows, NEW t \in Tasks, BlinkAnswers(t) PROVE FileFollows'
  <1>r. /\ rot \in [Tasks -> RotationType] /\ rot[t] \in RotationType /\ issued \in Nat
        /\ rot[t].phase = "sent" /\ NothingImported'
    BY DEF BlinkAnswers, Inv, RangesOK, FileFollows, NothingImported
  <1>1. ASSUME live' = live, NEW p \in {"transient", "rejected"},
               rot' = [rot EXCEPT ![t] = Became(rot[t], p, rot[t].new)]
        PROVE  FileFollows'
    <2>1. Became(rot[t], p, rot[t].new).phase # "answered"
      BY <1>r, RotationNews
    <2> QED BY <1>r, <1>1, <2>1, FileRotation DEF BlinkAnswers
  <1>2. ASSUME issued < MaxGrant, live' = (live \ {rot[t].grant}) \cup {issued + 1},
               NEW r, r.phase = "answered" => r.new = issued + 1,
               rot' = [rot EXCEPT ![t] = r]
        PROVE  FileFollows'
    <2>1. session.refresh = rot[t].grant
      BY <1>r DEF Inv, InFlight, RotatesCurrentSession, Presented
    <2>2. session.refresh # issued + 1 /\ enroll # issued + 1
      BY <1>r DEF Inv, GrantsAreIssued
    <2>3. session.refresh \notin live'
      BY <1>2, <2>1, <2>2
    <2>4. enroll # 0 => enroll \in live' /\ enroll # session.refresh
      BY <1>2, <2>1 DEF FileFollows, SignInLives
    <2>5. enroll # 0 => \A u \in Tasks : rot'[u].phase = "answered" => rot'[u].new # enroll
      BY <1>r, <1>2, <2>2 DEF FileFollows, SignInLives, Arriving
    <2> QED BY <1>r, <2>3, <2>4, <2>5
            DEF BlinkAnswers, FileFollows, SignInLives, Arriving, SavedFirst, LastsInFile,
                FlaggedFileIsRetried, Enrolled, FlagDiesWithProcess
  <1>3. issued < MaxGrant => /\ Became(rot[t], "answered", issued + 1).new = issued + 1
                             /\ Became(rot[t], "transient", rot[t].new).phase = "transient"
    <2>1. issued < MaxGrant => issued + 1 \in 0 .. MaxGrant
      BY <1>r, SessionAssumption
    <2> QED BY <1>r, <2>1, RotationNews
  <1> QED BY <1>1, <1>2, <1>3 DEF BlinkAnswers

(* The rotated grant reaches memory, then the file.                          *)
LEMMA FileStores ==
    ASSUME Inv, FileFollows, NEW t \in Tasks, StoreRotated(t) PROVE FileFollows'
  <1>r. /\ rot \in [Tasks -> RotationType] /\ rot[t] \in RotationType /\ rot[t].phase = "answered"
    BY DEF StoreRotated, Inv, RangesOK
  <1>n. NothingImported'
    BY Names DEF StoreRotated, FileFollows, NothingImported, Inv, RangesOK
  <1>1. CASE rot' = [rot EXCEPT ![t] = Quiet] /\ session' = session /\ lock' = "none"
    BY <1>r, <1>n, <1>1, RestingNews, Names, FileRotation DEF StoreRotated
  <1>2. CASE /\ Enrolled /\ session' = Issued(rot[t].new) /\ lock' = lock
             /\ rot' = [rot EXCEPT ![t] = Became(rot[t], "stored", rot[t].new)]
    <2>1. Became(rot[t], "stored", rot[t].new).phase = "stored"
      BY <1>r, RotationNews
    <2>2. rot'[t].phase = "stored" /\ \A u \in Tasks : u # t => rot'[u] = rot[u]
      BY <1>r, <1>2, <2>1
    <2>3. enroll # 0 => enroll # session'.refresh
      BY <1>r, <1>2, Sessions DEF FileFollows, SignInLives, Arriving
    <2>4. enroll # 0 => \A u \in Tasks : rot'[u].phase = "answered" => rot'[u].new # enroll
      BY <2>2 DEF FileFollows, SignInLives, Arriving
    <2> QED BY <1>n, <1>2, <2>2, <2>3, <2>4
            DEF StoreRotated, FileFollows, SignInLives, Arriving, SavedFirst, LastsInFile,
                StoredSomewhere, FlaggedFileIsRetried, Enrolled, FlagDiesWithProcess
  <1> QED BY <1>1, <1>2 DEF StoreRotated, ReleaseCredentialLock

LEMMA FilePersists ==
    ASSUME Inv, FileFollows, NEW t \in Tasks, PersistRotated(t) PROVE FileFollows'
  <1>r. /\ rot \in [Tasks -> RotationType] /\ rot[t].phase = "stored" /\ live \subseteq Grants
        /\ UNCHANGED <<live, up, session, enroll>> /\ lock' = "none"
    BY DEF PersistRotated, ReleaseCredentialLock, Inv, RangesOK
  <1>u. up
    BY <1>r DEF Inv, InFlight, DownIsIdle
  <1>n. NothingImported'
    BY Names DEF PersistRotated, FileFollows, NothingImported, Inv, RangesOK
  <1>1. \A v \in Tasks : rot'[v].phase = "answered" => rot[v].phase = "answered" /\ rot'[v].new = rot[v].new
    BY <1>r, RestingNews DEF PersistRotated
  <1>2. SignInLives'
    BY <1>r, <1>1 DEF FileFollows, SignInLives, Arriving
  <1>3. CASE PersistOk
    <2>1. session.refresh \in live => disk' = session.refresh
      BY <1>r, <1>3 DEF PersistOk, SaveOk, Enrolled, Grants
    <2> QED BY <1>r, <1>u, <1>n, <1>2, <1>3, <2>1, Names
            DEF PersistOk, FileFollows, SavedFirst, LastsInFile, FlaggedFileIsRetried, Enrolled,
                FlagDiesWithProcess
  <1>4. CASE PersistFails
    BY <1>r, <1>u, <1>n, <1>2, <1>4, Names
       DEF PersistFails, FileFollows, SavedFirst, LastsInFile, FlaggedFileIsRetried, FlagDiesWithProcess
  <1> QED BY <1>3, <1>4 DEF PersistRotated

-----------------------------------------------------------------------------
LEMMA FileStep ==
    ASSUME Imports = {}, Inv, FileFollows, [Next]_vars PROVE FileFollows'
  <1> USE Names
  <1>r. /\ rot \in [Tasks -> RotationType] /\ pc \in [Tasks -> PCs] /\ session \in SessionType
        /\ live \subseteq Grants /\ issued \in Nat /\ pc[Importer] = "idle" /\ 0 \notin live
    BY DEF Inv, RangesOK, FileFollows, NothingImported, Grants
  <1>1. CASE Bootstrap
    <2>1. session = NoSession /\ enroll = 0 /\ pending = FALSE /\ lock # Enroller
      BY <1>1 DEF Bootstrap, Inv, Empties, FileFollows, FlagDiesWithProcess
    <2>2. session'.refresh \in live => disk \in live
      BY <1>1, <1>r, <2>1, Sessions DEF Bootstrap, Replace
    <2> QED BY <1>1, <1>r, <2>1, <2>2
            DEF Bootstrap, FileFollows, NothingImported, SignInLives, SavedFirst, LastsInFile,
                FlaggedFileIsRetried, FlagDiesWithProcess
  <1>2. ASSUME NEW c \in Callers, Request(c) \/ Answered(c) \/ InvalidateAccess(c) \/ Cancel(c)
        PROVE  FileFollows'
    <2>1. session'.refresh = session.refresh
      BY <1>2, <1>r, SessionUpdates DEF Request, Answered, InvalidateAccess, Invalidated, Cancel
    <2>2. NothingImported'
      BY <1>2, <1>r DEF Request, Answered, InvalidateAccess, Cancel, NothingImported
    <2> QED BY <1>2, <2>1, <2>2, FileUnchanged DEF Request, Answered, InvalidateAccess, Cancel
  <1>3. ASSUME NEW t \in Tasks, Context(t) PROVE FileFollows'
    <2>1. NothingImported'
      BY <1>3, <1>r DEF Context, Lookup, RefreshAccess, Reread, NothingImported
    <2>2. CASE rot' = rot
      BY <1>3, <2>1, <2>2, FileUnchanged DEF Context, Lookup, RefreshAccess, Reread
    <2>3. CASE RefreshAccess(t) /\ rot' = [rot EXCEPT ![t] = Sent(session.refresh, generation)]
      <3>1. rot[t].phase = "idle" /\ (lock' = Enroller => lock = Enroller)
        BY <2>3 DEF RefreshAccess, CredentialLockFree, Inv, InFlight, RotationOwnsLock
      <3> QED BY <2>1, <2>3, <3>1, RestingNews, FileRotation DEF RefreshAccess
    <2> QED BY <1>3, <2>2, <2>3 DEF Context, Lookup, RefreshAccess, Reread
  <1>4. ASSUME NEW t \in Tasks, RefreshFailed(t) PROVE FileFollows'
    <2>1. NothingImported'
      BY <1>4, <1>r DEF RefreshFailed, NothingImported
    <2> QED BY <1>4, <2>1, RestingNews, FileRotation DEF RefreshFailed, ReleaseCredentialLock
  <1>5. CASE Expire \/ CoolDown \/ UNCHANGED vars
    <2>1. session'.refresh = session.refresh
      BY <1>5, <1>r, SessionUpdates DEF Expire, CoolDown, vars
    <2> QED BY <1>5, <2>1, FileUnchanged DEF Expire, CoolDown, vars, FileFollows, NothingImported
  <1>6. CASE RetryPersist
    <2>1. lock = "none" /\ UNCHANGED <<live, up, enroll, rot, session, pc, lock>>
      BY <1>6 DEF RetryPersist, CredentialLockFree
    <2>2. CASE UNCHANGED <<disk, pending>> /\ (pending => ~ Enrolled)
      BY <2>1, <2>2
         DEF FileFollows, NothingImported, SignInLives, Arriving, SavedFirst, StoredSomewhere, LastsInFile,
             FlaggedFileIsRetried, Enrolled, FlagDiesWithProcess
    <2>3. CASE disk' = session.refresh /\ pending' = FALSE
      BY <2>1, <2>3
         DEF FileFollows, NothingImported, SignInLives, Arriving, SavedFirst, LastsInFile,
             FlaggedFileIsRetried, FlagDiesWithProcess
    <2> QED BY <1>6, <2>2, <2>3 DEF RetryPersist, SaveOk
  <1>7. CASE RetryPersistFails
    BY <1>7
       DEF RetryPersistFails, CredentialLockFree, FileFollows, NothingImported, SignInLives, Arriving,
           SavedFirst, LastsInFile, FlaggedFileIsRetried, Enrolled, FlagDiesWithProcess
  <1>8. CASE SignIn
    <2>1. /\ enroll' = issued + 1 /\ live' = live \cup {issued + 1}
          /\ UNCHANGED <<up, session, pending, retrying, disk, lock, rot, pc>> /\ enroll = 0
      BY <1>8 DEF SignIn
    <2>2. issued + 1 # session.refresh /\ ~ Arriving(issued + 1)
      BY <1>r DEF Inv, GrantsAreIssued, Arriving
    <2>3. SignInLives' /\ SavedFirst'
      BY <2>1, <2>2 DEF SignInLives, Arriving, SavedFirst, Inv, Empties
    <2> QED BY <2>1, <2>2, <2>3
            DEF FileFollows, NothingImported, StoredSomewhere, LastsInFile, FlaggedFileIsRetried, Enrolled,
                FlagDiesWithProcess
  <1>9. CASE EnrollSave
    <2>1. /\ enroll \in live /\ lock = "none" /\ disk' \in {disk, enroll}
          /\ UNCHANGED <<live, up, session, pending, retrying, rot, pc>>
      BY <1>9 DEF EnrollSave, SaveOk, SaveFails, CredentialLockFree, FileFollows, SignInLives
    <2>2. SignInLives' /\ SavedFirst'
      BY <1>9, <2>1 DEF EnrollSave, SaveOk, FileFollows, SignInLives, Arriving, SavedFirst
    <2> QED BY <2>1, <2>2
            DEF FileFollows, NothingImported, StoredSomewhere, LastsInFile, FlaggedFileIsRetried, Enrolled,
                FlagDiesWithProcess
  <1>10. CASE EnrollReplace
    <2>1. enroll \in live /\ disk = enroll /\ session'.refresh = enroll /\ up
      BY <1>10, Sessions
         DEF EnrollReplace, Replace, Inv, Empties, FileFollows, SignInLives, SavedFirst
    <2> QED BY <1>10, <2>1
            DEF EnrollReplace, ReleaseCredentialLock, FileFollows, NothingImported, SignInLives,
                SavedFirst, LastsInFile, FlaggedFileIsRetried, FlagDiesWithProcess
  <1>11. CASE EnrollDisconnect
    BY <1>11
       DEF EnrollDisconnect, FileFollows, NothingImported, SignInLives, SavedFirst, StoredSomewhere,
           LastsInFile, FlaggedFileIsRetried, Enrolled, FlagDiesWithProcess
  <1>12. CASE Import
    BY <1>12, <1>r
       DEF Import, ImportTake, ImportReplace, ImportPersist, ImportRestore, ImportDisconnect, ImportRuns,
           Settled
  <1>13. CASE Crash
    BY <1>13
       DEF Crash, FileFollows, NothingImported, SignInLives, SavedFirst, LastsInFile,
           FlaggedFileIsRetried, FlagDiesWithProcess
  <1> QED BY <1>1, <1>2, <1>3, FileAnswers, FileStores, FilePersists, <1>4, <1>5, <1>6, <1>7, <1>8,
             <1>9, <1>10, <1>11, <1>12, <1>13 DEF Next, Rotate, Enroll

LEMMA FileInit == Init => FileFollows
  BY Names, Sessions, RestingNews
     DEF Init, FileFollows, NothingImported, SignInLives, SavedFirst, LastsInFile,
         FlaggedFileIsRetried, FlagDiesWithProcess

(* Without imports a restart does not lose a sign-in, however rotations,      *)
(* sign-ins, failed writes, the retry task and crashes meet: the file has     *)
(* caught up with memory, or says that it has not and is retried              *)
(* (persist_locked, spawn_persist_retry, enroll).                            *)
THEOREM FileAlwaysRecovers ==
    ASSUME Imports = {} PROVE Spec => []FileRecovers
  <1>1. Inv /\ FileFollows /\ [Next]_vars => FileFollows'
    BY FileStep
  <1>2. FileFollows => FileRecovers
    BY DEF FileFollows, FileRecovers, LastsInFile, StoredSomewhere, Recoverable
  <1> QED BY <1>1, <1>2, FileInit, InvAlways, PTL DEF Spec
=============================================================================
