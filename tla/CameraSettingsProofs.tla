------------------------ MODULE CameraSettingsProofs ------------------------
(***************************************************************************)
(* Proofs about CameraSettings for every grid, every number of requests    *)
(* and whatever is asked for, restored, dropped or changed by the app:     *)
(* type correctness with the line of settings_lock, the gap between the    *)
(* thresholds, the agreement of zones, masks and motion_regions, that an   *)
(* update nobody disturbs is all or nothing, and that a restore alone at   *)
(* the camera reaches what it restores.                                    *)
(***************************************************************************)
EXTENDS CameraSettings, WellFoundedInduction, TLAPS

-----------------------------------------------------------------------------
(* What is written, and what it makes of a configuration. *)

Fits(c) == GridAgrees(c.zones) /\ (Missing \notin {c.min, c.max} => Spaced(c))
Sound == {c \in Configs : Fits(c)}

LEMMA Numbers ==
    /\ BasicRows \in Nat \ {0} /\ BasicColumns \in Nat \ {0}
    /\ MicroRows \in Nat \ {0} /\ MicroColumns \in Nat \ {0}
    /\ Attempts \in Nat \ {0} /\ Gap \in Nat \ {0}
    /\ Degrees \subseteq Nat /\ Missing \notin Degrees
    /\ MaxUpdates \in Nat /\ MaxAppWrites \in Nat /\ MaxFaults \in Nat
    /\ Restorer \notin Users
  BY SettingsAssumption

LEMMA FlagIsApart == Flag \notin Basics /\ Flag \in Nat /\ Basics \subseteq Nat
  <1>1. BasicRows * BasicColumns \in Nat /\ BasicRows * BasicColumns <= Flag
    BY SettingsAssumption
  <1> QED
    BY <1>1 DEF Basics, Flag

(* The four kinds of writes, by what they write. *)
LEMMA WriteKinds ==
    ASSUME NEW body \in Writes
    PROVE \/ /\ DOMAIN body = {"min", "max"} /\ Spaced(body)
             /\ body.min \in Degrees /\ body.max \in Degrees
          \/ DOMAIN body = {"alerts"} /\ body.alerts \in BOOLEAN
          \/ DOMAIN body = {"flip"} /\ body.flip \in Flips
          \/ DOMAIN body = {"zones"} /\ body.zones \in ZoneStates /\ GridAgrees(body.zones)
  BY DEF Writes

LEMMA WrittenIsSound ==
    ASSUME NEW c \in Sound, NEW body \in Writes
    PROVE Written(body, c) \in Sound
  <1> DEFINE d == Written(body, c)
  <1>1. c \in Configs /\ Fits(c)
    BY DEF Sound
  <1>2. DOMAIN c = {"min", "max", "alerts", "flip", "zones"} /\ Degrees \subseteq Limits
    BY <1>1 DEF Configs, Limits
  <1>3. CASE DOMAIN body = {"min", "max"} /\ Spaced(body) /\ body.min \in Degrees /\ body.max \in Degrees
    <2>1. /\ d.min = body.min /\ d.max = body.max /\ d.alerts = c.alerts
          /\ d.flip = c.flip /\ d.zones = c.zones
      BY <1>2, <1>3 DEF Written
    <2>2. d \in Configs
      BY <1>1, <1>2, <1>3 DEF Written, Configs
    <2>3. Fits(d)
      BY <1>1, <1>3, <2>1 DEF Fits, Spaced
    <2> QED
      BY <2>2, <2>3 DEF Sound
  <1>4. CASE DOMAIN body = {"alerts"} /\ body.alerts \in BOOLEAN
    <2>1. d.min = c.min /\ d.max = c.max /\ d.zones = c.zones
      BY <1>2, <1>4 DEF Written
    <2>2. d \in Configs
      BY <1>1, <1>2, <1>4 DEF Written, Configs
    <2>3. Fits(d)
      BY <1>1, <2>1 DEF Fits, Spaced
    <2> QED
      BY <2>2, <2>3 DEF Sound
  <1>5. CASE DOMAIN body = {"flip"} /\ body.flip \in Flips
    <2>1. d.min = c.min /\ d.max = c.max /\ d.zones = c.zones
      BY <1>2, <1>5 DEF Written
    <2>2. d \in Configs
      BY <1>1, <1>2, <1>5 DEF Written, Configs
    <2>3. Fits(d)
      BY <1>1, <2>1 DEF Fits, Spaced
    <2> QED
      BY <2>2, <2>3 DEF Sound
  <1>6. CASE DOMAIN body = {"zones"} /\ body.zones \in ZoneStates /\ GridAgrees(body.zones)
    <2>1. d.min = c.min /\ d.max = c.max /\ d.zones = body.zones
      BY <1>2, <1>6 DEF Written
    <2>2. d \in Configs
      BY <1>1, <1>2, <1>6 DEF Written, Configs
    <2>3. Fits(d)
      BY <1>1, <1>6, <2>1 DEF Fits, Spaced
    <2> QED
      BY <2>2, <2>3 DEF Sound
  <1> QED
    BY <1>3, <1>4, <1>5, <1>6, WriteKinds

(* What may be asked for, by users and by the restore. *)
RestoreOps == [key : Thresholds, value : Limits] \cup [key : {"alerts", "flip"}, value : BOOLEAN]
Ops == Updates \cup RestoreOps

LEMMA OpShapes ==
    ASSUME NEW op \in Ops
    PROVE /\ op.key \in {"min", "max", "alerts", "flip", "init", "zones"}
          /\ op.key = "alerts" => op.value \in BOOLEAN
          /\ op.key = "init" => op.value = [min |-> op.value.min, max |-> op.value.max]
          /\ op.key = "zones" => op.value.masks \in Masks /\ op.value.privacy \in Privacy
  <1>1. CASE op \in Updates
    BY <1>1, ClientsAssumption DEF Keys, Thresholds, Ordinary
  <1>2. CASE op \in RestoreOps
    BY <1>2 DEF RestoreOps, Thresholds
  <1> QED
    BY <1>1, <1>2 DEF Ops

LEMMA MasksLeft ==
    ASSUME NEW masks \in Masks, NEW privacy
    PROVE ApplyPrivacy(masks, privacy) \in Masks
  BY DEF ApplyPrivacy, Masks

LEMMA ZonesWritten ==
    ASSUME NEW zones \in ZoneStates, NEW asked, asked.masks \in Masks, asked.privacy \in Privacy
    PROVE /\ UpdatedZones(zones, asked) \in ZoneStates
          /\ GridAgrees(UpdatedZones(zones, asked))
          /\ UpdatedZones(zones, asked).masks = ApplyPrivacy(asked.masks, asked.privacy)
          /\ UpdatedZones(zones, asked).motion \ (Basics \cup {Flag}) = zones.motion \ (Basics \cup {Flag})
  <1> DEFINE masks == ApplyPrivacy(asked.masks, asked.privacy)
             z == [zones EXCEPT !.masks = masks, !.privacy = asked.privacy,
                                !.motion = Motion(zones.motion, masks)]
  <1>1. UpdatedZones(zones, asked) = z
    BY DEF UpdatedZones
  <1>2. masks \in Masks
    BY MasksLeft
  <1> HIDE DEF masks
  <1>3. Motion(zones.motion, masks) \in SUBSET Nat
    BY FlagIsApart DEF Motion, ZoneStates
  <1>4. z \in ZoneStates
    BY <1>2, <1>3 DEF ZoneStates
  <1>5. z.masks = masks /\ z.motion = Motion(zones.motion, masks)
    BY DEF ZoneStates
  <1>6. /\ \A b \in Basics : b \in Motion(zones.motion, masks) <=> masks[b] # {}
        /\ Flag \in Motion(zones.motion, masks) <=> \E b \in Basics : masks[b] # Full
    BY FlagIsApart DEF Motion
  <1>7. Motion(zones.motion, masks) \ (Basics \cup {Flag}) = zones.motion \ (Basics \cup {Flag})
    BY DEF Motion
  <1> HIDE DEF z
  <1>8. GridAgrees(z)
    BY <1>5, <1>6 DEF GridAgrees
  <1> QED
    BY <1>1, <1>4, <1>5, <1>7, <1>8 DEF masks

(* The write of an update that is not about the thresholds. *)
LEMMA BodyIsWrite ==
    ASSUME NEW c \in Sound, NEW op \in Ops, op.key \in {"alerts", "flip", "zones"}
    PROVE Body(op, c) \in Writes /\ DOMAIN Body(op, c) = {op.key}
  <1>1. c.zones \in ZoneStates /\ c.flip \in Flips
    BY DEF Sound, Configs
  <1>2. CASE op.key = "alerts"
    BY <1>2, OpShapes DEF Body, Writes
  <1>3. CASE op.key = "flip"
    <2>1. EncodedFlip(c.flip, op.value) \in Flips
      BY <1>1 DEF EncodedFlip, Flips
    <2> QED
      BY <1>3, <2>1 DEF Body, Writes
  <1>4. CASE op.key = "zones"
    <2>1. UpdatedZones(c.zones, op.value) \in ZoneStates /\ GridAgrees(UpdatedZones(c.zones, op.value))
      BY <1>1, <1>4, OpShapes, ZonesWritten
    <2>2. Body(op, c) = [zones |-> UpdatedZones(c.zones, op.value)]
      BY <1>4 DEF Body
    <2> QED
      BY <1>4, <2>1, <2>2 DEF Writes
  <1> QED
    BY <1>2, <1>3, <1>4

(* The same for what puts the old value back. *)
LEMMA UndoIsWrite ==
    ASSUME NEW before \in Sound, NEW c, NEW op \in Ops, op.key \in {"alerts", "flip", "zones"}
    PROVE /\ UndoBody(op, before, c) \in Writes
          /\ UndoBody(op, before, c) = [key \in {op.key} |-> before[key]]
  <1>1. before \in Configs /\ GridAgrees(before.zones)
    BY DEF Sound, Fits
  <1>2. UndoBody(op, before, c) = [key \in {op.key} |-> before[key]]
    BY DEF UndoBody, Thresholds
  <1>3. CASE op.key = "alerts"
    BY <1>1, <1>2, <1>3 DEF Writes, Configs
  <1>4. CASE op.key = "flip"
    BY <1>1, <1>2, <1>4 DEF Writes, Configs
  <1>5. CASE op.key = "zones"
    BY <1>1, <1>2, <1>5 DEF Writes, Configs
  <1> QED
    BY <1>2, <1>3, <1>4, <1>5

(* A pair of thresholds is a write when it is spaced. *)
LEMMA PairIsWrite ==
    ASSUME NEW low, NEW high, Spaced([min |-> low, max |-> high])
    PROVE [min |-> low, max |-> high] \in Writes
  BY DEF Spaced, Writes

-----------------------------------------------------------------------------
(* A set of naturals has a least element, a bounded one a greatest: what     *)
(* Max returns, on which Settled rests.                                      *)
Below == {p \in Nat \X Nat : p[1] < p[2]}

LEMMA Least ==
    ASSUME NEW S \in SUBSET Nat, S # {}
    PROVE \E x \in S : \A y \in S : x <= y
  <1>1. OpToRel(<, Nat) = Below
    BY Zenon DEF OpToRel, Below
  <1>2. IsWellFoundedOn(Below, Nat)
    BY <1>1, NatLessThanWellFounded, Zenon
  <1>3. PICK x \in S : \A y \in S : ~ (<<y, x>> \in Below)
    BY <1>2, WFMin
  <1>4. ASSUME NEW y \in S PROVE x <= y
    <2>1. y < x => <<y, x>> \in Below
      BY DEF Below
    <2> QED
      BY <1>3, <2>1
  <1> QED
    BY <1>4

LEMMA Greatest ==
    ASSUME NEW n \in Nat, NEW S \in SUBSET (1 .. n), S # {}
    PROVE Max(S) \in S /\ \A y \in S : y <= Max(S)
  <1> DEFINE U == {n - x : x \in S}
  <1>1. U \in SUBSET Nat /\ U # {}
    <2>1. \A x \in S : n - x \in Nat
      OBVIOUS
    <2>2. \E x \in S : n - x \in U
      OBVIOUS
    <2> QED
      BY <2>1, <2>2
  <1> HIDE DEF U
  <1>2. PICK m \in U : \A y \in U : m <= y
    BY <1>1, Least
  <1>3. PICK x \in S : m = n - x
    BY DEF U
  <1>4. ASSUME NEW y \in S PROVE x >= y
    <2>1. n - y \in U
      BY DEF U
    <2> QED
      BY <1>2, <1>3, <2>1
  <1>5. \E z \in S : \A y \in S : z >= y
    BY <1>4
  <1>6. Max(S) \in S /\ \A y \in S : Max(S) >= y
    BY <1>5 DEF Max
  <1> QED
    BY <1>6

-----------------------------------------------------------------------------
(* What the camera will show: nothing changes when Blink applies a write, a  *)
(* new write comes last.                                                     *)

WritesOf(writes, key) == {i \in DOMAIN writes : key \in DOMAIN writes[i]}

LEMMA SettledAt ==
    ASSUME NEW c, NEW writes \in Seq(Writes), NEW key \in DOMAIN c
    PROVE SettledOf(c, writes)[key] =
            IF WritesOf(writes, key) = {} THEN c[key] ELSE writes[Max(WritesOf(writes, key))][key]
  BY DEF SettledOf, WritesOf

LEMMA NothingPending ==
    ASSUME NEW c \in Configs PROVE SettledOf(c, <<>>) = c
  <1>1. c = [key \in DOMAIN c |-> c[key]]
    BY DEF Configs
  <1> QED
    BY <1>1 DEF SettledOf

LEMMA PendingMore ==
    ASSUME NEW c, NEW writes \in Seq(Writes), NEW body \in Writes
    PROVE SettledOf(c, Append(writes, body)) = Written(body, SettledOf(c, writes))
  <1> DEFINE more == Append(writes, body)
             n == Len(writes)
  <1>1. /\ n \in Nat /\ more \in Seq(Writes) /\ Len(more) = n + 1
        /\ \A i \in 1 .. n : more[i] = writes[i]
        /\ more[n + 1] = body
        /\ DOMAIN more = 1 .. n + 1 /\ DOMAIN writes = 1 .. n
    OBVIOUS
  <1> HIDE DEF more, n
  <1>2. ASSUME NEW key \in DOMAIN c
        PROVE SettledOf(c, more)[key] = Written(body, SettledOf(c, writes))[key]
    <2>1. Written(body, SettledOf(c, writes))[key] =
            IF key \in DOMAIN body THEN body[key] ELSE SettledOf(c, writes)[key]
      BY DEF Written, SettledOf
    <2>2. CASE key \in DOMAIN body
      <3>1. n + 1 \in WritesOf(more, key) /\ WritesOf(more, key) \in SUBSET (1 .. n + 1) /\ n + 1 \in Nat
        BY <1>1, <2>2 DEF WritesOf
      <3>2. Max(WritesOf(more, key)) \in 1 .. n + 1 /\ n + 1 <= Max(WritesOf(more, key))
        BY <3>1, Greatest
      <3>3. Max(WritesOf(more, key)) = n + 1
        BY <1>1, <3>2
      <3>4. SettledOf(c, more)[key] = body[key]
        BY <1>1, <3>1, <3>3, SettledAt
      <3> QED
        BY <2>1, <2>2, <3>4
    <2>3. CASE key \notin DOMAIN body
      <3>1. WritesOf(more, key) = WritesOf(writes, key) /\ WritesOf(writes, key) \in SUBSET (1 .. n)
        BY <1>1, <2>3 DEF WritesOf
      <3>2. CASE WritesOf(writes, key) = {}
        BY <1>1, <2>1, <2>3, <3>1, <3>2, SettledAt
      <3>3. CASE WritesOf(writes, key) # {}
        <4>1. Max(WritesOf(writes, key)) \in 1 .. n
          BY <1>1, <3>1, <3>3, Greatest
        <4> QED
          BY <1>1, <2>1, <2>3, <3>1, <3>3, <4>1, SettledAt
      <3> QED
        BY <3>2, <3>3
    <2> QED
      BY <2>2, <2>3
  <1>3. /\ SettledOf(c, more) = [key \in DOMAIN c |-> SettledOf(c, more)[key]]
        /\ Written(body, SettledOf(c, writes)) =
              [key \in DOMAIN c |-> Written(body, SettledOf(c, writes))[key]]
    BY DEF SettledOf, Written
  <1> QED
    BY <1>2, <1>3 DEF more

LEMMA PendingApplied ==
    ASSUME NEW c, NEW writes \in Seq(Writes), writes # <<>>
    PROVE SettledOf(Written(Head(writes), c), Tail(writes)) = SettledOf(c, writes)
  <1> DEFINE rest == Tail(writes)
             n == Len(writes)
             d == Written(Head(writes), c)
  <1>1. /\ n \in Nat \ {0} /\ rest \in Seq(Writes) /\ Head(writes) = writes[1]
        /\ \A i \in 1 .. n - 1 : rest[i] = writes[i + 1]
        /\ DOMAIN rest = 1 .. n - 1 /\ DOMAIN writes = 1 .. n
    OBVIOUS
  <1>2. DOMAIN d = DOMAIN c
        /\ \A key \in DOMAIN c : d[key] = IF key \in DOMAIN writes[1] THEN writes[1][key] ELSE c[key]
    BY <1>1 DEF Written
  <1> HIDE DEF rest, n, d
  <1>3. ASSUME NEW key \in DOMAIN c PROVE SettledOf(d, rest)[key] = SettledOf(c, writes)[key]
    <2>1. \A i \in 1 .. n - 1 : i \in WritesOf(rest, key) <=> i + 1 \in WritesOf(writes, key)
      BY <1>1 DEF WritesOf
    <2>2. WritesOf(rest, key) \in SUBSET (1 .. n - 1) /\ WritesOf(writes, key) \in SUBSET (1 .. n)
      BY <1>1 DEF WritesOf
    <2>3. n - 1 \in Nat /\ n \in Nat
      BY <1>1
    <2>4. CASE WritesOf(rest, key) = {}
      <3>1. SettledOf(d, rest)[key] = d[key]
        BY <1>1, <1>2, <2>4, SettledAt
      <3>2. \A i \in WritesOf(writes, key) : i = 1
        <4> SUFFICES ASSUME NEW i \in WritesOf(writes, key), i # 1 PROVE FALSE
          OBVIOUS
        <4>1. i - 1 \in 1 .. n - 1 /\ (i - 1) + 1 = i
          BY <2>2, <2>3
        <4> QED
          BY <2>1, <2>4, <4>1
      <3>3. CASE WritesOf(writes, key) = {}
        <4>1. key \notin DOMAIN writes[1]
          BY <1>1, <3>3 DEF WritesOf
        <4> QED
          BY <1>2, <3>1, <3>3, <4>1, SettledAt
      <3>4. CASE WritesOf(writes, key) # {}
        <4>1. Max(WritesOf(writes, key)) = 1 /\ 1 \in WritesOf(writes, key)
          BY <2>2, <2>3, <3>2, <3>4, Greatest
        <4>2. key \in DOMAIN writes[1]
          BY <4>1 DEF WritesOf
        <4> QED
          BY <1>2, <3>1, <3>4, <4>1, <4>2, SettledAt
      <3> QED
        BY <3>3, <3>4
    <2>5. CASE WritesOf(rest, key) # {}
      <3> DEFINE m == Max(WritesOf(rest, key))
                 k == Max(WritesOf(writes, key))
      <3>1. m \in WritesOf(rest, key) /\ m \in 1 .. n - 1 /\ \A y \in WritesOf(rest, key) : y <= m
        BY <2>2, <2>3, <2>5, Greatest
      <3>2. m + 1 \in WritesOf(writes, key)
        BY <2>1, <3>1
      <3>3. k \in WritesOf(writes, key) /\ k \in 1 .. n /\ \A y \in WritesOf(writes, key) : y <= k
        BY <2>2, <2>3, <3>2, Greatest
      <3> HIDE DEF m, k
      <3>4. m + 1 <= k
        BY <3>2, <3>3
      <3>5. k - 1 \in 1 .. n - 1 /\ (k - 1) + 1 = k
        BY <2>3, <3>1, <3>3, <3>4
      <3>6. k - 1 \in WritesOf(rest, key)
        BY <2>1, <3>3, <3>5
      <3>7. k = m + 1
        BY <3>1, <3>3, <3>4, <3>6, <2>3
      <3>8. SettledOf(d, rest)[key] = rest[m][key] /\ SettledOf(c, writes)[key] = writes[k][key]
        BY <1>1, <1>2, <2>5, <3>3, SettledAt DEF m, k
      <3> QED
        BY <1>1, <3>1, <3>7, <3>8
    <2> QED
      BY <2>4, <2>5
  <1>4. /\ SettledOf(d, rest) = [key \in DOMAIN c |-> SettledOf(d, rest)[key]]
        /\ SettledOf(c, writes) = [key \in DOMAIN c |-> SettledOf(c, writes)[key]]
    BY <1>2 DEF SettledOf
  <1> QED
    BY <1>3, <1>4 DEF d, rest

-----------------------------------------------------------------------------
(* Types. *)

TaskPCs == {"idle", "line", "recheck", "write", "rewrite", "post", "repost",
            "verify", "reverify", "refresh"}
Answers == {"none", "ok", "conflict", "refused", "failed", "dropped"}
Shown == Pages \cup ZoneStates
TaskRecords ==
    [pc : TaskPCs, op : Ops, page : Shown, before : Sound, body : Writes \cup {<<>>},
     tries : 0 .. Attempts - 1, quiet : BOOLEAN, answer : Answers]
RestoreRecords ==
    [pc : {"idle", "read", "next", "waiting"}, phase : {"apply", "rollback"}, goal : Pages,
     previous : Pages, rev : Shown, old : Pages, changed : BOOLEAN, todo : SUBSET Keys,
     alone : BOOLEAN, outcome : {"none", "ok", "failed", "refused"}]

BlinkOK == config \in Sound /\ pending \in Seq(Writes)
TasksOK == task \in [Tasks -> TaskRecords]

(* The line holds the requests under way, once each. *)
Busy == {t \in Tasks : task[t].pc # "idle"}
LineOK ==
    /\ line \in Seq(Tasks)
    /\ \A i, j \in 1 .. Len(line) : line[i] = line[j] => i = j
    /\ \A t \in Tasks : t \in Busy <=> \E i \in 1 .. Len(line) : line[i] = t
RestoreOK ==
    /\ restore \in RestoreRecords
    /\ restore.pc # "waiting" => task[Restorer].pc = "idle"
CountersOK ==
    updates \in 0 .. MaxUpdates /\ appWrites \in 0 .. MaxAppWrites /\ faults \in 0 .. MaxFaults

Typed == BlinkOK /\ TasksOK /\ LineOK /\ RestoreOK /\ CountersOK

(* What an update is at: only the holder of settings_lock works. *)
Works(t) ==
    /\ task[t].pc \notin {"idle", "line"} => Holds(t)
    /\ task[t].pc = "recheck" => task[t].op.key = "init"
    /\ task[t].pc \in {"write", "rewrite"} => task[t].op.key \in Thresholds
    /\ task[t].pc \in {"post", "repost"} => task[t].body \in Writes
    /\ task[t].pc = "post" /\ task[t].op.key \notin Thresholds \cup {"init"} =>
        /\ task[t].body = Body(task[t].op, task[t].before)
        /\ task[t].op.key = "zones" => ZonesAreValid(task[t].before.zones, task[t].op.value)
    /\ task[t].quiet => task[t].pc \notin {"idle", "line"}
AllWork == \A t \in Tasks : Works(t)

(* What an undisturbed update can rely on: Blink has no write to apply but   *)
(* its own, so that what the camera will show is what it showed at first or  *)
(* that with the update in it.                                               *)
Wanted(t) == Written(Body(task[t].op, task[t].before), task[t].before)
Differs(t) ==     \* the camera did not show the value when the update began
    /\ task[t].op.key # "init" => ~ Shows(task[t].op, Body(task[t].op, task[t].before), task[t].before)
    /\ task[t].op.key = "init" => Missing \in {task[t].before.min, task[t].before.max}
    /\ task[t].op.key \in Thresholds => task[t].before[task[t].op.key] # Missing
Untouched(t) ==
    /\ pending = <<>> /\ config = task[t].before
    /\ task[t].pc = "post" =>
        /\ task[t].body = Body(task[t].op, task[t].before)
        /\ task[t].op.key \in Thresholds \cup {"init"} => Spaced(task[t].body)
Underway(t) ==
    /\ Settled = Wanted(t)
    /\ pending = <<>> \/ (Len(pending) = 1 /\ config = task[t].before)
    /\ task[t].op.key \in Thresholds \cup {"init"} => Spaced(Body(task[t].op, task[t].before))
    /\ task[t].pc = "verify" => task[t].body = Body(task[t].op, task[t].before)
Undisturbed(t) ==
    task[t].quiet =>
        /\ task[t].pc \in {"recheck", "write", "post", "verify", "rewrite"} => Differs(t)
        /\ task[t].pc \in {"recheck", "write", "post"} => Untouched(t)
        /\ task[t].pc \in {"verify", "rewrite"} => Underway(t)
        /\ task[t].pc = "repost" => Written(task[t].body, Settled) = task[t].before
        /\ task[t].pc = "reverify" => Settled = task[t].before
        /\ task[t].pc = "refresh" => Settled = Wanted(t) /\ task[t].page = Page(task[t].op, Settled)
AllExact == \A t \in Tasks : Undisturbed(t)

Inv == Typed /\ AllWork /\ AllExact

(* The pages and records the steps build. *)
LEMMA SettingsArePage == ASSUME NEW c \in Sound PROVE Settings(c) \in Pages
  <1>1. c.min \in Limits /\ c.max \in Limits /\ c.alerts \in BOOLEAN
    BY DEF Sound, Configs
  <1>2. Keys = {"min", "max", "alerts", "flip"}
    BY DEF Keys, Thresholds, Ordinary
  <1>3. Settings(c) = [min |-> c.min, max |-> c.max, alerts |-> c.alerts, flip |-> c.flip.n # 0]
    BY <1>2 DEF Settings, Value
  <1> QED
    BY <1>1, <1>3 DEF Pages

LEMMA PageIsShown == ASSUME NEW c \in Sound, NEW op PROVE Page(op, c) \in Shown
  BY SettingsArePage DEF Page, Shown, Sound, Configs

LEMMA FreshTask ==
    /\ NoTask \in TaskRecords /\ NoTask.pc = "idle" /\ NoTask.quiet = FALSE
    /\ NoRestore \in RestoreRecords /\ NoRestore.pc = "idle"
  <1>1. NoConfig \in Sound
    BY ClientsAssumption DEF NoConfig, Sound, Fits
  <1>2. Settings(NoConfig) \in Pages /\ Settings(NoConfig) \in Shown
    BY <1>1, SettingsArePage DEF Shown
  <1>3. NoOp \in Ops
    BY DEF NoOp, Ops, RestoreOps
  <1>4. 0 \in 0 .. Attempts - 1
    BY Numbers
  <1>5. NoTask \in TaskRecords
    BY <1>1, <1>2, <1>3, <1>4 DEF NoTask, TaskRecords, TaskPCs, Answers
  <1>6. NoRestore \in RestoreRecords /\ NoRestore.pc = "idle"
    BY <1>2 DEF NoRestore, RestoreRecords
  <1>7. NoTask.pc = "idle" /\ NoTask.quiet = FALSE
    BY DEF NoTask
  <1> QED
    BY <1>5, <1>6, <1>7

LEMMA AnsweredTask ==
    ASSUME NEW a \in Answers, NEW page \in Shown
    PROVE /\ [NoTask EXCEPT !.answer = a, !.page = page] \in TaskRecords
          /\ [NoTask EXCEPT !.answer = a, !.page = page].pc = "idle"
          /\ [NoTask EXCEPT !.answer = a, !.page = page].quiet = FALSE
          /\ [NoTask EXCEPT !.answer = a, !.page = page].answer = a
          /\ [NoTask EXCEPT !.answer = a, !.page = page].page = page
  BY FreshTask DEF TaskRecords

LEMMA ArrivedTask ==
    ASSUME NEW op \in Ops, NEW page \in Shown
    PROVE /\ [NoTask EXCEPT !.pc = "line", !.op = op, !.page = page] \in TaskRecords
          /\ [NoTask EXCEPT !.pc = "line", !.op = op, !.page = page].pc = "line"
          /\ [NoTask EXCEPT !.pc = "line", !.op = op, !.page = page].quiet = FALSE
  BY FreshTask DEF TaskRecords, TaskPCs

-----------------------------------------------------------------------------
(* The line of settings_lock. *)

LEMMA PlaceLeft ==
    ASSUME NEW s \in Seq(Tasks), NEW i \in 1 .. Len(s)
    PROVE /\ RemoveAt(s, i) \in Seq(Tasks)
          /\ Len(RemoveAt(s, i)) = Len(s) - 1
          /\ \A j \in 1 .. Len(s) - 1 :
                RemoveAt(s, i)[j] = IF j < i THEN s[j] ELSE s[j + 1]
  <1> DEFINE front == SubSeq(s, 1, i - 1)
             back == SubSeq(s, i + 1, Len(s))
  <1>1. /\ front \in Seq(Tasks) /\ Len(front) = i - 1
        /\ \A j \in 1 .. i - 1 : front[j] = s[j]
    OBVIOUS
  <1>2. /\ back \in Seq(Tasks) /\ Len(back) = Len(s) - i
        /\ \A j \in 1 .. Len(s) - i : back[j] = s[j + i]
    OBVIOUS
  <1>3. RemoveAt(s, i) = front \o back
    BY DEF RemoveAt
  <1> HIDE DEF front, back
  <1>4. front \o back \in Seq(Tasks) /\ Len(front \o back) = Len(s) - 1
    BY <1>1, <1>2
  <1>5. ASSUME NEW j \in 1 .. Len(s) - 1
        PROVE (front \o back)[j] = IF j < i THEN s[j] ELSE s[j + 1]
    <2>1. CASE j < i
      BY <1>1, <1>2, <2>1
    <2>2. CASE ~ (j < i)
      <3>1. j - (i - 1) \in 1 .. Len(s) - i /\ (j - (i - 1)) + i = j + 1
        BY <2>2
      <3>2. (front \o back)[j] = back[j - (i - 1)]
        BY <1>1, <1>2, <2>2
      <3> QED
        BY <1>2, <2>2, <3>1, <3>2
    <2> QED
      BY <2>1, <2>2
  <1> QED
    BY <1>3, <1>4, <1>5

LEMMA TakesPlace ==
    ASSUME Typed, NEW t \in Tasks, task[t].pc = "idle", line' = Append(line, t),
           NEW r, task' = [task EXCEPT ![t] = r], r.pc # "idle"
    PROVE LineOK' /\ \A u : Holds(u) => Holds(u)'
  <1>l. line \in Seq(Tasks) /\ Len(line) \in Nat
    BY DEF Typed, LineOK
  <1>0. /\ Len(line') = Len(line) + 1 /\ line' \in Seq(Tasks)
        /\ \A i \in 1 .. Len(line) : line'[i] = line[i]
        /\ line'[Len(line) + 1] = t
    BY <1>l
  <1>1. \A i \in 1 .. Len(line) : line[i] # t
    BY DEF Typed, LineOK, Busy
  <1>2. Busy' = Busy \cup {t} /\ t \notin Busy
    BY DEF Typed, TasksOK, Busy
  <1>4. \A i, j \in 1 .. Len(line') : line'[i] = line'[j] => i = j
    BY <1>l, <1>0, <1>1 DEF Typed, LineOK
  <1>5. ASSUME NEW u \in Tasks
        PROVE u \in Busy' <=> \E i \in 1 .. Len(line') : line'[i] = u
    <2>1. CASE u = t
      BY <1>l, <1>0, <1>2, <2>1
    <2>2. CASE u # t
      <3>1. u \in Busy' <=> \E i \in 1 .. Len(line) : line[i] = u
        BY <1>2, <2>2 DEF Typed, LineOK
      <3> QED
        BY <1>l, <1>0, <2>2, <3>1
    <2> QED
      BY <2>1, <2>2
  <1>6. ASSUME NEW u, Holds(u) PROVE Holds(u)'
    BY <1>l, <1>0, <1>6 DEF Holds
  <1> QED
    BY <1>0, <1>4, <1>5, <1>6 DEF LineOK

LEMMA GivesPlaceUp ==
    ASSUME Typed, NEW t \in Tasks,
           \E i \in DOMAIN line : line[i] = t /\ line' = RemoveAt(line, i),
           NEW r, task' = [task EXCEPT ![t] = r], r.pc = "idle"
    PROVE LineOK' /\ \A u : Holds(u) /\ u # t => Holds(u)'
  <1>l. line \in Seq(Tasks) /\ Len(line) \in Nat
    BY DEF Typed, LineOK
  <1>p. PICK k \in 1 .. Len(line) : line[k] = t /\ line' = RemoveAt(line, k)
    BY <1>l
  <1>0. /\ Len(line') = Len(line) - 1 /\ line' \in Seq(Tasks)
        /\ \A j \in 1 .. Len(line) - 1 : line'[j] = IF j < k THEN line[j] ELSE line[j + 1]
    BY <1>l, <1>p, PlaceLeft
  <1>d. \A i, j \in 1 .. Len(line) : line[i] = line[j] => i = j
    BY DEF Typed, LineOK
  <1>1. t \in Busy
    BY <1>p DEF Typed, LineOK
  <1>2. Busy' = Busy \ {t}
    BY DEF Typed, TasksOK, Busy
  <1>4. ASSUME NEW i \in 1 .. Len(line'), NEW j \in 1 .. Len(line'), line'[i] = line'[j]
        PROVE i = j
    <2> DEFINE from(n) == IF n < k THEN n ELSE n + 1
    <2>1. from(i) \in 1 .. Len(line) /\ from(j) \in 1 .. Len(line)
      BY <1>l, <1>0
    <2>2. line'[i] = line[from(i)] /\ line'[j] = line[from(j)]
      BY <1>l, <1>0
    <2>3. from(i) = from(j)
      BY <1>d, <1>4, <2>1, <2>2
    <2> QED
      BY <1>l, <1>0, <2>3
  <1>5. ASSUME NEW u \in Tasks
        PROVE u \in Busy' <=> \E i \in 1 .. Len(line') : line'[i] = u
    <2>1. ASSUME NEW i \in 1 .. Len(line'), line'[i] = u PROVE u \in Busy'
      <3> DEFINE n == IF i < k THEN i ELSE i + 1
      <3>1. n \in 1 .. Len(line) /\ n # k /\ line[n] = u
        BY <1>l, <1>0, <2>1
      <3>2. u # t
        BY <1>d, <1>p, <3>1
      <3> QED
        BY <1>2, <3>1, <3>2 DEF Typed, LineOK
    <2>2. ASSUME u \in Busy' PROVE \E i \in 1 .. Len(line') : line'[i] = u
      <3>1. PICK n \in 1 .. Len(line) : line[n] = u
        BY <1>2, <2>2 DEF Typed, LineOK
      <3>2. n # k
        BY <1>2, <1>p, <2>2, <3>1
      <3> DEFINE i == IF n < k THEN n ELSE n - 1
      <3>3. i \in 1 .. Len(line')
        BY <1>l, <1>0, <3>2
      <3>4. line'[i] = u
        BY <1>l, <1>0, <3>1, <3>2
      <3> QED
        BY <3>3, <3>4
    <2> QED
      BY <2>1, <2>2
  <1>6. ASSUME NEW u, Holds(u), u # t PROVE Holds(u)'
    <2>1. Len(line) >= 1 /\ line[1] = u
      BY <1>l, <1>6 DEF Holds
    <2>2. k # 1 /\ Len(line') >= 1
      BY <1>l, <1>p, <1>0, <1>6, <2>1
    <2>3. line'[1] = u
      BY <1>l, <1>0, <2>1, <2>2
    <2>4. Head(line') = line'[1] /\ line' # <<>>
      BY <1>0, <2>2
    <2> QED
      BY <2>3, <2>4 DEF Holds
  <1> QED
    BY <1>0, <1>4, <1>5, <1>6 DEF LineOK

LEMMA KeepsPlace ==
    ASSUME Typed, NEW t \in Tasks, task[t].pc # "idle", line' = line,
           NEW r, task' = [task EXCEPT ![t] = r], r.pc # "idle"
    PROVE LineOK' /\ \A u : Holds(u) => Holds(u)'
  <1>1. Busy' = Busy
    BY DEF Typed, TasksOK, Busy
  <1> QED
    BY <1>1 DEF Typed, LineOK, Holds

-----------------------------------------------------------------------------
(* What a step leaves of the invariant. *)

LEMMA OneHolder == ASSUME NEW t, NEW u, Holds(t), Holds(u) PROVE t = u
  BY DEF Holds

LEMMA OthersWait ==
    ASSUME AllWork, NEW t \in Tasks, Holds(t), NEW u \in Tasks, u # t
    PROVE task[u].pc \in {"idle", "line"}
  BY OneHolder DEF AllWork, Works

(* Who waits relies on nothing. *)
LEMMA Bystander ==
    ASSUME NEW u \in Tasks, Works(u), task[u].pc \in {"idle", "line"}, task'[u] = task[u]
    PROVE Works(u)' /\ Undisturbed(u)'
  BY DEF Works, Undisturbed

LEMMA SameWork ==
    ASSUME NEW u \in Tasks, Works(u), Undisturbed(u), task'[u] = task[u],
           UNCHANGED <<config, pending>>, Holds(u) => Holds(u)'
    PROVE Works(u)' /\ Undisturbed(u)'
  <1>1. Works(u)'
    BY DEF Works
  <1>2. Settled' = Settled
    BY DEF Settled
  <1>3. Differs(u)' = Differs(u) /\ Untouched(u)' = Untouched(u) /\ Underway(u)' = Underway(u)
    BY <1>2 DEF Differs, Untouched, Underway, Wanted
  <1>4. Wanted(u)' = Wanted(u)
    BY DEF Wanted
  <1>5. Undisturbed(u)'
    BY <1>2, <1>3, <1>4 DEF Undisturbed
  <1> QED
    BY <1>1, <1>5

(* The holder of the lock goes on. *)
LEMMA Moves ==
    ASSUME Inv, NEW t \in Tasks, Holds(t), task[t].pc # "idle",
           NEW r \in TaskRecords, task' = [task EXCEPT ![t] = r], r.pc # "idle", line' = line,
           BlinkOK', CountersOK', restore' \in RestoreRecords, restore'.pc = restore.pc,
           Works(t)', Undisturbed(t)'
    PROVE Inv'
  <1>1. TasksOK'
    BY DEF Inv, Typed, TasksOK
  <1>2. LineOK'
    BY KeepsPlace DEF Inv
  <1>3. RestoreOK'
    <2>1. \A u \in Tasks : task'[u].pc = "idle" => task[u].pc = "idle"
      BY DEF Inv, Typed, TasksOK
    <2>2. \A u \in Tasks : task[u].pc = "idle" => task'[u].pc = "idle"
      BY DEF Inv, Typed, TasksOK
    <2> QED
      BY <2>1, <2>2 DEF Inv, Typed, RestoreOK, Tasks
  <1>4. ASSUME NEW u \in Tasks PROVE Works(u)' /\ Undisturbed(u)'
    <2>1. CASE u = t
      BY <2>1
    <2>2. CASE u # t
      <3>1. task'[u] = task[u]
        BY <2>2 DEF Inv, Typed, TasksOK
      <3>2. task[u].pc \in {"idle", "line"} /\ Works(u)
        BY <2>2, OthersWait DEF Inv, AllWork
      <3> QED
        BY <3>1, <3>2, Bystander
    <2> QED
      BY <2>1, <2>2
  <1> QED
    BY <1>1, <1>2, <1>3, <1>4 DEF Inv, Typed, AllWork, AllExact

(* An update is answered, or dropped. *)
LEMMA Leaves ==
    ASSUME Inv, NEW t \in Tasks, NEW a \in Answers, NEW page \in Shown, Answer(t, a, page),
           UNCHANGED <<config, pending>>, CountersOK',
           restore' \in RestoreRecords, restore'.pc = restore.pc
    PROVE Inv'
  <1> DEFINE r == [NoTask EXCEPT !.answer = a, !.page = page]
  <1>a. r \in TaskRecords
    BY AnsweredTask
  <1>b. r.pc = "idle" /\ r.quiet = FALSE
    BY FreshTask DEF TaskRecords
  <1>1. r \in TaskRecords /\ r.pc = "idle" /\ r.quiet = FALSE
    BY <1>a, <1>b
  <1>2. task' = [task EXCEPT ![t] = r] /\ \E i \in DOMAIN line : line[i] = t /\ line' = RemoveAt(line, i)
    BY DEF Answer
  <1> HIDE DEF r
  <1>3. TasksOK' /\ task'[t] = r
    BY <1>1, <1>2 DEF Inv, Typed, TasksOK
  <1>4. LineOK' /\ \A u : Holds(u) /\ u # t => Holds(u)'
    BY <1>1, <1>2, GivesPlaceUp DEF Inv
  <1>5. RestoreOK'
    <2>1. \A u \in Tasks : task[u].pc = "idle" => task'[u].pc = "idle"
      BY <1>1, <1>2 DEF Inv, Typed, TasksOK
    <2> QED
      BY <2>1 DEF Inv, Typed, RestoreOK, Tasks
  <1>6. BlinkOK'
    BY DEF Inv, Typed, BlinkOK
  <1>7. ASSUME NEW u \in Tasks PROVE Works(u)' /\ Undisturbed(u)'
    <2>1. CASE u = t
      BY <1>1, <1>3, <2>1 DEF Works, Undisturbed
    <2>2. CASE u # t
      <3>1. task'[u] = task[u]
        BY <1>2, <2>2 DEF Inv, Typed, TasksOK
      <3> QED
        BY <1>4, <2>2, <3>1, SameWork DEF Inv, AllWork, AllExact
    <2> QED
      BY <2>1, <2>2
  <1> QED
    BY <1>3, <1>4, <1>5, <1>6, <1>7 DEF Inv, Typed, AllWork, AllExact

LEMMA Arrives ==
    ASSUME Inv, NEW t \in Tasks, NEW op \in Ops, NEW page \in Shown, Arrive(t, op, page),
           task[t].pc = "idle", UNCHANGED <<config, pending>>, CountersOK',
           restore' \in RestoreRecords,
           IF t = Restorer THEN restore'.pc = "waiting" ELSE restore'.pc = restore.pc
    PROVE Inv'
  <1> DEFINE r == [NoTask EXCEPT !.pc = "line", !.op = op, !.page = page]
  <1>1. r \in TaskRecords /\ r.pc = "line" /\ r.quiet = FALSE
    BY ArrivedTask
  <1>2. task' = [task EXCEPT ![t] = r] /\ line' = Append(line, t)
    BY DEF Arrive
  <1> HIDE DEF r
  <1>3. TasksOK' /\ task'[t] = r
    BY <1>1, <1>2 DEF Inv, Typed, TasksOK
  <1>4. LineOK' /\ \A u : Holds(u) => Holds(u)'
    BY <1>1, <1>2, TakesPlace DEF Inv
  <1>5. RestoreOK'
    <2>1. \A u \in Tasks : u # t => task'[u] = task[u]
      BY <1>2 DEF Inv, Typed, TasksOK
    <2> QED
      BY <2>1 DEF Inv, Typed, RestoreOK, Tasks
  <1>6. BlinkOK'
    BY DEF Inv, Typed, BlinkOK
  <1>7. ASSUME NEW u \in Tasks PROVE Works(u)' /\ Undisturbed(u)'
    <2>1. CASE u = t
      BY <1>1, <1>3, <2>1 DEF Works, Undisturbed
    <2>2. CASE u # t
      <3>1. task'[u] = task[u]
        BY <1>2, <2>2 DEF Inv, Typed, TasksOK
      <3> QED
        BY <1>4, <3>1, SameWork DEF Inv, AllWork, AllExact
    <2> QED
      BY <2>1, <2>2
  <1> QED
    BY <1>3, <1>4, <1>5, <1>6, <1>7 DEF Inv, Typed, AllWork, AllExact

(* A step of the adapter. *)
LEMMA RestoreMoves ==
    ASSUME Inv, UNCHANGED <<config, pending, task, line>>, CountersOK',
           restore' \in RestoreRecords,
           restore'.pc = "waiting" \/ task[Restorer].pc = "idle"
    PROVE Inv'
  <1>1. BlinkOK' /\ TasksOK' /\ LineOK' /\ RestoreOK'
    BY DEF Inv, Typed, BlinkOK, TasksOK, LineOK, Busy, RestoreOK
  <1>2. ASSUME NEW u \in Tasks PROVE Works(u)' /\ Undisturbed(u)'
    <2>1. Holds(u)' = Holds(u)
      BY DEF Holds
    <2> QED
      BY <2>1, SameWork DEF Inv, AllWork, AllExact
  <1> QED
    BY <1>1, <1>2 DEF Inv, Typed, AllWork, AllExact

-----------------------------------------------------------------------------
(* What a step makes of the record of its request. *)

LEMMA TaskTypes ==
    ASSUME Inv, NEW t \in Tasks
    PROVE /\ task[t] \in TaskRecords /\ task[t].pc \in TaskPCs /\ task[t].op \in Ops
          /\ task[t].page \in Shown /\ task[t].before \in Sound
          /\ task[t].body \in Writes \cup {<<>>} /\ task[t].tries \in 0 .. Attempts - 1
          /\ task[t].quiet \in BOOLEAN
          /\ config \in Sound /\ pending \in Seq(Writes)
          /\ Works(t) /\ Undisturbed(t)
  BY DEF Inv, Typed, TasksOK, TaskRecords, BlinkOK, AllWork, AllExact

LEMMA RestoreTypes ==
    ASSUME Inv
    PROVE /\ restore \in RestoreRecords /\ CountersOK /\ BlinkOK
          /\ restore.pc # "waiting" => task[Restorer].pc = "idle"
          /\ restore.goal \in Pages /\ restore.previous \in Pages /\ restore.rev \in Shown
  BY DEF Inv, Typed, RestoreOK, RestoreRecords

LEMMA Rechecks ==
    ASSUME Inv, NEW t \in Tasks, NEW b \in BOOLEAN,
           task' = [task EXCEPT ![t].pc = "recheck", ![t].before = config, ![t].quiet = b]
    PROVE \E r \in TaskRecords :
            /\ task' = [task EXCEPT ![t] = r] /\ task'[t] = r
            /\ r.pc = "recheck" /\ r.op = task[t].op /\ r.before = config /\ r.quiet = b
  <1> DEFINE r == [task[t] EXCEPT !.pc = "recheck", !.before = config, !.quiet = b]
  <1>1. task[t] \in TaskRecords /\ config \in Sound
    BY TaskTypes
  <1>2. r \in TaskRecords
    BY <1>1 DEF TaskRecords, TaskPCs
  <1>3. r.pc = "recheck" /\ r.op = task[t].op /\ r.before = config /\ r.quiet = b
    BY <1>1 DEF TaskRecords
  <1>4. task' = [task EXCEPT ![t] = r]
    BY DEF Inv, Typed, TasksOK
  <1> HIDE DEF r
  <1>5. task'[t] = r
    BY <1>4 DEF Inv, Typed, TasksOK
  <1> QED
    BY <1>2, <1>3, <1>4, <1>5

LEMMA GoesTo ==
    ASSUME Inv, NEW t \in Tasks, NEW pc \in TaskPCs, NEW body \in Writes \cup {<<>>},
           Goto(t, pc, body)
    PROVE \E r \in TaskRecords :
            /\ task' = [task EXCEPT ![t] = r] /\ task'[t] = r /\ line' = line
            /\ r.pc = pc /\ r.op = task[t].op /\ r.body = body
            /\ r.before = task[t].before /\ r.quiet = task[t].quiet
  <1> DEFINE r == [task[t] EXCEPT !.pc = pc, !.body = body, !.tries = 0]
  <1>1. task[t] \in TaskRecords /\ 0 \in 0 .. Attempts - 1
    BY TaskTypes, Numbers
  <1>2. r \in TaskRecords
    BY <1>1 DEF TaskRecords
  <1>3. /\ r.pc = pc /\ r.op = task[t].op /\ r.body = body
        /\ r.before = task[t].before /\ r.quiet = task[t].quiet
    BY <1>1 DEF TaskRecords
  <1>4. task' = [task EXCEPT ![t] = r] /\ line' = line
    BY DEF Goto, Inv, Typed, TasksOK
  <1> HIDE DEF r
  <1>5. task'[t] = r
    BY <1>4 DEF Inv, Typed, TasksOK
  <1> QED
    BY <1>2, <1>3, <1>4, <1>5

LEMMA Refreshes ==
    ASSUME Inv, NEW t \in Tasks, NEW page \in Shown,
           task' = [task EXCEPT ![t].pc = "refresh", ![t].page = page]
    PROVE \E r \in TaskRecords :
            /\ task' = [task EXCEPT ![t] = r] /\ task'[t] = r
            /\ r.pc = "refresh" /\ r.op = task[t].op /\ r.page = page
            /\ r.before = task[t].before /\ r.quiet = task[t].quiet
  <1> DEFINE r == [task[t] EXCEPT !.pc = "refresh", !.page = page]
  <1>1. task[t] \in TaskRecords
    BY TaskTypes
  <1>2. r \in TaskRecords
    BY <1>1 DEF TaskRecords, TaskPCs
  <1>3. /\ r.pc = "refresh" /\ r.op = task[t].op /\ r.page = page
        /\ r.before = task[t].before /\ r.quiet = task[t].quiet
    BY <1>1 DEF TaskRecords
  <1>4. task' = [task EXCEPT ![t] = r]
    BY DEF Inv, Typed, TasksOK
  <1> HIDE DEF r
  <1>5. task'[t] = r
    BY <1>4 DEF Inv, Typed, TasksOK
  <1> QED
    BY <1>2, <1>3, <1>4, <1>5

(* Another look at what Blink shows changes nothing but the count. *)
LEMMA LooksAgain ==
    ASSUME Inv, NEW t \in Tasks, task[t].tries + 1 < Attempts, Holds(t), task[t].pc # "idle",
           task' = [task EXCEPT ![t].tries = @ + 1], UNCHANGED <<line, config, pending, restore, counters>>
    PROVE Inv'
  <1> DEFINE r == [task[t] EXCEPT !.tries = task[t].tries + 1]
  <1>1. task[t] \in TaskRecords /\ task[t].tries \in 0 .. Attempts - 1 /\ Attempts \in Nat
    BY TaskTypes, Numbers
  <1>2. task[t].tries + 1 \in 0 .. Attempts - 1
    BY <1>1
  <1>3. r \in TaskRecords
    BY <1>1, <1>2 DEF TaskRecords
  <1>4. /\ r.pc = task[t].pc /\ r.op = task[t].op /\ r.body = task[t].body
        /\ r.before = task[t].before /\ r.quiet = task[t].quiet /\ r.page = task[t].page
    BY <1>1 DEF TaskRecords
  <1>5. task' = [task EXCEPT ![t] = r]
    BY DEF Inv, Typed, TasksOK
  <1> HIDE DEF r
  <1>6. task'[t] = r
    BY <1>5 DEF Inv, Typed, TasksOK
  <1>7. Works(t) /\ Undisturbed(t)
    BY TaskTypes
  <1>8. Works(t)'
    BY <1>4, <1>6, <1>7 DEF Works, Holds
  <1>9. Settled' = Settled /\ Wanted(t)' = Wanted(t)
    BY <1>4, <1>6 DEF Settled, Wanted
  <1>10. Differs(t)' <=> Differs(t)
    BY <1>4, <1>6 DEF Differs
  <1>11. Untouched(t)' <=> Untouched(t)
    BY <1>4, <1>6 DEF Untouched
  <1>12. Underway(t)' <=> Underway(t)
    BY <1>4, <1>6, <1>9 DEF Underway
  <1>13. Undisturbed(t)'
    BY <1>4, <1>6, <1>7, <1>9, <1>10, <1>11, <1>12 DEF Undisturbed
  <1>14. BlinkOK' /\ CountersOK' /\ restore' \in RestoreRecords
    BY RestoreTypes DEF counters, BlinkOK, CountersOK
  <1> QED
    BY <1>3, <1>4, <1>5, <1>8, <1>13, <1>14, Moves

-----------------------------------------------------------------------------
(* The steps of an update. *)

(* An answer in a step that leaves Blink and the adapter alone. *)
LEMMA QuietAnswer ==
    ASSUME Inv, NEW t \in Tasks, NEW a \in Answers, NEW page \in Shown, Answer(t, a, page),
           UNCHANGED <<config, pending, restore, counters>>
    PROVE Inv'
  <1>1. CountersOK' /\ restore' \in RestoreRecords /\ restore'.pc = restore.pc
    BY RestoreTypes DEF CountersOK, counters
  <1> QED
    BY <1>1, Leaves

LEMMA QuietMove ==
    ASSUME Inv, NEW t \in Tasks, Holds(t), task[t].pc # "idle",
           NEW r \in TaskRecords, task' = [task EXCEPT ![t] = r], r.pc # "idle",
           UNCHANGED <<line, config, pending, restore, counters>>,
           Works(t)', Undisturbed(t)'
    PROVE Inv'
  <1>1. BlinkOK' /\ CountersOK' /\ restore' \in RestoreRecords /\ restore'.pc = restore.pc
    BY RestoreTypes DEF BlinkOK, CountersOK, counters
  <1> QED
    BY <1>1, Moves

LEMMA StepReadBefore == ASSUME Inv, NEW t \in Tasks, ReadBefore(t) PROVE Inv'
  <1> DEFINE op == task[t].op
  <1>1. /\ Holds(t) /\ task[t].pc = "line" /\ UNCHANGED <<config, pending, restore, counters>>
    BY DEF ReadBefore, At
  <1>2. op \in Ops /\ task[t].page \in Shown /\ Page(op, config) \in Shown /\ config \in Sound
    BY TaskTypes, PageIsShown
  <1>3. op.key \in {"min", "max", "alerts", "flip", "init", "zones"}
    BY <1>2, OpShapes
  <1>q. (pending = <<>>) \in BOOLEAN
    OBVIOUS
  <1>4. CASE \/ \E a \in {"conflict", "refused"} : Answer(t, a, task[t].page)
             \/ Answer(t, "ok", Page(op, config))
    BY <1>1, <1>2, <1>4, QuietAnswer DEF Answers
  <1>5. CASE /\ op.key = "init"
             /\ \E k \in Thresholds : config[k] = Missing
             /\ task' = [task EXCEPT ![t].pc = "recheck", ![t].before = config,
                                     ![t].quiet = (pending = <<>>)]
             /\ line' = line
    <2>1. PICK r \in TaskRecords :
            /\ task' = [task EXCEPT ![t] = r] /\ task'[t] = r
            /\ r.pc = "recheck" /\ r.op = op /\ r.before = config /\ r.quiet = (pending = <<>>)
      BY <1>5, <1>q, Rechecks
    <2>2. Works(t)'
      BY <1>1, <1>5, <2>1 DEF Works, Holds
    <2>3. Missing \in {config.min, config.max} /\ op.key \notin Thresholds
      BY <1>5 DEF Thresholds
    <2>4. Differs(t)'
      BY <1>1, <1>5, <2>1, <2>3 DEF Differs
    <2>5. r.quiet => Untouched(t)'
      BY <1>1, <2>1 DEF Untouched
    <2>6. Undisturbed(t)'
      BY <2>1, <2>4, <2>5 DEF Undisturbed
    <2> QED
      BY <1>1, <1>5, <2>1, <2>2, <2>6, QuietMove
  <1>6. CASE /\ op.key # "init" /\ ~ Refused(op, config) /\ ~ Shows(op, Body(op, config), config)
             /\ task' = [task EXCEPT
                   ![t].pc = IF op.key \in Thresholds THEN "write" ELSE "post",
                   ![t].body = IF op.key \in Thresholds THEN <<>> ELSE Body(op, config),
                   ![t].before = config, ![t].quiet = (pending = <<>>)]
             /\ line' = line
    <2> DEFINE pc == IF op.key \in Thresholds THEN "write" ELSE "post"
               body == IF op.key \in Thresholds THEN <<>> ELSE Body(op, config)
               b == (pending = <<>>)
    <2>1. op.key \notin Thresholds => op.key \in {"alerts", "flip", "zones"} /\ body \in Writes
      BY <1>2, <1>3, <1>6, BodyIsWrite DEF Thresholds
    <2>2. pc \in TaskPCs /\ body \in Writes \cup {<<>>}
      BY <2>1 DEF TaskPCs
    <2>3. task' = [task EXCEPT ![t].pc = pc, ![t].body = body, ![t].before = config, ![t].quiet = b]
      BY <1>6
    <2>b. b \in BOOLEAN /\ (b <=> pending = <<>>)
      OBVIOUS
    <2>4. op.key \in Thresholds => pc = "write"
      OBVIOUS
    <2>5. op.key \notin Thresholds => pc = "post" /\ body = Body(op, config)
      OBVIOUS
    <2> HIDE DEF pc, body, b
    <2> DEFINE r == [task[t] EXCEPT !.pc = pc, !.body = body, !.before = config, !.quiet = b]
    <2>r. task' = [task EXCEPT ![t] = r]
      BY <2>3 DEF Inv, Typed, TasksOK
    <2>s. task[t] \in TaskRecords /\ config \in Sound
      BY TaskTypes
    <2>m. r \in TaskRecords
      BY <2>2, <2>b, <2>s DEF TaskRecords
    <2>f. r.pc = pc /\ r.op = op /\ r.body = body /\ r.before = config /\ r.quiet = b
      BY <2>s DEF TaskRecords
    <2> HIDE DEF r
    <2>6. /\ r \in TaskRecords /\ task' = [task EXCEPT ![t] = r] /\ task'[t] = r
          /\ r.pc = pc /\ r.op = op /\ r.body = body /\ r.before = config /\ r.quiet = b
      BY <2>r, <2>m, <2>f DEF Inv, Typed, TasksOK
    <2>7. op.key = "zones" => ZonesAreValid(config.zones, op.value)
      BY <1>6 DEF Refused, Thresholds
    <2>8. op.key \in Thresholds => config[op.key] # Missing
      BY <1>6 DEF Refused, Thresholds
    <2>9. Works(t)'
      BY <1>1, <1>6, <2>1, <2>4, <2>5, <2>6, <2>7 DEF Works, Holds
    <2>10. Differs(t)'
      BY <1>1, <1>6, <2>6, <2>8 DEF Differs
    <2>11. r.quiet => Untouched(t)'
      BY <1>1, <1>3, <1>6, <2>b, <2>4, <2>5, <2>6 DEF Untouched
    <2>12. Undisturbed(t)'
      BY <2>4, <2>5, <2>6, <2>10, <2>11 DEF Undisturbed
    <2> QED
      BY <1>1, <1>6, <2>4, <2>5, <2>6, <2>9, <2>12, QuietMove
  <1> QED
    BY <1>4, <1>5, <1>6 DEF ReadBefore

LEMMA StepRecheck == ASSUME Inv, NEW t \in Tasks, Recheck(t) PROVE Inv'
  <1> DEFINE op == task[t].op
  <1>1. /\ Holds(t) /\ task[t].pc = "recheck" /\ UNCHANGED <<config, pending, restore, counters>>
    BY DEF Recheck, At
  <1>2. op \in Ops /\ task[t].page \in Shown /\ op.key = "init"
    BY <1>1, TaskTypes DEF Works
  <1>3. CASE \E a \in {"conflict", "refused"} : Answer(t, a, task[t].page)
    BY <1>1, <1>2, <1>3, QuietAnswer DEF Answers
  <1>4. CASE Spaced(op.value) /\ Goto(t, "post", op.value)
    <2>1. op.value = [min |-> op.value.min, max |-> op.value.max]
      BY <1>2, OpShapes
    <2>2. op.value \in Writes
      BY <1>4, <2>1, PairIsWrite
    <2>3. PICK r \in TaskRecords :
            /\ task' = [task EXCEPT ![t] = r] /\ task'[t] = r /\ line' = line
            /\ r.pc = "post" /\ r.op = op /\ r.body = op.value
            /\ r.before = task[t].before /\ r.quiet = task[t].quiet
      BY <1>4, <2>2, GoesTo DEF TaskPCs
    <2>4. Works(t)'
      BY <1>1, <1>2, <2>2, <2>3 DEF Works, Holds
    <2>5. r.quiet => Differs(t) /\ Untouched(t)
      BY <1>1, <2>3, TaskTypes DEF Undisturbed
    <2>6. Body(op, task[t].before) = op.value
      BY <1>2 DEF Body
    <2>7. r.quiet => Differs(t)'
      BY <2>3, <2>5 DEF Differs
    <2>8. r.quiet => Untouched(t)'
      BY <1>1, <1>4, <2>3, <2>5, <2>6 DEF Untouched
    <2>9. Undisturbed(t)'
      BY <2>3, <2>7, <2>8 DEF Undisturbed
    <2> QED
      BY <1>1, <2>3, <2>4, <2>9, QuietMove
  <1> QED
    BY <1>3, <1>4 DEF Recheck

(* What has been written over comes back when the same is written as it was. *)
LEMMA Overwritten ==
    ASSUME NEW before \in Configs, NEW body, NEW undo, DOMAIN undo = DOMAIN body,
           \A key \in DOMAIN undo : undo[key] = before[key]
    PROVE Written(undo, Written(body, before)) = before
  <1>1. before = [key \in DOMAIN before |-> before[key]]
    BY DEF Configs
  <1>2. DOMAIN Written(body, before) = DOMAIN before
    BY DEF Written
  <1>3. \A key \in DOMAIN before :
            (IF key \in DOMAIN undo THEN undo[key] ELSE Written(body, before)[key]) = before[key]
    BY DEF Written
  <1>4. Written(undo, Written(body, before)) =
            [key \in DOMAIN before |-> IF key \in DOMAIN undo THEN undo[key]
                                       ELSE Written(body, before)[key]]
    BY <1>2 DEF Written
  <1> QED
    BY <1>1, <1>3, <1>4

(* The pairs that an update of a threshold writes. *)
LEMMA BodyIsPair ==
    ASSUME NEW op \in Ops, op.key \in Thresholds, NEW c
    PROVE Body(op, c) = IF op.key = "min" THEN [min |-> op.value, max |-> c.max]
                        ELSE [min |-> c.min, max |-> op.value]
  BY DEF Body, Thresholds

LEMMA UndoIsPair ==
    ASSUME NEW op \in Ops, op.key \in Thresholds, NEW before, NEW c
    PROVE UndoBody(op, before, c) = IF op.key = "min" THEN [min |-> before.min, max |-> c.max]
                                    ELSE [min |-> c.min, max |-> before.max]
  <1> DEFINE undo == [op EXCEPT !.value = before[op.key]]
  <1>1. op = [key |-> op.key, value |-> op.value]
    <2>1. CASE op \in Updates
      BY <2>1, ClientsAssumption
    <2>2. CASE op \in RestoreOps
      BY <2>2 DEF RestoreOps
    <2> QED
      BY <2>1, <2>2 DEF Ops
  <1>2. undo.key = op.key /\ undo.value = before[op.key]
    BY <1>1
  <1>3. UndoBody(op, before, c) = Body(undo, c)
    BY DEF UndoBody
  <1> HIDE DEF undo
  <1>4. CASE op.key = "min"
    BY <1>2, <1>3, <1>4 DEF Body
  <1>5. CASE op.key = "max"
    BY <1>2, <1>3, <1>5 DEF Body
  <1> QED
    BY <1>4, <1>5 DEF Thresholds

LEMMA UndoneThresholds ==
    ASSUME NEW op \in Ops, op.key \in Thresholds, NEW before \in Sound,
           NEW c, c = before \/ c = Written(Body(op, before), before)
    PROVE /\ UndoBody(op, before, c) = [min |-> before.min, max |-> before.max]
          /\ Written(UndoBody(op, before, c), Written(Body(op, before), before)) = before
  <1>1. DOMAIN before = {"min", "max", "alerts", "flip", "zones"} /\ before \in Configs
    BY DEF Sound, Configs
  <1> DEFINE body == Body(op, before)
             undo == UndoBody(op, before, c)
  <1>2. CASE op.key = "min"
    <2>1. body = [min |-> op.value, max |-> before.max]
      BY <1>2, BodyIsPair
    <2>2. Written(body, before).max = before.max
      BY <1>1, <2>1 DEF Written
    <2>3. undo = [min |-> before.min, max |-> c.max] /\ c.max = before.max
      BY <1>2, <2>2, UndoIsPair
    <2>4. DOMAIN undo = DOMAIN body
      BY <2>1, <2>3
    <2> QED
      BY <1>1, <2>3, <2>4, Overwritten
  <1>3. CASE op.key = "max"
    <2>1. body = [min |-> before.min, max |-> op.value]
      BY <1>3, BodyIsPair
    <2>2. Written(body, before).min = before.min
      BY <1>1, <2>1 DEF Written
    <2>3. undo = [min |-> c.min, max |-> before.max] /\ c.min = before.min
      BY <1>3, <2>2, UndoIsPair
    <2>4. DOMAIN undo = DOMAIN body
      BY <2>1, <2>3
    <2> QED
      BY <1>1, <2>3, <2>4, Overwritten
  <1> QED
    BY <1>2, <1>3 DEF Thresholds

LEMMA UndoneOthers ==
    ASSUME NEW op \in Ops, op.key \in {"alerts", "flip", "zones"}, NEW before \in Sound, NEW c
    PROVE Written(UndoBody(op, before, c), Written(Body(op, before), before)) = before
  <1>1. before \in Configs
    BY DEF Sound
  <1>2. UndoBody(op, before, c) = [key \in {op.key} |-> before[key]]
    BY UndoIsWrite
  <1>3. DOMAIN Body(op, before) = {op.key}
    BY BodyIsWrite
  <1> QED
    BY <1>1, <1>2, <1>3, Overwritten

(* An update under way, undisturbed: what Blink shows is what it showed *)
(* before, or the update.                                               *)
LEMMA ShowsOneOfTwo ==
    ASSUME Inv, NEW t \in Tasks, Underway(t)
    PROVE config = task[t].before \/ (pending = <<>> /\ config = Wanted(t) /\ Settled = config)
  <1>1. CASE pending = <<>>
    <2>1. config \in Configs
      BY TaskTypes DEF Sound
    <2>2. Settled = config
      BY <1>1, <2>1, NothingPending DEF Settled
    <2> QED
      BY <1>1, <2>2 DEF Underway
  <1>2. CASE pending # <<>>
    BY <1>2 DEF Underway
  <1> QED
    BY <1>1, <1>2

LEMMA StepReadThresholds == ASSUME Inv, NEW t \in Tasks, ReadThresholds(t) PROVE Inv'
  <1> DEFINE op == task[t].op
             before == task[t].before
             writing == task[t].pc = "write"
             body == IF writing THEN Body(op, config) ELSE UndoBody(op, before, config)
  <1>1. /\ Holds(t) /\ task[t].pc \in {"write", "rewrite"}
        /\ UNCHANGED <<config, pending, restore, counters>>
    BY DEF ReadThresholds, At
  <1>2. /\ op \in Ops /\ task[t].page \in Shown /\ op.key \in Thresholds
        /\ before \in Sound /\ config \in Sound /\ Undisturbed(t)
    BY <1>1, TaskTypes DEF Works
  <1>3. CASE Answer(t, "refused", task[t].page)
    BY <1>1, <1>2, <1>3, QuietAnswer DEF Answers
  <1>4. CASE Spaced(body) /\ Goto(t, IF writing THEN "post" ELSE "repost", body)
    <2>1. body = [min |-> body.min, max |-> body.max]
      BY <1>2, BodyIsPair, UndoIsPair
    <2>2. body \in Writes
      BY <1>4, <2>1, PairIsWrite
    <2> DEFINE pc == IF writing THEN "post" ELSE "repost"
    <2>3. pc \in TaskPCs
      BY DEF TaskPCs
    <2> HIDE DEF body
    <2>4. PICK r \in TaskRecords :
            /\ task' = [task EXCEPT ![t] = r] /\ task'[t] = r /\ line' = line
            /\ r.pc = pc /\ r.op = op /\ r.body = body
            /\ r.before = before /\ r.quiet = task[t].quiet
      BY <1>4, <2>2, <2>3, GoesTo
    <2>5. Works(t)'
      BY <1>1, <1>2, <2>2, <2>4 DEF Works, Holds
    <2>6. ASSUME writing PROVE Undisturbed(t)'
      <3>1. r.quiet => Differs(t) /\ Untouched(t)
        BY <1>2, <2>4, <2>6 DEF Undisturbed
      <3>2. r.quiet => Differs(t)'
        BY <2>4, <3>1 DEF Differs
      <3>3. body = Body(op, config)
        BY <2>6 DEF body
      <3>4. r.quiet => Untouched(t)'
        BY <1>1, <1>4, <2>4, <3>1, <3>3 DEF Untouched
      <3>5. r.pc = "post"
        BY <2>4, <2>6
      <3> QED
        BY <2>4, <3>2, <3>4, <3>5 DEF Undisturbed
    <2>7. ASSUME ~ writing PROVE Undisturbed(t)'
      <3>1. r.quiet => Underway(t)
        BY <1>1, <1>2, <2>4, <2>7 DEF Undisturbed
      <3>2. body = UndoBody(op, before, config)
        BY <2>7 DEF body
      <3>3. r.quiet => Written(body, Wanted(t)) = before
        BY <1>2, <3>1, <3>2, ShowsOneOfTwo, UndoneThresholds DEF Wanted
      <3>4. r.quiet => Settled = Wanted(t)
        BY <3>1 DEF Underway
      <3>5. Settled' = Settled
        BY <1>1 DEF Settled
      <3>6. r.pc = "repost"
        BY <2>4, <2>7
      <3> QED
        BY <2>4, <3>3, <3>4, <3>5, <3>6 DEF Undisturbed
    <2>8. Undisturbed(t)'
      BY <2>6, <2>7
    <2> QED
      BY <1>1, <2>4, <2>5, <2>8, QuietMove
  <1> QED
    BY <1>3, <1>4 DEF ReadThresholds

LEMMA StepPost == ASSUME Inv, NEW t \in Tasks, Post(t) PROVE Inv'
  <1> DEFINE op == task[t].op
             before == task[t].before
             body == task[t].body
             writing == task[t].pc = "post"
             pc == IF writing THEN "verify" ELSE "reverify"
  <1>1. /\ Holds(t) /\ task[t].pc \in {"post", "repost"} /\ UNCHANGED <<config, counters>>
        /\ pending' = Append(pending, body)
        /\ restore' = [restore EXCEPT !.alone = restore.alone /\ t = Restorer]
        /\ Goto(t, pc, body)
    BY DEF Post, At
  <1>2. /\ body \in Writes /\ pending \in Seq(Writes) /\ config \in Sound /\ Undisturbed(t)
    BY <1>1, TaskTypes DEF Works
  <1>3. pc \in TaskPCs
    BY DEF TaskPCs
  <1>4. PICK r \in TaskRecords :
            /\ task' = [task EXCEPT ![t] = r] /\ task'[t] = r /\ line' = line
            /\ r.pc = pc /\ r.op = op /\ r.body = body
            /\ r.before = before /\ r.quiet = task[t].quiet
    BY <1>1, <1>2, <1>3, GoesTo
  <1>5. Works(t)'
    BY <1>1, <1>4 DEF Works, Holds
  <1>6. Settled' = Written(body, Settled)
    BY <1>1, <1>2, PendingMore DEF Settled
  <1>7. ASSUME writing PROVE Undisturbed(t)'
    <2>1. r.quiet => Differs(t) /\ Untouched(t)
      BY <1>2, <1>4, <1>7 DEF Undisturbed
    <2>2. Differs(t) => Differs(t)'
      BY <1>4 DEF Differs
    <2>3. ASSUME r.quiet PROVE Underway(t)'
      <3>1. pending = <<>> /\ config = before /\ body = Body(op, before)
        BY <1>7, <2>1, <2>3 DEF Untouched
      <3>2. Settled = before
        BY <1>2, <3>1, NothingPending DEF Settled, Sound
      <3>3. Settled' = Wanted(t)'
        BY <1>4, <1>6, <3>1, <3>2 DEF Wanted
      <3>4. Len(pending') = 1 /\ config' = before
        BY <1>1, <3>1
      <3>5. op.key \in Thresholds \cup {"init"} => Spaced(body)
        BY <1>7, <2>1, <2>3 DEF Untouched
      <3> QED
        BY <1>4, <3>1, <3>3, <3>4, <3>5 DEF Underway
    <2>4. r.pc = "verify"
      BY <1>4, <1>7
    <2> QED
      BY <1>4, <2>1, <2>2, <2>3, <2>4 DEF Undisturbed
  <1>8. ASSUME ~ writing PROVE Undisturbed(t)'
    <2>1. r.quiet => Written(body, Settled) = before
      BY <1>1, <1>2, <1>4, <1>8 DEF Undisturbed
    <2>2. r.pc = "reverify"
      BY <1>4, <1>8
    <2> QED
      BY <1>4, <1>6, <2>1, <2>2 DEF Undisturbed
  <1>9. BlinkOK'
    BY <1>1, <1>2 DEF BlinkOK
  <1>10. CountersOK'
    BY <1>1, RestoreTypes DEF CountersOK, counters
  <1>11. restore' \in RestoreRecords /\ restore'.pc = restore.pc
    <2>1. restore \in RestoreRecords
      BY RestoreTypes
    <2>2. (restore.alone /\ t = Restorer) \in BOOLEAN
      BY <2>1 DEF RestoreRecords
    <2> QED
      BY <1>1, <2>1, <2>2 DEF RestoreRecords
  <1>12. Undisturbed(t)'
    BY <1>7, <1>8
  <1> QED
    BY <1>1, <1>4, <1>5, <1>9, <1>10, <1>11, <1>12, Moves

(* What the camera shows at last, when an update that is undisturbed looks. *)
LEMMA ShownIsWanted ==
    ASSUME Inv, NEW t \in Tasks, task[t].pc = "verify", task[t].quiet,
           Shows(task[t].op, task[t].body, config)
    PROVE config = Wanted(t) /\ Settled = config
  <1> DEFINE op == task[t].op
             before == task[t].before
  <1>1. Differs(t) /\ Underway(t) /\ op \in Ops
    BY TaskTypes DEF Undisturbed
  <1>2. task[t].body = Body(op, before)
    BY <1>1 DEF Underway
  <1>3. CASE config = before
    <2>1. op.key = "init"
      BY <1>1, <1>2, <1>3 DEF Differs
    <2>2. Body(op, before) = op.value
      BY <2>1 DEF Body
    <2>3. Spaced(op.value)
      BY <1>1, <2>1, <2>2 DEF Underway
    <2>4. config.min = op.value.min /\ config.max = op.value.max
      BY <1>2, <2>1, <2>2 DEF Shows
    <2>5. Missing \in {config.min, config.max}
      BY <1>1, <1>3, <2>1 DEF Differs
    <2> QED
      BY <2>3, <2>4, <2>5, Numbers DEF Spaced
  <1> QED
    BY <1>1, <1>3, ShowsOneOfTwo

LEMMA StepVerify == ASSUME Inv, NEW t \in Tasks, Verify(t) PROVE Inv'
  <1> DEFINE op == task[t].op
             before == task[t].before
  <1>1. /\ Holds(t) /\ task[t].pc = "verify" /\ UNCHANGED <<config, pending, restore, counters>>
    BY DEF Verify, At
  <1>2. /\ op \in Ops /\ task[t].page \in Shown /\ Page(op, config) \in Shown /\ config \in Sound
        /\ before \in Sound /\ Undisturbed(t)
    BY TaskTypes, PageIsShown
  <1>3. op.key \in {"min", "max", "alerts", "flip", "init", "zones"}
    BY <1>2, OpShapes
  <1>4. Settled' = Settled
    BY <1>1 DEF Settled
  <1>5. CASE Answer(t, "ok", Page(op, config)) \/ Answer(t, "failed", task[t].page)
    BY <1>1, <1>2, <1>5, QuietAnswer DEF Answers
  <1>6. CASE /\ Shows(op, task[t].body, config) /\ line' = line
             /\ task' = [task EXCEPT ![t].pc = "refresh", ![t].page = Page(op, config)]
    <2>1. PICK r \in TaskRecords :
            /\ task' = [task EXCEPT ![t] = r] /\ task'[t] = r
            /\ r.pc = "refresh" /\ r.op = op /\ r.page = Page(op, config)
            /\ r.before = before /\ r.quiet = task[t].quiet
      BY <1>2, <1>6, Refreshes
    <2>2. Works(t)'
      BY <1>1, <1>6, <2>1 DEF Works, Holds
    <2>3. r.quiet => config = Wanted(t) /\ Settled = config
      BY <1>1, <1>6, <2>1, ShownIsWanted
    <2>4. Wanted(t)' = Wanted(t)
      BY <2>1 DEF Wanted
    <2>5. Undisturbed(t)'
      BY <1>4, <2>1, <2>3, <2>4 DEF Undisturbed
    <2> QED
      BY <1>1, <1>6, <2>1, <2>2, <2>5, QuietMove
  <1>7. CASE task[t].tries + 1 < Attempts /\ task' = [task EXCEPT ![t].tries = @ + 1] /\ UNCHANGED line
    BY <1>1, <1>7, LooksAgain
  <1>8. CASE op.key \in Thresholds /\ Goto(t, "rewrite", <<>>)
    <2>1. PICK r \in TaskRecords :
            /\ task' = [task EXCEPT ![t] = r] /\ task'[t] = r /\ line' = line
            /\ r.pc = "rewrite" /\ r.op = op
            /\ r.before = before /\ r.quiet = task[t].quiet
      BY <1>8, GoesTo DEF TaskPCs
    <2>2. Works(t)'
      BY <1>1, <1>8, <2>1 DEF Works, Holds
    <2>3. r.quiet => Differs(t) /\ Underway(t)
      BY <1>1, <1>2, <2>1 DEF Undisturbed
    <2>4. Differs(t) => Differs(t)'
      BY <2>1 DEF Differs
    <2>5. Wanted(t)' = Wanted(t)
      BY <2>1 DEF Wanted
    <2>6. Underway(t) => Underway(t)'
      BY <1>1, <1>4, <2>1, <2>5 DEF Underway
    <2>7. Undisturbed(t)'
      BY <2>1, <2>3, <2>4, <2>6 DEF Undisturbed
    <2> QED
      BY <1>1, <2>1, <2>2, <2>7, QuietMove
  <1>9. CASE /\ op.key \in {"alerts", "flip", "zones"}
             /\ Goto(t, "repost", UndoBody(op, before, config))
    <2> DEFINE undo == UndoBody(op, before, config)
    <2>0. "repost" \in TaskPCs
      BY DEF TaskPCs
    <2>1. undo \in Writes
      BY <1>2, <1>9, UndoIsWrite
    <2>2. Written(undo, Wanted(t)) = before
      BY <1>2, <1>9, UndoneOthers DEF Wanted
    <2> HIDE DEF undo
    <2>3. PICK r \in TaskRecords :
            /\ task' = [task EXCEPT ![t] = r] /\ task'[t] = r /\ line' = line
            /\ r.pc = "repost" /\ r.op = op /\ r.body = undo
            /\ r.before = before /\ r.quiet = task[t].quiet
      BY <1>9, <2>0, <2>1, GoesTo DEF undo
    <2>4. Works(t)'
      BY <1>1, <2>1, <2>3 DEF Works, Holds
    <2>5. r.quiet => Settled = Wanted(t)
      BY <1>1, <1>2, <2>3 DEF Undisturbed, Underway
    <2>6. Undisturbed(t)'
      BY <1>4, <2>2, <2>3, <2>5 DEF Undisturbed
    <2> QED
      BY <1>1, <2>3, <2>4, <2>6, QuietMove
  <1> QED
    BY <1>3, <1>5, <1>6, <1>7, <1>8, <1>9 DEF Verify, Thresholds

LEMMA StepRefresh == ASSUME Inv, NEW t \in Tasks, Refresh(t) PROVE Inv'
  BY TaskTypes, QuietAnswer DEF Refresh, Answers

LEMMA StepReverify == ASSUME Inv, NEW t \in Tasks, Reverify(t) PROVE Inv'
  <1>1. /\ Holds(t) /\ task[t].pc = "reverify" /\ UNCHANGED <<config, pending, restore, counters>>
    BY DEF Reverify, At
  <1>2. CASE Answer(t, "failed", task[t].page)
    BY <1>1, <1>2, TaskTypes, QuietAnswer DEF Answers
  <1>3. CASE task[t].tries + 1 < Attempts /\ task' = [task EXCEPT ![t].tries = @ + 1] /\ UNCHANGED line
    BY <1>1, <1>3, LooksAgain
  <1> QED
    BY <1>2, <1>3 DEF Reverify

LEMMA StepAbandon == ASSUME Inv, NEW t \in Tasks, Abandon(t) PROVE Inv'
  <1>1. restore' \in RestoreRecords /\ restore'.pc = restore.pc
    BY RestoreTypes DEF Abandon, RestoreRecords
  <1>2. CountersOK'
    BY RestoreTypes, Numbers DEF Abandon, CountersOK
  <1> QED
    BY <1>1, <1>2, TaskTypes, Leaves DEF Abandon, Answers

-----------------------------------------------------------------------------
(* The steps of Blink and its app. *)

LEMMA StepApply == ASSUME Inv, Apply PROVE Inv'
  <1>1. /\ pending # <<>> /\ config' = Written(Head(pending), config) /\ pending' = Tail(pending)
        /\ UNCHANGED <<task, line, restore, counters>>
    BY DEF Apply
  <1>2. config \in Sound /\ pending \in Seq(Writes)
    BY DEF Inv, Typed, BlinkOK
  <1>3. Head(pending) \in Writes /\ Tail(pending) \in Seq(Writes)
    BY <1>1, <1>2
  <1>4. BlinkOK'
    BY <1>1, <1>2, <1>3, WrittenIsSound DEF BlinkOK
  <1>5. TasksOK' /\ LineOK' /\ RestoreOK' /\ CountersOK'
    BY <1>1 DEF Inv, Typed, TasksOK, LineOK, Busy, RestoreOK, CountersOK, counters
  <1>6. Settled' = Settled
    BY <1>1, <1>2, PendingApplied DEF Settled
  <1>7. ASSUME NEW t \in Tasks PROVE Works(t)' /\ Undisturbed(t)'
    <2>1. Works(t) /\ Undisturbed(t)
      BY TaskTypes
    <2>2. Works(t)'
      BY <1>1, <2>1 DEF Works, Holds
    <2>3. ~ Untouched(t)
      BY <1>1 DEF Untouched
    <2>4. Wanted(t)' = Wanted(t) /\ (Differs(t)' <=> Differs(t))
      BY <1>1 DEF Wanted, Differs
    <2>5. Underway(t) => Underway(t)'
      <3>1. Len(pending) = 1 => pending' = <<>>
        BY <1>1, <1>2
      <3> QED
        BY <1>1, <1>6, <2>4, <3>1 DEF Underway
    <2>6. Undisturbed(t)'
      BY <1>1, <1>6, <2>1, <2>3, <2>4, <2>5 DEF Undisturbed
    <2> QED
      BY <2>2, <2>6
  <1> QED
    BY <1>4, <1>5, <1>7 DEF Inv, Typed, AllWork, AllExact

LEMMA StepAppWrite == ASSUME Inv, AppWrite PROVE Inv'
  <1>1. /\ task' = [t \in Tasks |-> [task[t] EXCEPT !.quiet = FALSE]]
        /\ restore' = [restore EXCEPT !.alone = FALSE]
        /\ UNCHANGED <<pending, line, updates, faults>>
        /\ appWrites < MaxAppWrites /\ appWrites' = appWrites + 1
    BY DEF AppWrite
  <1>2. BlinkOK'
    <2>1. PICK body \in AppWrites : config' = Written(body, config)
      BY DEF AppWrite
    <2>2. body \in Writes
      BY ClientsAssumption
    <2> QED
      BY <1>1, <2>1, <2>2, WrittenIsSound DEF Inv, Typed, BlinkOK
  <1>3. ASSUME NEW t \in Tasks
        PROVE /\ task'[t] \in TaskRecords /\ task'[t].pc = task[t].pc /\ task'[t].op = task[t].op
              /\ task'[t].body = task[t].body /\ task'[t].before = task[t].before
              /\ task'[t].quiet = FALSE
    <2> DEFINE r == [task[t] EXCEPT !.quiet = FALSE]
    <2>1. task[t] \in TaskRecords
      BY TaskTypes
    <2>2. r \in TaskRecords
      BY <2>1 DEF TaskRecords
    <2>3. /\ r.pc = task[t].pc /\ r.op = task[t].op /\ r.body = task[t].body
          /\ r.before = task[t].before /\ r.quiet = FALSE
      BY <2>1 DEF TaskRecords
    <2>4. task'[t] = r
      BY <1>1
    <2> QED
      BY <2>2, <2>3, <2>4
  <1>4. TasksOK'
    BY <1>1, <1>3 DEF TasksOK
  <1>5. LineOK'
    <2>1. Busy' = Busy
      BY <1>3 DEF Busy
    <2> QED
      BY <1>1, <2>1 DEF Inv, Typed, LineOK
  <1>6. RestoreOK'
    BY <1>1, <1>3, RestoreTypes DEF RestoreOK, RestoreRecords, Tasks
  <1>7. CountersOK'
    BY <1>1, RestoreTypes, Numbers DEF CountersOK
  <1>8. ASSUME NEW t \in Tasks PROVE Works(t)' /\ Undisturbed(t)'
    BY <1>1, <1>3, TaskTypes DEF Works, Undisturbed, Holds
  <1> QED
    BY <1>2, <1>4, <1>5, <1>6, <1>7, <1>8 DEF Inv, Typed, AllWork, AllExact

-----------------------------------------------------------------------------
(* The requests of users, and the adapter. *)

LEMMA StepAsk == ASSUME Inv, NEW u \in Users, NEW op \in Updates, Ask(u, op) PROVE Inv'
  <1>1. /\ Arrive(u, op, Page(op, config)) /\ task[u].pc = "idle"
        /\ UNCHANGED <<config, pending>> /\ restore' = restore
    BY DEF Ask
  <1>2. u \in Tasks /\ op \in Ops /\ u # Restorer
    BY Numbers DEF Tasks, Ops
  <1>3. Page(op, config) \in Shown
    BY PageIsShown DEF Inv, Typed, BlinkOK
  <1>4. CountersOK'
    BY RestoreTypes, Numbers DEF Ask, CountersOK
  <1>5. restore' \in RestoreRecords /\ restore'.pc = restore.pc
    BY <1>1, RestoreTypes
  <1> QED
    BY <1>1, <1>2, <1>3, <1>4, <1>5, Arrives

LEMMA StepRestoreBackup == ASSUME Inv, NEW saved \in Backups, RestoreBackup(saved) PROVE Inv'
  <1> DEFINE page == Settings(config)
             now == [NoRestore EXCEPT !.goal = saved, !.previous = page, !.rev = page]
             alone == (pending = <<>>) /\ \A u \in Users : task[u].pc = "idle"
  <1>1. saved \in Pages /\ page \in Pages /\ page \in Shown
    BY ClientsAssumption, SettingsArePage DEF Inv, Typed, BlinkOK, Shown
  <1>2. now \in RestoreRecords /\ now.pc = "idle"
    BY <1>1, FreshTask DEF RestoreRecords
  <1>3. alone \in BOOLEAN
    OBVIOUS
  <1>4. UNCHANGED <<config, pending, task, line, counters>> /\ restore.pc = "idle"
    BY DEF RestoreBackup
  <1>5. restore' = IF Restorable(page, saved) THEN [now EXCEPT !.pc = "read", !.alone = alone]
                   ELSE [now EXCEPT !.outcome = "refused"]
    BY DEF RestoreBackup
  <1> HIDE DEF now, alone, page
  <1>6. restore' \in RestoreRecords
    <2>1. [now EXCEPT !.pc = "read", !.alone = alone] \in RestoreRecords
      BY <1>2, <1>3 DEF RestoreRecords
    <2>2. [now EXCEPT !.outcome = "refused"] \in RestoreRecords
      BY <1>2 DEF RestoreRecords
    <2> QED
      BY <1>5, <2>1, <2>2
  <1>7. task[Restorer].pc = "idle" /\ CountersOK'
    BY <1>4, RestoreTypes DEF CountersOK, counters
  <1> QED
    BY <1>4, <1>6, <1>7, RestoreMoves

LEMMA FailsIsTyped ==
    ASSUME Inv, NEW kind \in Answers PROVE Fails(kind) \in RestoreRecords
  <1>1. restore \in RestoreRecords /\ restore.previous \in Pages /\ restore.alone \in BOOLEAN
    BY RestoreTypes DEF RestoreRecords
  <1> DEFINE alone == restore.alone /\ kind # "failed"
  <1>2. alone \in BOOLEAN
    BY <1>1
  <1> HIDE DEF alone
  <1>3. [restore EXCEPT !.pc = "read", !.phase = "rollback", !.goal = restore.previous,
                        !.changed = FALSE, !.todo = {}, !.outcome = "failed",
                        !.alone = alone] \in RestoreRecords
    BY <1>1, <1>2 DEF RestoreRecords
  <1>4. [restore EXCEPT !.pc = "idle", !.todo = {}, !.alone = alone, !.outcome = "failed"]
            \in RestoreRecords
    BY <1>1, <1>2 DEF RestoreRecords
  <1> QED
    BY <1>3, <1>4 DEF Fails, alone

LEMMA StepReadCurrent == ASSUME Inv, ReadCurrent PROVE Inv'
  <1> DEFINE page == Settings(config)
             todo == Plan(page, restore.goal)
  <1>1. UNCHANGED <<config, pending, task, line, counters>> /\ restore.pc = "read"
    BY DEF ReadCurrent
  <1>2. page \in Pages /\ todo \in SUBSET Keys
    BY SettingsArePage DEF Inv, Typed, BlinkOK, Plan
  <1>3. \/ \E kind \in Answers : restore' = Fails(kind)
        \/ restore' = [restore EXCEPT !.pc = "next", !.old = page, !.todo = todo]
    BY DEF ReadCurrent, Answers
  <1> HIDE DEF page, todo
  <1>4. restore' \in RestoreRecords
    <2>1. restore \in RestoreRecords
      BY RestoreTypes
    <2>2. CASE \E kind \in Answers : restore' = Fails(kind)
      BY <2>2, FailsIsTyped
    <2> QED
      BY <1>2, <1>3, <2>1, <2>2 DEF RestoreRecords
  <1>5. task[Restorer].pc = "idle" /\ CountersOK'
    BY <1>1, RestoreTypes DEF CountersOK, counters
  <1> QED
    BY <1>1, <1>4, <1>5, RestoreMoves

LEMMA StepPostNext == ASSUME Inv, PostNext PROVE Inv'
  <1>1. PICK key \in restore.todo :
            /\ Arrive(Restorer, [key |-> key, value |-> restore.goal[key]], restore.rev)
            /\ restore' = [restore EXCEPT !.pc = "waiting", !.todo = restore.todo \ {key}]
    BY DEF PostNext
  <1>2. restore.pc = "next" /\ UNCHANGED <<config, pending, counters>>
    BY DEF PostNext
  <1> DEFINE op == [key |-> key, value |-> restore.goal[key]]
  <1>3. op \in Ops
    <2>1. key \in {"min", "max", "alerts", "flip"} /\ restore.goal \in Pages
      BY RestoreTypes DEF RestoreRecords, Keys, Thresholds, Ordinary
    <2> QED
      BY <2>1 DEF Ops, RestoreOps, Pages, Thresholds
  <1> HIDE DEF op
  <1>4. restore' \in RestoreRecords /\ restore'.pc = "waiting"
    BY <1>1, RestoreTypes DEF RestoreRecords
  <1>5. /\ Restorer \in Tasks /\ task[Restorer].pc = "idle" /\ restore.rev \in Shown /\ CountersOK'
        /\ UNCHANGED <<config, pending>>
    BY <1>2, RestoreTypes DEF Tasks, CountersOK, counters
  <1> QED
    BY <1>1, <1>3, <1>4, <1>5, Arrives DEF op

LEMMA StepTakeAnswer == ASSUME Inv, TakeAnswer PROVE Inv'
  <1> DEFINE page == task[Restorer].page
  <1>1. UNCHANGED <<config, pending, task, line, counters>> /\ task[Restorer].pc = "idle"
    BY DEF TakeAnswer
  <1>2. page \in Shown /\ task[Restorer].answer \in Answers
    BY DEF Inv, Typed, TasksOK, TaskRecords, Tasks
  <1>3. \/ \E kind \in Answers : restore' = Fails(kind)
        \/ restore' = [restore EXCEPT !.pc = "next", !.changed = TRUE, !.rev = page]
    BY <1>2 DEF TakeAnswer
  <1> HIDE DEF page
  <1>4. restore' \in RestoreRecords
    <2>1. restore \in RestoreRecords
      BY RestoreTypes
    <2>2. CASE \E kind \in Answers : restore' = Fails(kind)
      BY <2>2, FailsIsTyped
    <2> QED
      BY <1>2, <1>3, <2>1, <2>2 DEF RestoreRecords
  <1>5. CountersOK'
    BY <1>1, RestoreTypes DEF CountersOK, counters
  <1> QED
    BY <1>1, <1>4, <1>5, RestoreMoves

LEMMA StepConfirm == ASSUME Inv, Confirm PROVE Inv'
  <1> DEFINE outcome == IF restore.phase = "apply" THEN "ok" ELSE "failed"
  <1>1. UNCHANGED <<config, pending, task, line, counters>> /\ restore.pc = "next"
    BY DEF Confirm
  <1>2. outcome \in {"ok", "failed"}
    OBVIOUS
  <1>3. \/ \E kind \in Answers : restore' = Fails(kind)
        \/ restore' = [restore EXCEPT !.pc = "idle", !.outcome = outcome]
    BY DEF Confirm, Answers
  <1> HIDE DEF outcome
  <1>4. restore' \in RestoreRecords
    <2>1. restore \in RestoreRecords
      BY RestoreTypes
    <2>2. CASE \E kind \in Answers : restore' = Fails(kind)
      BY <2>2, FailsIsTyped
    <2> QED
      BY <1>2, <1>3, <2>1, <2>2 DEF RestoreRecords
  <1>5. CountersOK' /\ task[Restorer].pc = "idle"
    BY <1>1, RestoreTypes DEF CountersOK, counters
  <1> QED
    BY <1>1, <1>4, <1>5, RestoreMoves

LEMMA StepReadFails == ASSUME Inv, ReadFails PROVE Inv'
  <1>1. /\ UNCHANGED <<config, pending, task, line>> /\ restore.pc \in {"read", "next"}
        /\ restore' = [Fails("dropped") EXCEPT !.alone = FALSE]
    BY DEF ReadFails
  <1>2. Fails("dropped") \in RestoreRecords
    BY FailsIsTyped DEF Answers
  <1>3. restore' \in RestoreRecords
    BY <1>1, <1>2 DEF RestoreRecords
  <1>4. CountersOK' /\ task[Restorer].pc = "idle"
    BY <1>1, RestoreTypes, Numbers DEF CountersOK, ReadFails
  <1> QED
    BY <1>1, <1>3, <1>4, RestoreMoves

-----------------------------------------------------------------------------
(* The invariant. *)

LEMMA SettingsInit == ASSUME Init PROVE Inv
  <1>1. config \in Sound
    BY ClientsAssumption DEF Init, Sound, Fits
  <1>2. BlinkOK
    BY <1>1 DEF Init, BlinkOK
  <1>3. TasksOK /\ \A t \in Tasks : task[t].pc = "idle" /\ task[t].quiet = FALSE
    BY FreshTask DEF Init, TasksOK
  <1>4. LineOK
    BY <1>3 DEF Init, LineOK, Busy
  <1>5. RestoreOK
    BY <1>3, FreshTask DEF Init, RestoreOK, Tasks
  <1>6. CountersOK
    BY Numbers DEF Init, CountersOK
  <1>7. AllWork /\ AllExact
    BY <1>3 DEF AllWork, AllExact, Works, Undisturbed
  <1> QED
    BY <1>2, <1>3, <1>4, <1>5, <1>6, <1>7 DEF Inv, Typed

LEMMA SettingsStep == ASSUME Inv, [Next]_vars PROVE Inv'
  <1>1. CASE Adapter
    BY <1>1, StepReadCurrent, StepPostNext, StepTakeAnswer, StepConfirm DEF Adapter
  <1>2. ASSUME NEW t \in Tasks, Serve(t) PROVE Inv'
    BY <1>2, StepReadBefore, StepRecheck, StepReadThresholds, StepPost, StepVerify, StepRefresh,
       StepReverify DEF Serve
  <1>3. CASE UNCHANGED vars
    <2>1. UNCHANGED <<config, pending, task, line, restore, updates, appWrites, faults>>
      BY <1>3 DEF vars, counters
    <2>2. CountersOK' /\ restore' \in RestoreRecords /\ (restore'.pc = "waiting" \/ task[Restorer].pc = "idle")
      BY <2>1, RestoreTypes DEF CountersOK
    <2> QED
      BY <2>1, <2>2, RestoreMoves
  <1> QED
    BY <1>1, <1>2, <1>3, StepApply, StepAppWrite, StepReadFails, StepRestoreBackup, StepAsk,
       StepAbandon DEF Next

LEMMA SettingsAlways == Spec => []Inv
  <1>1. Init => Inv
    BY SettingsInit
  <1>2. Inv /\ [Next]_vars => Inv'
    BY SettingsStep
  <1> QED
    BY <1>1, <1>2, PTL DEF Spec

-----------------------------------------------------------------------------
(* The picture is divided into basic zones of MicroRows by MicroColumns cells. *)

LEMMA Division ==
    ASSUME NEW m \in Nat \ {0}, NEW x \in Nat
    PROVE x \div m \in Nat /\ x % m \in 0 .. m - 1 /\ x = (x \div m) * m + (x % m)
  <1>1. x % m \in 0 .. m - 1
    OBVIOUS
  <1>2. x = (x \div m) * m + (x % m)
    OBVIOUS
  <1>3. x \div m \in Nat
    OBVIOUS
  <1> QED
    BY <1>1, <1>2, <1>3

LEMMA OneDivision ==
    ASSUME NEW m \in Nat \ {0}, NEW a \in Nat, NEW c \in Nat,
           NEW b \in 0 .. m - 1, NEW d \in 0 .. m - 1, a * m + b = c * m + d
    PROVE a = c /\ b = d
  OBVIOUS

LEMMA Quotient ==
    ASSUME NEW m \in Nat \ {0}, NEW a \in Nat, NEW b \in 0 .. m - 1
    PROVE (a * m + b) \div m = a /\ (a * m + b) % m = b
  <1> DEFINE x == a * m + b
  <1>1. x \in Nat
    OBVIOUS
  <1> HIDE DEF x
  <1>2. x \div m \in Nat /\ x % m \in 0 .. m - 1 /\ x = (x \div m) * m + (x % m)
    BY <1>1, Division
  <1>3. (x \div m) * m + (x % m) = a * m + b
    BY <1>2 DEF x
  <1> DEFINE q == x \div m
             r == x % m
  <1> HIDE DEF q, r
  <1>4. q = a /\ r = b
    <2>1. q \in Nat /\ r \in 0 .. m - 1 /\ q * m + r = a * m + b
      BY <1>2, <1>3 DEF q, r
    <2> QED
      BY <2>1, OneDivision
  <1> QED
    BY <1>4 DEF x, q, r

LEMMA SmallQuotient ==
    ASSUME NEW m \in Nat \ {0}, NEW k \in Nat, NEW x \in Nat, x < k * m
    PROVE x \div m < k
  OBVIOUS

LEMMA BasicAt ==
    ASSUME NEW row \in 0 .. BasicRows - 1, NEW column \in 0 .. BasicColumns - 1
    PROVE row * BasicColumns + column \in Basics
  <1>1. /\ BasicRows \in Nat \ {0} /\ BasicColumns \in Nat \ {0}
    BY Numbers
  <1> DEFINE left == BasicRows - 1 - row
  <1>2. left \in Nat /\ BasicRows = row + left + 1
    BY <1>1
  <1> HIDE DEF left
  <1>3. left * BasicColumns \in Nat /\ row * BasicColumns \in Nat
    BY <1>1, <1>2
  <1>4. BasicRows * BasicColumns = row * BasicColumns + left * BasicColumns + BasicColumns
    BY <1>1, <1>2
  <1>5. row * BasicColumns + column \in Nat
    BY <1>1, <1>3
  <1>6. row * BasicColumns + column <= BasicRows * BasicColumns - 1
    BY <1>1, <1>3, <1>4
  <1>7. BasicRows * BasicColumns \in Nat
    BY <1>1
  <1> QED
    BY <1>5, <1>6, <1>7 DEF Basics

(* A cell that a valid zone covers, and the basic zone and bit it has. *)
LEMMA CellOf ==
    ASSUME NEW x \in Nat, NEW y \in Nat,
           x < BasicColumns * MicroColumns, y < BasicRows * MicroRows,
           NEW row \in 0 .. BasicRows - 1, NEW column \in 0 .. BasicColumns - 1
    PROVE BasicOf(x, y) = row * BasicColumns + column
            <=> /\ x = column * MicroColumns + (x % MicroColumns)
                /\ y = row * MicroRows + (y % MicroRows)
  <1>1. /\ BasicRows \in Nat \ {0} /\ BasicColumns \in Nat \ {0}
        /\ MicroRows \in Nat \ {0} /\ MicroColumns \in Nat \ {0}
    BY Numbers
  <1>2. row \in Nat /\ column \in Nat
    OBVIOUS
  <1> DEFINE i == y \div MicroRows
             j == x \div MicroColumns
             r == y % MicroRows
             c == x % MicroColumns
  <1>3. i \in Nat /\ r \in 0 .. MicroRows - 1 /\ y = i * MicroRows + r
    BY <1>1, Division
  <1>4. j \in Nat /\ c \in 0 .. MicroColumns - 1 /\ x = j * MicroColumns + c
    BY <1>1, Division
  <1>5. j < BasicColumns
    BY <1>1, SmallQuotient
  <1>6. BasicOf(x, y) = i * BasicColumns + j
    BY DEF BasicOf
  <1> HIDE DEF i, j, r, c
  <1>7. j \in 0 .. BasicColumns - 1
    BY <1>1, <1>4, <1>5
  <1>8. i * BasicColumns + j = row * BasicColumns + column <=> i = row /\ j = column
    BY <1>1, <1>2, <1>3, <1>7, OneDivision
  <1>9. x = column * MicroColumns + c <=> j = column
    BY <1>1, <1>2, <1>4, OneDivision
  <1>10. y = row * MicroRows + r <=> i = row
    BY <1>1, <1>2, <1>3, OneDivision
  <1>11. BasicOf(x, y) = row * BasicColumns + column
            <=> x = column * MicroColumns + c /\ y = row * MicroRows + r
    BY <1>6, <1>8, <1>9, <1>10
  <1> QED
    BY <1>11 DEF r, c

(* What a basic zone loses to valid privacy zones is what they cover of it. *)
LEMMA CoveredIsHidden ==
    ASSUME NEW masks \in Masks, NEW privacy \in Privacy, PrivacyIsValid(privacy),
           NEW row \in 0 .. BasicRows - 1, NEW column \in 0 .. BasicColumns - 1
    PROVE ApplyPrivacy(masks, privacy)[row * BasicColumns + column]
            = masks[row * BasicColumns + column] \ Hidden(privacy, row, column)
  <1> DEFINE b == row * BasicColumns + column
             points == UNION {Covered(privacy[i]) : i \in DOMAIN privacy}
             cells == (0 .. MicroRows - 1) \X (0 .. MicroColumns - 1)
             lost == {BitOf(p[1], p[2]) : p \in {q \in points : BasicOf(q[1], q[2]) = b}}
  <1>1. b \in Basics
    BY BasicAt
  <1>2. ApplyPrivacy(masks, privacy)[b] = masks[b] \ lost
    BY <1>1 DEF ApplyPrivacy
  <1>3. /\ BasicRows \in Nat \ {0} /\ BasicColumns \in Nat \ {0}
        /\ MicroRows \in Nat \ {0} /\ MicroColumns \in Nat \ {0}
    BY Numbers
  <1>4. ASSUME NEW z \in DOMAIN privacy
        PROVE /\ privacy[z].x \in Nat /\ privacy[z].y \in Nat
              /\ privacy[z].w \in Nat \ {0} /\ privacy[z].h \in Nat \ {0}
              /\ privacy[z].x + privacy[z].w <= BasicColumns * MicroColumns
              /\ privacy[z].y + privacy[z].h <= BasicRows * MicroRows
    <2> DEFINE Rectangles == [x : Nat, y : Nat, w : Nat, h : Nat]
    <2>0. privacy \in Seq(Rectangles)
      BY DEF Privacy
    <2> HIDE DEF Rectangles
    <2>r. privacy[z] \in Rectangles
      BY <2>0
    <2>1. privacy[z] \in [x : Nat, y : Nat, w : Nat, h : Nat]
      BY <2>r DEF Rectangles
    <2> QED
      BY <2>1 DEF PrivacyIsValid
  <1> HIDE DEF b
  <1>5. ASSUME NEW p \in points, BasicOf(p[1], p[2]) = b
        PROVE BitOf(p[1], p[2]) \in Hidden(privacy, row, column)
    <2>1. PICK z \in DOMAIN privacy : p \in Covered(privacy[z])
      OBVIOUS
    <2> DEFINE x == p[1]
               y == p[2]
               X == privacy[z].x
               Y == privacy[z].y
               W == privacy[z].w
               H == privacy[z].h
    <2>2. /\ X \in Nat /\ Y \in Nat /\ W \in Nat \ {0} /\ H \in Nat \ {0}
          /\ X + W <= BasicColumns * MicroColumns /\ Y + H <= BasicRows * MicroRows
      BY <1>4
    <2>3. x \in X .. X + W - 1 /\ y \in Y .. Y + H - 1
      BY <2>1 DEF Covered
    <2> HIDE DEF x, y, X, Y, W, H
    <2> DEFINE size == BasicColumns * MicroColumns
               height == BasicRows * MicroRows
    <2>4. size \in Nat /\ height \in Nat
      BY <1>3
    <2>5. X + W <= size /\ Y + H <= height
      BY <2>2
    <2> HIDE DEF size, height
    <2>6. x \in Nat /\ y \in Nat /\ x < size /\ y < height
      BY <2>2, <2>3, <2>4, <2>5
    <2> DEFINE r == y % MicroRows
               c == x % MicroColumns
    <2>7. r \in 0 .. MicroRows - 1 /\ c \in 0 .. MicroColumns - 1
      BY <1>3, <2>6, Division
    <2>8. BasicOf(x, y) = b
      BY <1>5 DEF x, y
    <2>9. x = column * MicroColumns + c /\ y = row * MicroRows + r
      BY <2>6, <2>8, CellOf DEF size, height, b
    <2>10. BitOf(x, y) = r * MicroColumns + c
      BY DEF BitOf
    <2> HIDE DEF r, c
    <2> DEFINE cell == <<r, c>>
    <2>11. cell \in cells /\ cell[1] = r /\ cell[2] = c
      BY <2>7
    <2> DEFINE left == column * MicroColumns
               top == row * MicroRows
    <2>l. left \in Nat /\ top \in Nat
      BY <1>3
    <2>m. x = left + c /\ y = top + r
      BY <2>9
    <2> HIDE DEF left, top
    <2>12. left + (c - X) \in 0 .. W - 1 /\ top + (r - Y) \in 0 .. H - 1
      BY <1>3, <2>2, <2>3, <2>7, <2>l, <2>m
    <2>13. /\ column * MicroColumns + cell[2] - privacy[z].x \in 0 .. privacy[z].w - 1
           /\ row * MicroRows + cell[1] - privacy[z].y \in 0 .. privacy[z].h - 1
      BY <2>11, <2>12 DEF X, Y, W, H, left, top
    <2>14. BitOf(x, y) = cell[1] * MicroColumns + cell[2]
      BY <2>10, <2>11
    <2> HIDE DEF cell
    <2>15. BitOf(x, y) \in Hidden(privacy, row, column)
      BY <2>11, <2>13, <2>14 DEF Hidden
    <2> QED
      BY <2>15 DEF x, y
  <1>6. ASSUME NEW cell \in cells, NEW z \in DOMAIN privacy,
               column * MicroColumns + cell[2] - privacy[z].x \in 0 .. privacy[z].w - 1,
               row * MicroRows + cell[1] - privacy[z].y \in 0 .. privacy[z].h - 1
        PROVE cell[1] * MicroColumns + cell[2] \in lost
    <2> DEFINE r == cell[1]
               c == cell[2]
               left == column * MicroColumns
               top == row * MicroRows
               x == left + c
               y == top + r
               X == privacy[z].x
               Y == privacy[z].y
               W == privacy[z].w
               H == privacy[z].h
    <2>1. r \in 0 .. MicroRows - 1 /\ c \in 0 .. MicroColumns - 1 /\ row \in Nat /\ column \in Nat
      OBVIOUS
    <2>2. left + (c - X) \in 0 .. W - 1 /\ top + (r - Y) \in 0 .. H - 1
      BY <1>6
    <2>3. X \in Nat /\ Y \in Nat /\ W \in Nat \ {0} /\ H \in Nat \ {0}
      BY <1>4
    <2>4. left \in Nat /\ top \in Nat
      BY <1>3, <2>1
    <2>5. X + W <= BasicColumns * MicroColumns /\ Y + H <= BasicRows * MicroRows
      BY <1>4
    <2>6. x % MicroColumns = c /\ y % MicroRows = r
      BY <1>3, <2>1, Quotient
    <2>7. BitOf(x, y) = r * MicroColumns + c
      BY <2>6 DEF BitOf
    <2> HIDE DEF r, c, left, top, X, Y, W, H
    <2>8. x \in Nat /\ y \in Nat /\ x \in X .. X + W - 1 /\ y \in Y .. Y + H - 1
      BY <1>3, <2>1, <2>2, <2>3, <2>4
    <2> DEFINE size == BasicColumns * MicroColumns
               height == BasicRows * MicroRows
    <2>9. size \in Nat /\ height \in Nat
      BY <1>3
    <2>10. X + W <= size /\ Y + H <= height
      BY <2>5
    <2> HIDE DEF size, height, x, y
    <2>11. x < size /\ y < height
      BY <2>3, <2>8, <2>9, <2>10
    <2>12. x = column * MicroColumns + (x % MicroColumns) /\ y = row * MicroRows + (y % MicroRows)
      BY <2>6 DEF x, y, left, top
    <2>13. BasicOf(x, y) = b
      BY <2>8, <2>11, <2>12, CellOf DEF size, height, b
    <2> DEFINE p == <<x, y>>
    <2>14. p \in Covered(privacy[z]) /\ p[1] = x /\ p[2] = y
      BY <2>8 DEF Covered, X, Y, W, H
    <2>15. p \in points
      BY <2>14
    <2> HIDE DEF p
    <2>16. BitOf(p[1], p[2]) \in lost
      BY <2>13, <2>14, <2>15
    <2> QED
      BY <2>7, <2>14, <2>16 DEF r, c
  <1>7. lost \subseteq Hidden(privacy, row, column)
    BY <1>5
  <1>8. Hidden(privacy, row, column) \subseteq lost
    BY <1>6 DEF Hidden
  <1> QED
    BY <1>2, <1>7, <1>8 DEF b

-----------------------------------------------------------------------------
(* An undisturbed update is all or nothing: the step that answers it. *)

Ends(t) == task'[t].pc = "idle" /\ task'[t].answer # "dropped"
Exact(t) ==
    IF task'[t].answer = "ok"
    THEN /\ Settled' = Written(Body(task[t].op, task[t].before), task[t].before)
         /\ task'[t].page = Page(task[t].op, Settled')
    ELSE Settled' = task[t].before \/ task[t].op.key = "init"

LEMMA AnswerIs ==
    ASSUME Inv, NEW t \in Tasks, NEW a \in Answers, NEW page \in Shown, Answer(t, a, page)
    PROVE task'[t].answer = a /\ task'[t].page = page
  <1> DEFINE r == [NoTask EXCEPT !.answer = a, !.page = page]
  <1>1. r.answer = a /\ r.page = page
    BY FreshTask DEF TaskRecords
  <1>2. task' = [task EXCEPT ![t] = r]
    BY DEF Answer
  <1> HIDE DEF r
  <1> QED
    BY <1>1, <1>2 DEF Inv, Typed, TasksOK

LEMMA OthersStay ==
    ASSUME Inv, NEW t \in Tasks, Serve(t) \/ Abandon(t), NEW u \in Tasks, u # t
    PROVE task'[u] = task[u]
  <1>1. task \in [Tasks -> TaskRecords]
    BY DEF Inv, Typed, TasksOK
  <1>2. CASE ReadBefore(t)
    BY <1>1, <1>2 DEF ReadBefore, Answer
  <1>3. CASE Recheck(t) \/ ReadThresholds(t) \/ Post(t)
    BY <1>1, <1>3 DEF Recheck, ReadThresholds, Post, Answer, Goto
  <1>4. CASE Verify(t)
    BY <1>1, <1>4 DEF Verify, Answer, Goto
  <1>5. CASE Refresh(t) \/ Reverify(t) \/ Abandon(t)
    BY <1>1, <1>5 DEF Refresh, Reverify, Abandon, Answer
  <1> QED
    BY <1>2, <1>3, <1>4, <1>5 DEF Serve

(* Goto does not answer. *)
LEMMA GotoGoesOn ==
    ASSUME Inv, NEW t \in Tasks, NEW pc \in TaskPCs \ {"idle"}, NEW body, Goto(t, pc, body)
    PROVE ~ Ends(t)
  BY DEF Goto, Ends, Inv, Typed, TasksOK, TaskRecords

LEMMA ExactReadThresholds ==
    ASSUME Inv, NEW t \in Tasks, task[t].quiet, ReadThresholds(t), Ends(t) PROVE Exact(t)
  <1> DEFINE op == task[t].op
             before == task[t].before
             writing == task[t].pc = "write"
             body == IF writing THEN Body(op, config) ELSE UndoBody(op, before, config)
             pc == IF writing THEN "post" ELSE "repost"
  <1>1. task[t].pc \in {"write", "rewrite"} /\ UNCHANGED <<config, pending>> /\ Settled' = Settled
    BY DEF ReadThresholds, At, Settled
  <1>2. /\ op \in Ops /\ op.key \in Thresholds /\ before \in Sound /\ task[t].page \in Shown
        /\ Undisturbed(t)
    BY <1>1, TaskTypes DEF Works
  <1>3. IF Spaced(body) THEN Goto(t, pc, body) ELSE Answer(t, "refused", task[t].page)
    BY DEF ReadThresholds
  <1>4. ~ Spaced(body)
    <2>1. pc \in TaskPCs \ {"idle"}
      BY DEF TaskPCs
    <2> HIDE DEF body, pc
    <2> QED
      BY <1>3, <2>1, GotoGoesOn
  <1>5. task'[t].answer = "refused"
    BY <1>2, <1>3, <1>4, AnswerIs DEF Answers
  <1>6. CASE writing
    <2>1. pending = <<>> /\ config = before
      BY <1>2, <1>6 DEF Undisturbed, Untouched
    <2>2. Settled = before
      BY <1>2, <2>1, NothingPending DEF Settled, Sound
    <2> QED
      BY <1>1, <1>5, <2>2 DEF Exact
  <1>7. CASE ~ writing
    <2>1. Underway(t) /\ Differs(t)
      BY <1>1, <1>2, <1>7 DEF Undisturbed
    <2>2. body = [min |-> before.min, max |-> before.max]
      BY <1>2, <1>7, <2>1, ShowsOneOfTwo, UndoneThresholds DEF Wanted
    <2>3. Spaced(Body(op, before)) /\ before[op.key] # Missing
      BY <1>2, <2>1 DEF Underway, Differs
    <2>4. CASE op.key = "min"
      <3>1. Body(op, before).max = before.max
        BY <1>2, <2>4, BodyIsPair
      <3>2. Missing \notin {before.min, before.max}
        BY <2>3, <2>4, <3>1, Numbers DEF Spaced
      <3> QED
        BY <1>2, <1>4, <2>2, <3>2 DEF Sound, Fits, Spaced
    <2>5. CASE op.key = "max"
      <3>1. Body(op, before).min = before.min
        BY <1>2, <2>5, BodyIsPair
      <3>2. Missing \notin {before.min, before.max}
        BY <2>3, <2>5, <3>1, Numbers DEF Spaced
      <3> QED
        BY <1>2, <1>4, <2>2, <3>2 DEF Sound, Fits, Spaced
    <2> QED
      BY <1>2, <2>4, <2>5 DEF Thresholds
  <1> QED
    BY <1>6, <1>7

LEMMA ExactVerify ==
    ASSUME Inv, NEW t \in Tasks, task[t].quiet, Verify(t), Ends(t) PROVE Exact(t)
  <1> DEFINE op == task[t].op
             before == task[t].before
  <1>1. /\ task[t].pc = "verify" /\ UNCHANGED <<config, pending>> /\ Settled' = Settled
    BY DEF Verify, At, Settled
  <1>2. /\ op \in Ops /\ before \in Sound /\ task[t].page \in Shown /\ Page(op, config) \in Shown
        /\ task[t] \in TaskRecords
    BY TaskTypes, PageIsShown
  <1>3. CASE Shows(op, task[t].body, config) /\ Answer(t, "ok", Page(op, config))
    <2>1. config = Wanted(t) /\ Settled = config
      BY <1>1, <1>3, ShownIsWanted
    <2>2. task'[t].answer = "ok" /\ task'[t].page = Page(op, config)
      BY <1>2, <1>3, AnswerIs DEF Answers
    <2> QED
      BY <1>1, <2>1, <2>2 DEF Exact, Wanted
  <1>4. CASE op.key = "init" /\ Answer(t, "failed", task[t].page)
    <2>1. task'[t].answer = "failed"
      BY <1>2, <1>4, AnswerIs DEF Answers
    <2> QED
      BY <1>4, <2>1 DEF Exact
  <1>5. CASE task' = [task EXCEPT ![t].pc = "refresh", ![t].page = Page(op, config)]
    BY <1>2, <1>5 DEF Ends, Inv, Typed, TasksOK, TaskRecords
  <1>6. CASE task' = [task EXCEPT ![t].tries = @ + 1]
    <2>1. task'[t].pc = task[t].pc
      BY <1>2, <1>6 DEF Inv, Typed, TasksOK, TaskRecords
    <2> QED
      BY <1>1, <2>1 DEF Ends
  <1>7. CASE Goto(t, "rewrite", <<>>) \/ Goto(t, "repost", UndoBody(op, before, config))
    BY <1>7, GotoGoesOn DEF TaskPCs
  <1> QED
    BY <1>3, <1>4, <1>5, <1>6, <1>7 DEF Verify

LEMMA ExactServe ==
    ASSUME Inv, NEW t \in Tasks, task[t].quiet, Serve(t), Ends(t) PROVE Exact(t)
  <1> DEFINE op == task[t].op
             before == task[t].before
  <1>1. op \in Ops /\ task[t].page \in Shown /\ Works(t) /\ Undisturbed(t) /\ task[t] \in TaskRecords
    BY TaskTypes
  <1>2. ~ ReadBefore(t)
    BY <1>1 DEF ReadBefore, At, Works
  <1>3. CASE Recheck(t)
    <2>1. op.key = "init"
      BY <1>1, <1>3 DEF Recheck, At, Works
    <2>2. ~ Goto(t, "post", op.value)
      BY GotoGoesOn DEF TaskPCs
    <2>3. \E a \in {"conflict", "refused"} : Answer(t, a, task[t].page)
      BY <1>3, <2>2 DEF Recheck
    <2>4. task'[t].answer # "ok"
      BY <1>1, <2>3, AnswerIs DEF Answers
    <2> QED
      BY <2>1, <2>4 DEF Exact
  <1>4. CASE Post(t)
    <2> DEFINE pc == IF task[t].pc = "post" THEN "verify" ELSE "reverify"
    <2>1. pc \in TaskPCs \ {"idle"} /\ Goto(t, pc, task[t].body)
      BY <1>4 DEF Post, TaskPCs
    <2> HIDE DEF pc
    <2> QED
      BY <2>1, GotoGoesOn
  <1>5. CASE Refresh(t)
    <2>1. task[t].pc = "refresh" /\ UNCHANGED <<config, pending>> /\ Answer(t, "ok", task[t].page)
      BY <1>5 DEF Refresh, At
    <2>2. task'[t].answer = "ok" /\ task'[t].page = task[t].page
      BY <1>1, <2>1, AnswerIs DEF Answers
    <2>3. Settled = Wanted(t) /\ task[t].page = Page(op, Settled)
      BY <1>1, <2>1 DEF Undisturbed
    <2>4. Settled' = Settled
      BY <2>1 DEF Settled
    <2> QED
      BY <2>2, <2>3, <2>4 DEF Exact, Wanted
  <1>6. CASE Reverify(t)
    <2>1. task[t].pc = "reverify" /\ UNCHANGED <<config, pending>>
      BY <1>6 DEF Reverify, At
    <2>2. task' # [task EXCEPT ![t].tries = @ + 1]
      <3>1. SUFFICES ASSUME task' = [task EXCEPT ![t].tries = @ + 1] PROVE FALSE
        OBVIOUS
      <3>2. task'[t].pc = task[t].pc
        BY <1>1, <3>1 DEF Inv, Typed, TasksOK, TaskRecords
      <3> QED
        BY <2>1, <3>2 DEF Ends
    <2>3. Answer(t, "failed", task[t].page)
      BY <1>6, <2>2 DEF Reverify
    <2>4. task'[t].answer = "failed"
      BY <1>1, <2>3, AnswerIs DEF Answers
    <2>5. Settled' = before
      BY <1>1, <2>1 DEF Undisturbed, Settled
    <2> QED
      BY <2>4, <2>5 DEF Exact
  <1> QED
    BY <1>2, <1>3, <1>4, <1>5, <1>6, ExactReadThresholds, ExactVerify DEF Serve

(* Only the step of an update itself ends it. *)
LEMMA ExactStep ==
    ASSUME Inv, [Next]_vars, NEW t \in Tasks, task[t].quiet, Ends(t) PROVE Exact(t)
  <1>1. task[t].pc \notin {"idle", "line"} /\ task \in [Tasks -> TaskRecords]
    BY TaskTypes DEF Works, Inv, Typed, TasksOK
  <1>2. ASSUME task'[t] = task[t] PROVE FALSE
    BY <1>1, <1>2 DEF Ends
  <1>3. CASE UNCHANGED task
    BY <1>2, <1>3
  <1>4. CASE AppWrite
    <2>1. task'[t] = [task[t] EXCEPT !.quiet = FALSE]
      BY <1>4 DEF AppWrite
    <2>2. task'[t].pc = task[t].pc
      BY <1>1, <2>1 DEF TaskRecords
    <2> QED
      BY <1>1, <2>2 DEF Ends
  <1>5. ASSUME NEW u \in Tasks, NEW op \in Ops, NEW page \in Shown, Arrive(u, op, page) PROVE FALSE
    <2> DEFINE r == [NoTask EXCEPT !.pc = "line", !.op = op, !.page = page]
    <2>1. r.pc = "line"
      BY ArrivedTask
    <2>2. task' = [task EXCEPT ![u] = r]
      BY <1>5 DEF Arrive
    <2> HIDE DEF r
    <2>3. CASE u = t
      BY <1>1, <2>1, <2>2, <2>3 DEF Ends
    <2>4. CASE u # t
      BY <1>1, <1>2, <2>2, <2>4
    <2> QED
      BY <2>3, <2>4
  <1>6. ASSUME NEW u \in Users, NEW op \in Updates, Ask(u, op) PROVE FALSE
    <2>1. u \in Tasks /\ op \in Ops
      BY DEF Tasks, Ops
    <2>2. Page(op, config) \in Shown
      BY PageIsShown, TaskTypes
    <2> QED
      BY <1>5, <1>6, <2>1, <2>2 DEF Ask
  <1>7. CASE PostNext
    <2>1. PICK key \in restore.todo :
            Arrive(Restorer, [key |-> key, value |-> restore.goal[key]], restore.rev)
      BY <1>7 DEF PostNext
    <2>2. key \in {"min", "max", "alerts", "flip"} /\ restore.goal \in Pages /\ restore.rev \in Shown
      BY RestoreTypes DEF RestoreRecords, Keys, Thresholds, Ordinary
    <2>3. [key |-> key, value |-> restore.goal[key]] \in Ops
      BY <2>2 DEF Ops, RestoreOps, Pages, Thresholds
    <2> QED
      BY <1>5, <2>1, <2>2, <2>3 DEF Tasks
  <1>8. ASSUME NEW u \in Tasks, Serve(u) PROVE Exact(t)
    BY <1>2, <1>8, OthersStay, ExactServe
  <1>9. ASSUME NEW u \in Tasks, Abandon(u) PROVE FALSE
    <2>1. u = t
      BY <1>2, <1>9, OthersStay
    <2>2. task'[t].answer = "dropped"
      BY <1>9, <2>1, TaskTypes, AnswerIs DEF Abandon, Answers
    <2> QED
      BY <2>2 DEF Ends
  <1> QED
    BY <1>3, <1>4, <1>6, <1>7, <1>8, <1>9
       DEF Next, vars, Adapter, Apply, ReadFails, RestoreBackup, ReadCurrent, TakeAnswer, Confirm

-----------------------------------------------------------------------------
(* A restore that is alone at the camera.  Of the keys that differ, those   *)
(* in todo still have the values of p, the others those of g.               *)

Pair(page) ==
    /\ page.min = Missing <=> page.max = Missing
    /\ Missing \notin {page.min, page.max} => Spaced(page)

Aim(p, g, todo, key) == IF key \in todo THEN p[key] ELSE g[key]
Reached(p, g, todo, c) == \A key \in Keys : Value(c, key) = Aim(p, g, todo, key)
Ordered(p, g, todo) ==
    /\ todo \subseteq Plan(p, g)
    /\ \A j \in Plan(p, g) \ todo, k \in todo : ~ Before(p, g, k, j)

(* While key is on its way, Blink and each of its writes have the old or the *)
(* new value of it, and of the others what they are at.                      *)
Between(p, g, todo, key, c) ==
    \A k \in Keys \cap DOMAIN c :
        IF k = key THEN Value(c, k) \in {p[k], g[k]} ELSE Value(c, k) = Aim(p, g, todo, k)
Turn(p, g, todo, key) ==
    key \in Plan(p, g) \ todo /\ Ordered(p, g, todo) /\ Ordered(p, g, todo \cup {key})

LEMMA KeysAre == Keys = {"min", "max", "alerts", "flip"}
  BY DEF Keys, Thresholds, Ordinary

LEMMA RankIs ==
    ASSUME NEW p \in Pages, NEW g \in Pages, NEW key \in Keys
    PROVE /\ key = "alerts" => Rank(p, g, key) = IF g.alerts THEN 4 ELSE 0
          /\ key # "alerts" => Rank(p, g, key) \in {1, 2, 3}
          /\ key = "min" => Rank(p, g, key) = IF g.min < p.min THEN 1 ELSE 3
          /\ key = "max" => Rank(p, g, key) = IF g.max > p.max THEN 1 ELSE 3
  BY KeysAre DEF Rank

(* Alerts go on last and off first. *)
LEMMA AlertsAtTheEnd ==
    ASSUME NEW p \in Pages, NEW g \in Pages, NEW todo, Ordered(p, g, todo), p.alerts # g.alerts
    PROVE /\ g.alerts /\ "alerts" \notin todo => todo = {}
          /\ ~ g.alerts /\ "alerts" \in todo => todo = Plan(p, g)
  <1>1. "alerts" \in Plan(p, g) /\ Plan(p, g) \subseteq Keys /\ todo \subseteq Plan(p, g)
    BY KeysAre DEF Plan, Ordered
  <1>2. \A k \in Keys : k # "alerts" => Rank(p, g, k) \in {1, 2, 3}
    BY RankIs
  <1>3. Rank(p, g, "alerts") = IF g.alerts THEN 4 ELSE 0
    BY KeysAre, RankIs
  <1>4. ASSUME g.alerts, "alerts" \notin todo, NEW k \in todo PROVE FALSE
    <2>1. Before(p, g, k, "alerts")
      BY <1>1, <1>2, <1>3, <1>4 DEF Before
    <2> QED
      BY <1>1, <1>4, <2>1 DEF Ordered
  <1>5. ASSUME ~ g.alerts, "alerts" \in todo, NEW j \in Plan(p, g) \ todo PROVE FALSE
    <2>1. Before(p, g, "alerts", j)
      BY <1>1, <1>2, <1>3, <1>5 DEF Before
    <2> QED
      BY <1>5, <2>1 DEF Ordered
  <1> QED
    BY <1>1, <1>4, <1>5

LEMMA AlertsFitReached ==
    ASSUME NEW p \in Pages, NEW g \in Pages, NEW todo, Ordered(p, g, todo), p.alerts # g.alerts,
           NEW c \in Sound, Reached(p, g, todo, c), c.alerts,
           NEW side \in {p, g}, side.alerts, NEW k \in Thresholds
    PROVE c[k] = side[k]
  <1>1. k \in Keys /\ Value(c, k) = c[k] /\ k # "alerts"
    BY KeysAre DEF Thresholds, Value
  <1>2. c.alerts = Aim(p, g, todo, "alerts")
    BY KeysAre DEF Reached, Value
  <1>3. c[k] = Aim(p, g, todo, k)
    BY <1>1 DEF Reached
  <1>4. p.alerts \in BOOLEAN /\ g.alerts \in BOOLEAN
    BY DEF Pages
  <1>5. CASE g.alerts
    <2>1. side = g /\ "alerts" \notin todo
      BY <1>2, <1>4, <1>5 DEF Aim
    <2>2. todo = {}
      BY <1>5, <2>1, AlertsAtTheEnd
    <2> QED
      BY <1>3, <2>1, <2>2 DEF Aim
  <1>6. CASE ~ g.alerts
    <2>1. side = p /\ "alerts" \in todo
      BY <1>2, <1>4, <1>6 DEF Aim
    <2>2. todo = Plan(p, g)
      BY <1>6, <2>1, AlertsAtTheEnd
    <2> QED
      BY <1>1, <1>3, <2>1, <2>2 DEF Aim, Plan
  <1> QED
    BY <1>5, <1>6

LEMMA AlertsFitBetween ==
    ASSUME NEW p \in Pages, NEW g \in Pages, NEW todo, NEW key, Turn(p, g, todo, key),
           p.alerts # g.alerts, NEW c \in Sound, Between(p, g, todo, key, c), c.alerts,
           NEW side \in {p, g}, side.alerts, NEW k \in Thresholds
    PROVE c[k] = side[k]
  <1>1. k \in Keys /\ Value(c, k) = c[k] /\ k # "alerts" /\ DOMAIN c = Keys \cup {"zones"}
    BY KeysAre DEF Thresholds, Value, Sound, Configs
  <1>2. p.alerts \in BOOLEAN /\ g.alerts \in BOOLEAN /\ "alerts" \in Keys /\ Value(c, "alerts") = c.alerts
    BY KeysAre DEF Pages, Value
  <1>3. key \in Plan(p, g) \ todo /\ Ordered(p, g, todo) /\ Ordered(p, g, todo \cup {key})
    BY DEF Turn
  <1>4. CASE key = "alerts"
    <2>1. c[k] = Aim(p, g, todo, k)
      BY <1>1, <1>4 DEF Between
    <2>2. CASE g.alerts
      <3>1. side = g /\ todo = {}
        BY <1>2, <1>3, <1>4, <2>2, AlertsAtTheEnd
      <3> QED
        BY <2>1, <3>1 DEF Aim
    <2>3. CASE ~ g.alerts
      <3>1. side = p /\ todo \cup {"alerts"} = Plan(p, g)
        BY <1>2, <1>3, <1>4, <2>3, AlertsAtTheEnd
      <3> QED
        BY <1>1, <2>1, <3>1 DEF Aim, Plan
    <2> QED
      BY <2>2, <2>3
  <1>5. CASE key # "alerts"
    <2>1. c.alerts = Aim(p, g, todo, "alerts")
      BY <1>1, <1>2, <1>5 DEF Between
    <2>2. CASE g.alerts
      <3>1. "alerts" \notin todo \cup {key}
        BY <1>2, <1>5, <2>1, <2>2 DEF Aim
      <3>2. todo \cup {key} = {}
        BY <1>3, <2>2, <3>1, AlertsAtTheEnd
      <3> QED
        BY <3>2
    <2>3. CASE ~ g.alerts
      <3>1. "alerts" \in todo
        BY <1>2, <2>1, <2>3 DEF Aim
      <3>2. todo = Plan(p, g)
        BY <1>3, <2>3, <3>1, AlertsAtTheEnd
      <3> QED
        BY <1>3, <3>2
    <2> QED
      BY <2>2, <2>3
  <1> QED
    BY <1>4, <1>5

(* Whatever pair of thresholds is written on the way, both ends are spaced   *)
(* and the one that makes more room was written first.                       *)
LEMMA Spacing ==
    ASSUME NEW p \in Pages, NEW g \in Pages, Pair(p), Pair(g), Restorable(p, g),
           NEW todo, NEW key \in Thresholds, Turn(p, g, todo, key), NEW v \in {p[key], g[key]}
    PROVE /\ v \in Degrees
          /\ key = "min" => Spaced([min |-> v, max |-> Aim(p, g, todo, "max")])
          /\ key = "max" => Spaced([min |-> Aim(p, g, todo, "min"), max |-> v])
  <1>1. key \in Plan(p, g) /\ key \notin todo /\ Ordered(p, g, todo) /\ Ordered(p, g, todo \cup {key})
    BY DEF Turn
  <1>2. p.min \in Limits /\ p.max \in Limits /\ g.min \in Limits /\ g.max \in Limits
    BY DEF Pages
  <1>3. Missing \notin {p[key], g[key]}
    BY <1>1 DEF Restorable, Plan
  <1>4. Missing \notin {p.min, p.max} /\ Missing \notin {g.min, g.max}
    BY <1>3 DEF Pair, Thresholds
  <1>5. Spaced(p) /\ Spaced(g)
    BY <1>4 DEF Pair
  <1>6. /\ p.min \in Degrees /\ p.max \in Degrees /\ g.min \in Degrees /\ g.max \in Degrees
        /\ p.max >= p.min + Gap /\ g.max >= g.min + Gap
    BY <1>5 DEF Spaced
  <1>7. /\ p.min \in Nat /\ p.max \in Nat /\ g.min \in Nat /\ g.max \in Nat /\ Gap \in Nat
    BY <1>6, Numbers
  <1>8. /\ Rank(p, g, "min") = IF g.min < p.min THEN 1 ELSE 3
        /\ Rank(p, g, "max") = IF g.max > p.max THEN 1 ELSE 3
    BY KeysAre, RankIs
  <1>9. /\ "min" \in Plan(p, g) <=> p.min # g.min
        /\ "max" \in Plan(p, g) <=> p.max # g.max
    BY KeysAre DEF Plan
  <1>10. CASE key = "min"
    <2>1. g.min # p.min
      BY <1>1, <1>9, <1>10
    <2> DEFINE w == Aim(p, g, todo, "max")
    <2>2. CASE p.max = g.max
      <3>1. w = p.max /\ w = g.max
        BY <2>2 DEF Aim
      <3> QED
        BY <1>6, <1>7, <1>10, <3>1 DEF Spaced
    <2>3. CASE p.max # g.max /\ "max" \in todo
      <3>1. w = p.max
        BY <2>3 DEF Aim
      <3>2. ~ Before(p, g, "max", "min")
        BY <1>1, <1>10, <2>3 DEF Ordered
      <3>3. g.max > p.max => g.min < p.min
        BY <1>8, <3>2 DEF Before
      <3>4. p.max >= p.min + Gap /\ p.max >= g.min + Gap
        BY <1>6, <1>7, <2>1, <3>3
      <3> QED
        BY <1>6, <1>10, <3>1, <3>4 DEF Spaced
    <2>4. CASE p.max # g.max /\ "max" \notin todo
      <3>1. w = g.max
        BY <2>4 DEF Aim
      <3>2. ~ Before(p, g, "min", "max")
        BY <1>1, <1>9, <1>10, <2>4 DEF Ordered
      <3>3. g.min < p.min => g.max > p.max
        BY <1>8, <3>2 DEF Before
      <3>4. g.max >= p.min + Gap /\ g.max >= g.min + Gap
        BY <1>6, <1>7, <2>1, <3>3
      <3> QED
        BY <1>6, <1>10, <3>1, <3>4 DEF Spaced
    <2> QED
      BY <2>2, <2>3, <2>4
  <1>11. CASE key = "max"
    <2>1. g.max # p.max
      BY <1>1, <1>9, <1>11
    <2> DEFINE w == Aim(p, g, todo, "min")
    <2>2. CASE p.min = g.min
      <3>1. w = p.min /\ w = g.min
        BY <2>2 DEF Aim
      <3> QED
        BY <1>6, <1>7, <1>11, <3>1 DEF Spaced
    <2>3. CASE p.min # g.min /\ "min" \in todo
      <3>1. w = p.min
        BY <2>3 DEF Aim
      <3>2. ~ Before(p, g, "min", "max")
        BY <1>1, <1>11, <2>3 DEF Ordered
      <3>3. g.min < p.min => g.max > p.max
        BY <1>8, <3>2 DEF Before
      <3>4. p.max >= p.min + Gap /\ g.max >= p.min + Gap
        BY <1>6, <1>7, <2>1, <2>3, <3>3
      <3> QED
        BY <1>6, <1>11, <3>1, <3>4 DEF Spaced
    <2>4. CASE p.min # g.min /\ "min" \notin todo
      <3>1. w = g.min
        BY <2>4 DEF Aim
      <3>2. ~ Before(p, g, "max", "min")
        BY <1>1, <1>9, <1>11, <2>4 DEF Ordered
      <3>3. g.max > p.max => g.min < p.min
        BY <1>8, <3>2 DEF Before
      <3>4. p.max >= g.min + Gap /\ g.max >= g.min + Gap
        BY <1>6, <1>7, <2>1, <2>4, <3>3
      <3> QED
        BY <1>6, <1>11, <3>1, <3>4 DEF Spaced
    <2> QED
      BY <2>2, <2>3, <2>4
  <1> QED
    BY <1>6, <1>10, <1>11 DEF Thresholds

(* Where a restore rs that is alone stands with its camera c, the writes that *)
(* Blink has accepted, and its request r.                                     *)
OnItsWay(rs, key, c, writes) ==
    /\ Turn(rs.previous, rs.goal, rs.todo, key)
    /\ Between(rs.previous, rs.goal, rs.todo, key, c)
    /\ \A i \in DOMAIN writes : Between(rs.previous, rs.goal, rs.todo, key, writes[i])
Rests(rs, c, writes) ==
    /\ writes = <<>>
    /\ Ordered(rs.previous, rs.goal, rs.todo) /\ Reached(rs.previous, rs.goal, rs.todo, c)
Sending(rs, c, writes, r) ==
    /\ OnItsWay(rs, r.op.key, c, writes)
    /\ r.op.value = rs.goal[r.op.key]
    /\ r.pc = "line" =>
        /\ writes = <<>> /\ r.page = Settings(c)
        /\ Reached(rs.previous, rs.goal, rs.todo \cup {r.op.key}, c)
    /\ r.pc # "line" =>
        r.quiet /\ Reached(rs.previous, rs.goal, rs.todo \cup {r.op.key}, r.before)
    /\ r.pc \in {"post", "repost"} => Between(rs.previous, rs.goal, rs.todo, r.op.key, r.body)
    /\ r.pc = "refresh" => Rests(rs, c, writes) /\ r.page = Settings(c)
Told(rs, c, writes, r) ==
    /\ r.answer \in {"ok", "failed"}
    /\ r.answer = "ok" => Rests(rs, c, writes) /\ r.page = Settings(c)
    /\ r.answer = "failed" => \E key \in Keys : OnItsWay(rs, key, c, writes)
Lone(rs, c, writes, r) ==
    /\ Restorable(rs.previous, rs.goal) /\ Pair(rs.previous) /\ Pair(rs.goal)
    /\ rs.phase = "apply" /\ rs.outcome = IF rs.pc = "idle" THEN "ok" ELSE "none"
    /\ rs.pc = "read" => writes = <<>> /\ Settings(c) = rs.previous /\ rs.rev = rs.previous
    /\ rs.pc = "idle" => writes = <<>> /\ Reached(rs.previous, rs.goal, {}, c)
    /\ rs.pc \in {"next", "waiting"} => rs.old = rs.previous
    /\ rs.pc = "next" => Rests(rs, c, writes) /\ Settings(c) = rs.rev
    /\ rs.pc = "waiting" =>
        IF r.pc = "idle" THEN Told(rs, c, writes, r) ELSE Sending(rs, c, writes, r)

Whole(c) == c.min = Missing <=> c.max = Missing
Alone == Whole(config) /\ (restore.alone => Lone(restore, config, pending, task[Restorer]))

LEMMA ValueAt ==
    ASSUME NEW c \in Sound
    PROVE /\ DOMAIN c = Keys \cup {"zones"}
          /\ DOMAIN Settings(c) = Keys /\ \A key \in Keys : Settings(c)[key] = Value(c, key)
          /\ Settings(c).min = c.min /\ Settings(c).max = c.max
  <1>1. DOMAIN c = Keys \cup {"zones"}
    BY KeysAre DEF Sound, Configs
  <1>2. Settings(c).min = c.min /\ Settings(c).max = c.max
    BY KeysAre DEF Settings, Value
  <1> QED
    BY <1>1, <1>2 DEF Settings

LEMMA WholePage ==
    ASSUME NEW c \in Sound, Whole(c) PROVE Pair(Settings(c))
  BY ValueAt DEF Whole, Pair, Sound, Fits, Spaced

LEMMA WrittenIsWhole ==
    ASSUME NEW c \in Sound, Whole(c), NEW body \in Writes PROVE Whole(Written(body, c))
  <1>1. DOMAIN c = {"min", "max", "alerts", "flip", "zones"}
    BY DEF Sound, Configs
  <1>2. CASE DOMAIN body = {"min", "max"} /\ body.min \in Degrees /\ body.max \in Degrees
    BY <1>1, <1>2, Numbers DEF Whole, Written
  <1>3. CASE DOMAIN body \in {{"alerts"}, {"flip"}, {"zones"}}
    <2>1. "min" \notin DOMAIN body /\ "max" \notin DOMAIN body
      BY <1>3
    <2>2. Written(body, c).min = c.min /\ Written(body, c).max = c.max
      BY <1>1, <2>1 DEF Written
    <2> QED
      BY <2>2 DEF Whole
  <1> QED
    BY <1>2, <1>3, WriteKinds

LEMMA WrittenIsBetween ==
    ASSUME NEW p \in Pages, NEW g \in Pages, NEW todo, NEW key, NEW c \in Sound, NEW body \in Writes,
           Between(p, g, todo, key, c), Between(p, g, todo, key, body)
    PROVE Between(p, g, todo, key, Written(body, c))
  <1> DEFINE d == Written(body, c)
  <1>1. DOMAIN c = Keys \cup {"zones"} /\ DOMAIN d = DOMAIN c
    BY ValueAt DEF Written
  <1>2. ASSUME NEW k \in Keys
        PROVE Value(d, k) = IF k \in DOMAIN body THEN Value(body, k) ELSE Value(c, k)
    <2>1. d[k] = IF k \in DOMAIN body THEN body[k] ELSE c[k]
      BY <1>1 DEF Written
    <2> QED
      BY <2>1 DEF Value
  <1> HIDE DEF d
  <1> QED
    BY <1>1, <1>2 DEF Between, d

LEMMA AppliedOnItsWay ==
    ASSUME NEW rs \in RestoreRecords, NEW key, NEW c \in Sound, NEW writes \in Seq(Writes),
           writes # <<>>, OnItsWay(rs, key, c, writes)
    PROVE OnItsWay(rs, key, Written(Head(writes), c), Tail(writes))
  <1>1. /\ 1 \in DOMAIN writes /\ Head(writes) = writes[1] /\ Head(writes) \in Writes
        /\ \A i \in DOMAIN Tail(writes) : i + 1 \in DOMAIN writes /\ Tail(writes)[i] = writes[i + 1]
    OBVIOUS
  <1>2. rs.previous \in Pages /\ rs.goal \in Pages
    BY DEF RestoreRecords
  <1>3. Between(rs.previous, rs.goal, rs.todo, key, Head(writes))
    BY <1>1 DEF OnItsWay
  <1>4. Between(rs.previous, rs.goal, rs.todo, key, Written(Head(writes), c))
    BY <1>1, <1>2, <1>3, WrittenIsBetween DEF OnItsWay
  <1> QED
    BY <1>1, <1>4 DEF OnItsWay

-----------------------------------------------------------------------------
(* The steps, with a restore that is alone. *)

LEMMA AloneFrame ==
    ASSUME Alone, UNCHANGED <<config, pending, restore>>, task'[Restorer] = task[Restorer]
    PROVE Alone'
  BY DEF Alone

LEMMA AloneApply == ASSUME Inv, Alone, Apply PROVE Alone'
  <1>1. /\ pending # <<>> /\ config' = Written(Head(pending), config) /\ pending' = Tail(pending)
        /\ UNCHANGED <<task, restore>>
    BY DEF Apply
  <1>2. config \in Sound /\ pending \in Seq(Writes) /\ Head(pending) \in Writes
    BY <1>1 DEF Inv, Typed, BlinkOK
  <1>3. Whole(config')
    BY <1>1, <1>2, WrittenIsWhole DEF Alone
  <1>4. ASSUME restore.alone PROVE Lone(restore, config', pending', task[Restorer])
    <2> DEFINE r == task[Restorer]
    <2>1. Lone(restore, config, pending, r) /\ restore \in RestoreRecords
      BY <1>4, RestoreTypes DEF Alone
    <2>2. restore.pc = "waiting"
      BY <1>1, <2>1 DEF Lone, Rests, RestoreRecords
    <2>3. \A key : OnItsWay(restore, key, config, pending) => OnItsWay(restore, key, config', pending')
      BY <1>1, <1>2, <2>1, AppliedOnItsWay
    <2>4. CASE r.pc = "idle"
      <3>1. Told(restore, config, pending, r)
        BY <2>1, <2>2, <2>4 DEF Lone
      <3>2. r.answer = "failed"
        BY <1>1, <3>1 DEF Told, Rests
      <3>3. Told(restore, config', pending', r)
        BY <2>3, <3>1, <3>2 DEF Told
      <3> QED
        BY <2>1, <2>2, <2>4, <3>3 DEF Lone
    <2>5. CASE r.pc # "idle"
      <3>1. Sending(restore, config, pending, r)
        BY <2>1, <2>2, <2>5 DEF Lone
      <3>2. r.pc # "line" /\ r.pc # "refresh"
        BY <1>1, <3>1 DEF Sending, Rests
      <3>3. Sending(restore, config', pending', r)
        BY <2>3, <3>1, <3>2 DEF Sending
      <3> QED
        BY <2>1, <2>2, <2>5, <3>3 DEF Lone
    <2> QED
      BY <2>4, <2>5
  <1> QED
    BY <1>1, <1>3, <1>4 DEF Alone

LEMMA AloneAppWrite == ASSUME Inv, Alone, AppWrite PROVE Alone'
  <1>1. PICK body \in AppWrites : config' = Written(body, config)
    BY DEF AppWrite
  <1>2. Whole(config')
    BY <1>1, WrittenIsWhole, ClientsAssumption DEF Alone, Inv, Typed, BlinkOK
  <1>3. restore'.alone = FALSE
    BY RestoreTypes DEF AppWrite, RestoreRecords
  <1> QED
    BY <1>2, <1>3 DEF Alone

(* Cameras and backups have both thresholds or none, and a backup's fit.     *)
(* restore_plan looks only at a threshold that differs; where the other one  *)
(* is missing, the engine refuses the pair that the restore then asks for.   *)
WholePairs == (\A c \in Initials : Whole(c)) /\ (\A saved \in Backups : Pair(saved))

LEMMA AloneRestoreBackup ==
    ASSUME WholePairs, Inv, Alone, NEW saved \in Backups, RestoreBackup(saved) PROVE Alone'
  <1> DEFINE page == Settings(config)
             now == [NoRestore EXCEPT !.goal = saved, !.previous = page, !.rev = page]
             alone == (pending = <<>>) /\ \A u \in Users : task[u].pc = "idle"
  <1>1. UNCHANGED <<config, pending, task>>
    BY DEF RestoreBackup
  <1>2. Pair(page) /\ Pair(saved)
    BY WholePage DEF Alone, Inv, Typed, BlinkOK, WholePairs
  <1>3. restore' = IF Restorable(page, saved) THEN [now EXCEPT !.pc = "read", !.alone = alone]
                   ELSE [now EXCEPT !.outcome = "refused"]
    BY DEF RestoreBackup
  <1>4. /\ now.previous = page /\ now.goal = saved /\ now.rev = page /\ now.phase = "apply"
        /\ now.outcome = "none" /\ now.alone = FALSE
    BY DEF NoRestore
  <1>5. alone => pending = <<>>
    OBVIOUS
  <1>6. DOMAIN now = {"pc", "phase", "goal", "previous", "rev", "changed", "old", "todo", "alone", "outcome"}
    BY DEF NoRestore
  <1> HIDE DEF now, alone
  <1>7. ASSUME restore'.alone PROVE Lone(restore', config, pending, task[Restorer])
    <2>1. Restorable(page, saved)
      BY <1>3, <1>4, <1>6, <1>7
    <2>2. restore' = [now EXCEPT !.pc = "read", !.alone = alone]
      BY <1>3, <2>1
    <2>3. /\ restore'.pc = "read" /\ restore'.alone = alone /\ restore'.previous = page
          /\ restore'.goal = saved /\ restore'.rev = page /\ restore'.phase = "apply"
          /\ restore'.outcome = "none"
      BY <1>4, <1>6, <2>2
    <2> HIDE DEF page
    <2>4. pending = <<>>
      BY <1>5, <1>7, <2>3
    <2> QED
      BY <1>2, <2>1, <2>3, <2>4 DEF Lone, page
  <1> QED
    BY <1>1, <1>7 DEF Alone

LEMMA AloneReadCurrent == ASSUME Inv, Alone, ReadCurrent PROVE Alone'
  <1> DEFINE page == Settings(config)
             p == restore.previous
             g == restore.goal
             r == task[Restorer]
  <1>1. UNCHANGED <<config, pending, task>> /\ restore.pc = "read"
    BY DEF ReadCurrent
  <1>2. restore \in RestoreRecords /\ p \in Pages /\ g \in Pages /\ config \in Sound
    BY RestoreTypes DEF BlinkOK
  <1>3. CASE restore.alone
    <2>1. /\ Lone(restore, config, pending, r) /\ pending = <<>> /\ page = p /\ restore.rev = p
          /\ Restorable(p, g)
      BY <1>1, <1>3 DEF Alone, Lone
    <2>2. restore' = [restore EXCEPT !.pc = "next", !.old = page, !.todo = Plan(page, g)]
      BY <2>1 DEF ReadCurrent
    <2> DEFINE todo == Plan(p, g)
    <2>3. restore' = [restore EXCEPT !.pc = "next", !.old = p, !.todo = todo]
      BY <2>1, <2>2
    <2>4. Ordered(p, g, todo)
      BY DEF Ordered
    <2>5. Reached(p, g, todo, config)
      BY <1>2, <2>1, ValueAt DEF Reached, Aim, Plan
    <2> HIDE DEF todo, page
    <2>6. /\ restore'.pc = "next" /\ restore'.old = p /\ restore'.todo = todo
          /\ restore'.previous = p /\ restore'.goal = g /\ restore'.rev = restore.rev
          /\ restore'.phase = restore.phase /\ restore'.outcome = restore.outcome
      BY <1>2, <2>3 DEF RestoreRecords
    <2>7. Rests(restore', config, pending)
      BY <2>1, <2>4, <2>5, <2>6 DEF Rests
    <2>8. restore.phase = "apply" /\ restore.outcome = "none" /\ Pair(p) /\ Pair(g)
      BY <1>1, <2>1 DEF Lone
    <2>9. Lone(restore', config, pending, r)
      BY <2>1, <2>6, <2>7, <2>8 DEF Lone, page
    <2> QED
      BY <1>1, <2>9 DEF Alone
  <1>4. CASE ~ restore.alone
    <2>1. restore'.alone = FALSE
      <3>1. restore.alone = FALSE
        BY <1>2, <1>4 DEF RestoreRecords
      <3>2. \A kind \in {"conflict", "refused"} : Fails(kind).alone = FALSE
        BY <1>2, <3>1 DEF Fails, RestoreRecords
      <3> QED
        BY <1>2, <3>1, <3>2 DEF ReadCurrent, RestoreRecords
    <2> QED
      BY <1>1, <2>1 DEF Alone
  <1> QED
    BY <1>3, <1>4

LEMMA AlonePostNext == ASSUME Inv, Alone, PostNext PROVE Alone'
  <1> DEFINE p == restore.previous
             g == restore.goal
             todo == restore.todo
  <1>1. PICK key \in todo :
            /\ \A k \in todo : ~ Before(restore.old, g, k, key)
            /\ Arrive(Restorer, [key |-> key, value |-> g[key]], restore.rev)
            /\ restore' = [restore EXCEPT !.pc = "waiting", !.todo = todo \ {key}]
    BY DEF PostNext
  <1>2. restore.pc = "next" /\ UNCHANGED <<config, pending>>
    BY DEF PostNext
  <1>3. /\ restore \in RestoreRecords /\ p \in Pages /\ g \in Pages /\ todo \subseteq Keys
        /\ config \in Sound
    BY RestoreTypes DEF BlinkOK, RestoreRecords
  <1> DEFINE rest == todo \ {key}
  <1>4. /\ restore'.pc = "waiting" /\ restore'.todo = rest /\ restore'.alone = restore.alone
        /\ restore'.previous = p /\ restore'.goal = g /\ restore'.old = restore.old
        /\ restore'.phase = restore.phase /\ restore'.outcome = restore.outcome
    BY <1>1, <1>3 DEF RestoreRecords
  <1>5. ASSUME restore.alone PROVE Lone(restore', config, pending, task'[Restorer])
    <2>1. /\ restore.old = p /\ Rests(restore, config, pending) /\ Settings(config) = restore.rev
          /\ Restorable(p, g) /\ Pair(p) /\ Pair(g) /\ restore.phase = "apply" /\ restore.outcome = "none"
      BY <1>2, <1>5 DEF Alone, Lone
    <2>2. pending = <<>> /\ Ordered(p, g, todo) /\ Reached(p, g, todo, config)
      BY <2>1 DEF Rests
    <2>3. rest \cup {key} = todo /\ key \in Plan(p, g) \ rest
      BY <2>2 DEF Ordered
    <2>4. Ordered(p, g, rest)
      BY <1>1, <2>1, <2>2 DEF Ordered
    <2>5. Turn(p, g, rest, key)
      BY <2>2, <2>3, <2>4 DEF Turn
    <2>6. Between(p, g, rest, key, config)
      BY <1>3, <2>2 DEF Between, Reached, Aim
    <2> DEFINE op == [key |-> key, value |-> g[key]]
               r == [NoTask EXCEPT !.pc = "line", !.op = op, !.page = restore.rev]
    <2>7. op.key = key /\ op.value = g[key]
      OBVIOUS
    <2> HIDE DEF op
    <2>8. r.pc = "line" /\ r.op = op /\ r.page = restore.rev
      BY DEF NoTask
    <2>9. task'[Restorer] = r
      <3>1. task' = [task EXCEPT ![Restorer] = r]
        BY <1>1 DEF Arrive, op
      <3> HIDE DEF r
      <3> QED
        BY <3>1 DEF Inv, Typed, TasksOK, Tasks
    <2> HIDE DEF r, rest
    <2>10. OnItsWay(restore', key, config, pending)
      BY <1>4, <2>2, <2>5, <2>6 DEF OnItsWay
    <2>11. Sending(restore', config, pending, r)
      BY <1>4, <2>1, <2>2, <2>3, <2>7, <2>8, <2>10 DEF Sending
    <2> QED
      BY <1>4, <2>1, <2>8, <2>9, <2>11 DEF Lone
  <1> QED
    BY <1>2, <1>4, <1>5 DEF Alone

LEMMA FailsAlone ==
    ASSUME Inv, NEW kind \in Answers
    PROVE Fails(kind).alone => restore.alone /\ kind # "failed"
  BY RestoreTypes DEF Fails, RestoreRecords

LEMMA AloneTakeAnswer == ASSUME Inv, Alone, TakeAnswer PROVE Alone'
  <1> DEFINE r == task[Restorer]
  <1>1. UNCHANGED <<config, pending, task>> /\ restore.pc = "waiting" /\ r.pc = "idle"
    BY DEF TakeAnswer
  <1>2. restore \in RestoreRecords /\ r.answer \in Answers
    BY RestoreTypes, TaskTypes DEF Tasks, TaskRecords
  <1>3. ASSUME restore.alone, restore'.alone PROVE Lone(restore', config, pending, r)
    <2>1. Lone(restore, config, pending, r)
      BY <1>3 DEF Alone
    <2>2. Told(restore, config, pending, r)
      BY <1>1, <2>1 DEF Lone
    <2>3. r.answer = "ok"
      BY <1>3, <2>2, FailsAlone DEF TakeAnswer, Told, Answers
    <2>4. restore' = [restore EXCEPT !.pc = "next", !.changed = TRUE, !.rev = r.page]
      BY <2>3 DEF TakeAnswer
    <2> HIDE DEF r
    <2>5. /\ restore'.pc = "next" /\ restore'.rev = r.page /\ restore'.old = restore.old
          /\ restore'.todo = restore.todo /\ restore'.previous = restore.previous
          /\ restore'.goal = restore.goal /\ restore'.phase = restore.phase
          /\ restore'.outcome = restore.outcome
      BY <1>2, <2>4 DEF RestoreRecords
    <2>6. Rests(restore', config, pending) /\ Settings(config) = restore'.rev
      BY <2>2, <2>3, <2>5 DEF Told, Rests
    <2> QED
      BY <1>1, <2>1, <2>5, <2>6 DEF Lone
  <1>4. restore'.alone => restore.alone
    BY <1>2, FailsAlone DEF TakeAnswer, RestoreRecords
  <1> QED
    BY <1>1, <1>3, <1>4 DEF Alone

LEMMA AloneConfirm == ASSUME Inv, Alone, Confirm PROVE Alone'
  <1> DEFINE r == task[Restorer]
             p == restore.previous
             g == restore.goal
  <1>1. UNCHANGED <<config, pending, task>> /\ restore.pc = "next" /\ restore.todo = {}
    BY DEF Confirm
  <1>2. restore \in RestoreRecords /\ config \in Sound /\ g \in Pages
    BY RestoreTypes DEF BlinkOK
  <1>3. ASSUME restore.alone PROVE Lone(restore', config, pending, r)
    <2>1. Lone(restore, config, pending, r) /\ Rests(restore, config, pending)
      BY <1>1, <1>3 DEF Alone, Lone
    <2>2. pending = <<>> /\ Reached(p, g, {}, config)
      BY <1>1, <2>1 DEF Rests
    <2>3. Settings(config) = g
      <3>1. \A key \in Keys : Settings(config)[key] = g[key]
        BY <1>2, <2>2, ValueAt DEF Reached, Aim
      <3>2. DOMAIN g = Keys /\ g = [key \in DOMAIN g |-> g[key]]
        BY <1>2, KeysAre DEF Pages
      <3>3. Settings(config) = [key \in Keys |-> Settings(config)[key]]
        BY DEF Settings
      <3> QED
        BY <3>1, <3>2, <3>3
    <2>4. restore' = [restore EXCEPT !.pc = "idle", !.outcome = "ok"]
      BY <1>1, <2>1, <2>3 DEF Confirm, Lone
    <2>5. /\ restore'.pc = "idle" /\ restore'.outcome = "ok" /\ restore'.phase = restore.phase
          /\ restore'.previous = p /\ restore'.goal = g
      BY <1>2, <2>4 DEF RestoreRecords
    <2> QED
      BY <2>1, <2>2, <2>5 DEF Lone
  <1>4. restore'.alone => restore.alone
    BY <1>2, FailsAlone DEF Confirm, RestoreRecords, Answers
  <1> QED
    BY <1>1, <1>3, <1>4 DEF Alone

LEMMA AloneFails == ASSUME Inv, Alone, ReadFails PROVE Alone'
  <1>1. Fails("dropped") \in RestoreRecords
    BY FailsIsTyped DEF Answers
  <1>2. restore'.alone = FALSE
    BY <1>1 DEF ReadFails, RestoreRecords
  <1> QED
    BY <1>2 DEF Alone, ReadFails

LEMMA AloneAbandon == ASSUME Inv, Alone, NEW t \in Tasks, Abandon(t) PROVE Alone'
  <1>1. restore'.alone = FALSE
    BY RestoreTypes DEF Abandon, RestoreRecords
  <1> QED
    BY <1>1 DEF Alone, Abandon

LEMMA AloneAsk == ASSUME Inv, Alone, NEW u \in Users, NEW op \in Updates, Ask(u, op) PROVE Alone'
  <1>1. u # Restorer
    BY Numbers
  <1>2. task'[Restorer] = task[Restorer]
    BY <1>1 DEF Ask, Arrive, Inv, Typed, TasksOK, Tasks
  <1> QED
    BY <1>2, AloneFrame DEF Ask

(* What a user's update does is seen only in its POST. *)
LEMMA AloneUser == ASSUME Inv, Alone, NEW u \in Users, Serve(u) PROVE Alone'
  <1>1. u \in Tasks /\ Restorer \in Tasks /\ u # Restorer
    BY Numbers DEF Tasks
  <1>2. task'[Restorer] = task[Restorer]
    BY <1>1, OthersStay
  <1>3. CASE Post(u)
    <2>1. restore'.alone = FALSE
      BY <1>1, <1>3, RestoreTypes DEF Post, RestoreRecords
    <2> QED
      BY <1>3, <2>1 DEF Alone, Post
  <1>4. CASE \/ ReadBefore(u) \/ Recheck(u) \/ ReadThresholds(u) \/ Verify(u) \/ Refresh(u)
             \/ Reverify(u)
    <2>1. UNCHANGED <<config, pending, restore>>
      BY <1>4 DEF ReadBefore, Recheck, ReadThresholds, Verify, Refresh, Reverify
    <2> QED
      BY <1>2, <2>1, AloneFrame
  <1> QED
    BY <1>3, <1>4 DEF Serve

(* The restore's own update. *)
LEMMA AtWork ==
    ASSUME Inv, Alone, restore.alone, task[Restorer].pc # "idle"
    PROVE /\ restore \in RestoreRecords /\ restore.pc = "waiting" /\ Restorer \in Tasks
          /\ restore.previous \in Pages /\ restore.goal \in Pages
          /\ Lone(restore, config, pending, task[Restorer])
          /\ Sending(restore, config, pending, task[Restorer])
          /\ task[Restorer].op.key \in {"min", "max", "alerts", "flip"}
          /\ task[Restorer].op.key \in Plan(restore.previous, restore.goal) \ restore.todo
          /\ Turn(restore.previous, restore.goal, restore.todo, task[Restorer].op.key)
  <1>1. restore \in RestoreRecords /\ restore.pc = "waiting" /\ Restorer \in Tasks
    BY RestoreTypes DEF Tasks
  <1>2. restore.previous \in Pages /\ restore.goal \in Pages
    BY <1>1 DEF RestoreRecords
  <1>3. Lone(restore, config, pending, task[Restorer])
    BY DEF Alone
  <1>4. Sending(restore, config, pending, task[Restorer])
    BY <1>1, <1>3 DEF Lone
  <1>5. Turn(restore.previous, restore.goal, restore.todo, task[Restorer].op.key)
    BY <1>4 DEF Sending, OnItsWay
  <1>6. task[Restorer].op.key \in Plan(restore.previous, restore.goal) \ restore.todo
    BY <1>5 DEF Turn
  <1>7. task[Restorer].op.key \in {"min", "max", "alerts", "flip"}
    BY <1>6, KeysAre DEF Plan
  <1> QED
    BY <1>1, <1>2, <1>3, <1>4, <1>5, <1>6, <1>7

LEMMA StillSending ==
    ASSUME Alone, restore.alone, restore.pc = "waiting", Lone(restore, config, pending, task[Restorer]),
           restore' = restore, config' = config, NEW r, task'[Restorer] = r, r.pc # "idle",
           Sending(restore, config, pending', r)
    PROVE Alone'
  <1>1. Lone(restore, config, pending', r)
    BY DEF Lone
  <1> QED
    BY <1>1 DEF Alone

LEMMA NowTold ==
    ASSUME Inv, Alone, restore.alone, restore.pc = "waiting", Lone(restore, config, pending, task[Restorer]),
           UNCHANGED <<restore, config, pending>>,
           NEW a \in {"ok", "failed"}, NEW page \in Shown, Answer(Restorer, a, page),
           a = "ok" => Rests(restore, config, pending) /\ page = Settings(config),
           a = "failed" => \E key \in Keys : OnItsWay(restore, key, config, pending)
    PROVE Alone'
  <1> DEFINE r == [NoTask EXCEPT !.answer = a, !.page = page]
  <1>1. r.pc = "idle" /\ r.answer = a /\ r.page = page
    BY DEF NoTask
  <1>2. task' = [task EXCEPT ![Restorer] = r]
    BY DEF Answer
  <1> HIDE DEF r
  <1>3. task'[Restorer] = r
    BY <1>2 DEF Inv, Typed, TasksOK, Tasks
  <1>4. Told(restore, config, pending, r)
    BY <1>1 DEF Told
  <1>5. Lone(restore, config, pending, r)
    BY <1>1, <1>4 DEF Lone
  <1> QED
    BY <1>3, <1>5 DEF Alone

LEMMA AloneReadBefore == ASSUME Inv, Alone, restore.alone, ReadBefore(Restorer) PROVE Alone'
  <1> DEFINE op == task[Restorer].op
             key == op.key
             p == restore.previous
             g == restore.goal
             todo == restore.todo
  <1>1. task[Restorer].pc = "line" /\ UNCHANGED <<config, pending, restore>>
    BY DEF ReadBefore, At
  <1>2. /\ restore.pc = "waiting" /\ Restorer \in Tasks /\ p \in Pages /\ g \in Pages
        /\ Lone(restore, config, pending, task[Restorer]) /\ Sending(restore, config, pending, task[Restorer])
        /\ key \in {"min", "max", "alerts", "flip"} /\ key \in Plan(p, g) \ todo
        /\ Turn(p, g, todo, key)
    BY <1>1, AtWork
  <1>3. /\ pending = <<>> /\ task[Restorer].page = Settings(config) /\ op.value = g[key]
        /\ Reached(p, g, todo \cup {key}, config) /\ OnItsWay(restore, key, config, pending)
    BY <1>1, <1>2 DEF Sending
  <1>4. config \in Sound /\ task[Restorer] \in TaskRecords /\ op \in Ops
    BY <1>2, TaskTypes
  <1>5. Page(op, config) = task[Restorer].page /\ key # "init"
    BY <1>2, <1>3 DEF Page
  <1>6. Value(config, key) = p[key] /\ p[key] # g[key]
    BY <1>2, <1>3, KeysAre DEF Reached, Aim, Plan
  <1>7. ~ Shows(op, Body(op, config), config)
    BY <1>2, <1>3, <1>6 DEF Shows
  <1>8. ~ Refused(op, config)
    <2>1. CASE key \in Thresholds
      <3>1. Missing \notin {p[key], g[key]}
        BY <1>2, <1>6, <2>1 DEF Lone, Restorable
      <3>2. g[key] \in Degrees
        BY <1>2, <2>1, <3>1 DEF Pages, Limits, Thresholds
      <3>3. config[key] = p[key]
        BY <1>6, <2>1 DEF Value, Thresholds
      <3> QED
        BY <1>3, <2>1, <3>1, <3>2, <3>3 DEF Refused, Thresholds
    <2>2. CASE key \notin Thresholds
      BY <1>2, <2>2 DEF Refused
    <2> QED
      BY <2>1, <2>2
  <1> DEFINE pc == IF key \in Thresholds THEN "write" ELSE "post"
             body == IF key \in Thresholds THEN <<>> ELSE Body(op, config)
             b == (pending = <<>>)
  <1>9. task' = [task EXCEPT ![Restorer].pc = pc, ![Restorer].body = body,
                             ![Restorer].before = config, ![Restorer].quiet = b]
    BY <1>5, <1>7, <1>8 DEF ReadBefore
  <1>10. pc = "post" => Between(p, g, todo, key, body)
    <2> SUFFICES ASSUME pc = "post" PROVE Between(p, g, todo, key, body)
      OBVIOUS
    <2>1. body = Body(op, config) /\ key \in {"alerts", "flip"}
      BY <1>2 DEF Thresholds
    <2>2. CASE key = "alerts"
      <3>1. body = [alerts |-> g[key]]
        BY <1>3, <2>1, <2>2 DEF Body
      <3> QED
        BY <2>2, <3>1 DEF Between, Value
    <2>3. CASE key = "flip"
      <3>1. body = [flip |-> EncodedFlip(config.flip, g[key])]
        BY <1>3, <2>1, <2>3 DEF Body
      <3>2. DOMAIN body = {"flip"} /\ body.flip.n = IF g[key] THEN 1 ELSE 0
        BY <3>1 DEF EncodedFlip
      <3>3. g.flip \in BOOLEAN
        BY <1>2 DEF Pages
      <3>4. Value(body, key) = g[key]
        BY <2>3, <3>2, <3>3 DEF Value
      <3> QED
        BY <2>3, <3>2, <3>4 DEF Between
    <2> QED
      BY <2>1, <2>2, <2>3
  <1>11. pc \in {"write", "post"} /\ b = TRUE
    BY <1>3
  <1> HIDE DEF pc, body, b
  <1> DEFINE r == [task[Restorer] EXCEPT !.pc = pc, !.body = body, !.before = config, !.quiet = b]
  <1>12. r.pc = pc /\ r.op = op /\ r.body = body /\ r.before = config /\ r.quiet = b
    BY <1>4 DEF TaskRecords
  <1>13. task'[Restorer] = r
    BY <1>2, <1>9 DEF Inv, Typed, TasksOK
  <1> HIDE DEF r
  <1>14. Sending(restore, config, pending, r)
    BY <1>3, <1>10, <1>11, <1>12 DEF Sending
  <1> QED
    BY <1>1, <1>2, <1>11, <1>12, <1>13, <1>14, StillSending

(* The pairs of thresholds it writes and puts back. *)
LEMMA AloneReadThresholds ==
    ASSUME Inv, Alone, restore.alone, ReadThresholds(Restorer) PROVE Alone'
  <1> DEFINE op == task[Restorer].op
             before == task[Restorer].before
             key == op.key
             p == restore.previous
             g == restore.goal
             todo == restore.todo
             writing == task[Restorer].pc = "write"
             body == IF writing THEN Body(op, config) ELSE UndoBody(op, before, config)
             pc == IF writing THEN "post" ELSE "repost"
  <1>1. task[Restorer].pc \in {"write", "rewrite"} /\ UNCHANGED <<config, pending, restore>>
    BY DEF ReadThresholds, At
  <1>2. /\ restore.pc = "waiting" /\ Restorer \in Tasks /\ p \in Pages /\ g \in Pages
        /\ Lone(restore, config, pending, task[Restorer]) /\ Sending(restore, config, pending, task[Restorer])
        /\ key \in Plan(p, g) \ todo /\ Turn(p, g, todo, key)
    BY <1>1, AtWork
  <1>3. /\ op \in Ops /\ key \in Thresholds /\ before \in Sound /\ config \in Sound
    BY <1>1, <1>2, TaskTypes DEF Works
  <1>4. /\ op.value = g[key] /\ OnItsWay(restore, key, config, pending) /\ task[Restorer].quiet
        /\ Reached(p, g, todo \cup {key}, before)
    BY <1>1, <1>2 DEF Sending
  <1>5. Restorable(p, g) /\ Pair(p) /\ Pair(g)
    BY <1>2 DEF Lone
  <1>6. before[key] = p[key]
    <2>1. key \in Keys /\ Value(before, key) = before[key]
      BY <1>3, KeysAre DEF Thresholds, Value
    <2> QED
      BY <1>4, <2>1 DEF Reached, Aim
  <1>7. \A k \in Thresholds : k # key => config[k] = Aim(p, g, todo, k)
    <2>1. \A k \in Thresholds : k \in Keys \cap DOMAIN config /\ Value(config, k) = config[k]
      BY <1>3, KeysAre, ValueAt DEF Thresholds, Value
    <2> QED
      BY <1>4, <2>1 DEF OnItsWay, Between
  <1>8. \E v \in {p[key], g[key]} :
            body = IF key = "min" THEN [min |-> v, max |-> Aim(p, g, todo, "max")]
                   ELSE [min |-> Aim(p, g, todo, "min"), max |-> v]
    <2>1. CASE writing
      <3>1. body = IF key = "min" THEN [min |-> g[key], max |-> config.max]
                   ELSE [min |-> config.min, max |-> g[key]]
        BY <1>3, <1>4, <2>1, BodyIsPair
      <3> QED
        BY <1>3, <1>7, <3>1 DEF Thresholds
    <2>2. CASE ~ writing
      <3>1. body = IF key = "min" THEN [min |-> before.min, max |-> config.max]
                   ELSE [min |-> config.min, max |-> before.max]
        BY <1>3, <2>2, UndoIsPair
      <3> QED
        BY <1>3, <1>6, <1>7, <3>1 DEF Thresholds
    <2> QED
      BY <2>1, <2>2
  <1>9. IF Spaced(body) THEN Goto(Restorer, pc, body)
        ELSE Answer(Restorer, "refused", task[Restorer].page)
    BY DEF ReadThresholds
  <1>a. pc \in TaskPCs /\ pc \in {"post", "repost"}
    BY DEF TaskPCs
  <1> HIDE DEF body, pc
  <1>10. PICK v \in {p[key], g[key]} :
            body = IF key = "min" THEN [min |-> v, max |-> Aim(p, g, todo, "max")]
                   ELSE [min |-> Aim(p, g, todo, "min"), max |-> v]
    BY <1>8
  <1>11. Spaced(body)
    <2>1. /\ key = "min" => Spaced([min |-> v, max |-> Aim(p, g, todo, "max")])
          /\ key = "max" => Spaced([min |-> Aim(p, g, todo, "min"), max |-> v])
      BY <1>2, <1>3, <1>5, Spacing
    <2> QED
      BY <1>3, <1>10, <2>1 DEF Thresholds
  <1>12. Between(p, g, todo, key, body)
    <2>1. CASE key = "min"
      <3>1. DOMAIN body = {"min", "max"} /\ body.min = v /\ body.max = Aim(p, g, todo, "max")
        BY <1>10, <2>1
      <3> QED
        BY <2>1, <3>1 DEF Between, Value
    <2>2. CASE key = "max"
      <3>1. DOMAIN body = {"min", "max"} /\ body.max = v /\ body.min = Aim(p, g, todo, "min")
        BY <1>10, <2>2
      <3> QED
        BY <2>2, <3>1 DEF Between, Value
    <2> QED
      BY <1>3, <2>1, <2>2 DEF Thresholds
  <1>13. body \in Writes
    <2>1. body = [min |-> body.min, max |-> body.max]
      BY <1>3, <1>10 DEF Thresholds
    <2> QED
      BY <1>11, <2>1, PairIsWrite
  <1>14. PICK r \in TaskRecords :
            /\ task'[Restorer] = r /\ r.pc = pc /\ r.op = op /\ r.body = body
            /\ r.before = before /\ r.quiet = task[Restorer].quiet
    BY <1>2, <1>9, <1>11, <1>13, <1>a, GoesTo
  <1>15. Sending(restore, config, pending, r)
    BY <1>a, <1>4, <1>12, <1>14 DEF Sending
  <1> QED
    BY <1>1, <1>2, <1>a, <1>14, <1>15, StillSending

LEMMA AlonePost == ASSUME Inv, Alone, restore.alone, Post(Restorer) PROVE Alone'
  <1> DEFINE op == task[Restorer].op
             body == task[Restorer].body
             key == op.key
             pc == IF task[Restorer].pc = "post" THEN "verify" ELSE "reverify"
  <1>1. /\ task[Restorer].pc \in {"post", "repost"} /\ UNCHANGED config
        /\ pending' = Append(pending, body) /\ Goto(Restorer, pc, body)
        /\ restore' = [restore EXCEPT !.alone = restore.alone /\ Restorer = Restorer]
    BY DEF Post, At
  <1>2. /\ restore \in RestoreRecords /\ restore.pc = "waiting" /\ Restorer \in Tasks
        /\ Lone(restore, config, pending, task[Restorer]) /\ Sending(restore, config, pending, task[Restorer])
    BY <1>1, AtWork
  <1>3. restore' = restore
    BY <1>1, <1>2 DEF RestoreRecords
  <1>4. body \in Writes /\ pending \in Seq(Writes)
    BY <1>1, <1>2, TaskTypes DEF Works
  <1>5. pc \in TaskPCs /\ pc \in {"verify", "reverify"}
    BY DEF TaskPCs
  <1> HIDE DEF pc
  <1>6. PICK r \in TaskRecords :
            /\ task'[Restorer] = r /\ r.pc = pc /\ r.op = op
            /\ r.before = task[Restorer].before /\ r.quiet = task[Restorer].quiet
    BY <1>1, <1>2, <1>4, <1>5, GoesTo
  <1>7. OnItsWay(restore, key, config, pending')
    <2>1. \A i \in DOMAIN pending' : pending'[i] = body \/ (i \in DOMAIN pending /\ pending'[i] = pending[i])
      BY <1>1, <1>4
    <2>2. OnItsWay(restore, key, config, pending) /\ Between(restore.previous, restore.goal, restore.todo, key, body)
      BY <1>1, <1>2 DEF Sending
    <2> QED
      BY <2>1, <2>2 DEF OnItsWay
  <1>8. Sending(restore, config, pending', r)
    BY <1>1, <1>2, <1>5, <1>6, <1>7 DEF Sending
  <1> QED
    BY <1>1, <1>2, <1>3, <1>5, <1>6, <1>8, StillSending

LEMMA AloneLooksAgain ==
    ASSUME Inv, Alone, restore.alone, task[Restorer].pc \in {"verify", "reverify"},
           task' = [task EXCEPT ![Restorer].tries = @ + 1], UNCHANGED <<config, pending, restore>>
    PROVE Alone'
  <1> DEFINE r == [task[Restorer] EXCEPT !.tries = task[Restorer].tries + 1]
  <1>1. /\ restore.pc = "waiting" /\ Restorer \in Tasks
        /\ Lone(restore, config, pending, task[Restorer]) /\ Sending(restore, config, pending, task[Restorer])
    BY AtWork
  <1>2. task[Restorer] \in TaskRecords
    BY <1>1, TaskTypes
  <1>3. /\ r.pc = task[Restorer].pc /\ r.op = task[Restorer].op
        /\ r.before = task[Restorer].before /\ r.quiet = task[Restorer].quiet
    BY <1>2 DEF TaskRecords
  <1>4. task'[Restorer] = r
    BY <1>1 DEF Inv, Typed, TasksOK
  <1> HIDE DEF r
  <1>5. Sending(restore, config, pending, r)
    BY <1>1, <1>3 DEF Sending
  <1> QED
    BY <1>1, <1>3, <1>4, <1>5, StillSending

LEMMA AloneVerify == ASSUME Inv, Alone, restore.alone, Verify(Restorer) PROVE Alone'
  <1> DEFINE op == task[Restorer].op
             before == task[Restorer].before
             key == op.key
             p == restore.previous
             g == restore.goal
             todo == restore.todo
  <1>1. task[Restorer].pc = "verify" /\ UNCHANGED <<config, pending, restore>>
    BY DEF Verify, At
  <1>2. /\ restore.pc = "waiting" /\ Restorer \in Tasks /\ p \in Pages /\ g \in Pages
        /\ Lone(restore, config, pending, task[Restorer]) /\ Sending(restore, config, pending, task[Restorer])
        /\ key \in {"min", "max", "alerts", "flip"} /\ key \in Plan(p, g) \ todo /\ Turn(p, g, todo, key)
    BY <1>1, AtWork
  <1>3. /\ op \in Ops /\ before \in Sound /\ config \in Sound /\ Page(op, config) \in Shown
        /\ pending \in Seq(Writes) /\ Undisturbed(Restorer)
    BY <1>2, TaskTypes, PageIsShown
  <1>4. /\ op.value = g[key] /\ OnItsWay(restore, key, config, pending) /\ task[Restorer].quiet
        /\ Reached(p, g, todo \cup {key}, before)
    BY <1>1, <1>2 DEF Sending
  <1>5. CASE /\ Shows(op, task[Restorer].body, config)
             /\ task' = [task EXCEPT ![Restorer].pc = "refresh", ![Restorer].page = Page(op, config)]
    <2> DEFINE page == Page(op, config)
    <2>2. page = Settings(config) /\ page \in Shown
      BY <1>2, <1>3 DEF Page
    <2>0. task' = [task EXCEPT ![Restorer].pc = "refresh", ![Restorer].page = page]
      BY <1>5
    <2> HIDE DEF page
    <2>1. PICK r \in TaskRecords :
            /\ task'[Restorer] = r /\ r.pc = "refresh" /\ r.op = op /\ r.page = page
            /\ r.before = before /\ r.quiet = task[Restorer].quiet
      <3>1. Restorer \in Tasks
        BY <1>2
      <3>2. page \in Shown
        BY <2>2
      <3>3. \E r \in TaskRecords :
                /\ task' = [task EXCEPT ![Restorer] = r] /\ task'[Restorer] = r
                /\ r.pc = "refresh" /\ r.op = op /\ r.page = page
                /\ r.before = before /\ r.quiet = task[Restorer].quiet
        BY <2>0, <3>1, <3>2, Refreshes
      <3> QED
        BY <3>3
    <2>3. Value(config, key) = g[key]
      BY <1>2, <1>4, <1>5 DEF Shows
    <2>4. Reached(p, g, todo, config)
      <3>1. \A k \in Keys : k # key => Value(config, k) = Aim(p, g, todo, k)
        BY <1>3, <1>4, ValueAt DEF OnItsWay, Between
      <3>2. Value(config, key) = Aim(p, g, todo, key)
        BY <1>2, <2>3 DEF Aim
      <3> QED
        BY <3>1, <3>2 DEF Reached
    <2>5. pending = <<>>
      <3>1. config = Wanted(Restorer)
        BY <1>1, <1>2, <1>4, <1>5, ShownIsWanted
      <3>2. Underway(Restorer)
        BY <1>1, <1>3, <1>4 DEF Undisturbed
      <3>3. config # before
        <4>1. Value(before, key) = p[key] /\ p[key] # g[key]
          BY <1>2, <1>4, KeysAre DEF Reached, Aim, Plan
        <4> QED
          BY <2>3, <4>1
      <3> QED
        BY <1>2, <3>2, <3>3, ShowsOneOfTwo
    <2>6. Rests(restore, config, pending)
      BY <1>2, <2>4, <2>5 DEF Rests, Turn
    <2>7. Sending(restore, config, pending, r)
      BY <1>4, <2>1, <2>2, <2>6 DEF Sending
    <2> QED
      BY <1>1, <1>2, <2>1, <2>7, StillSending
  <1>6. CASE task' = [task EXCEPT ![Restorer].tries = @ + 1]
    BY <1>1, <1>6, AloneLooksAgain
  <1>7. CASE Goto(Restorer, "rewrite", <<>>)
    <2>1. PICK r \in TaskRecords :
            /\ task'[Restorer] = r /\ r.pc = "rewrite" /\ r.op = op
            /\ r.before = before /\ r.quiet = task[Restorer].quiet
      BY <1>2, <1>7, GoesTo DEF TaskPCs
    <2>2. Sending(restore, config, pending, r)
      BY <1>4, <2>1 DEF Sending
    <2> QED
      BY <1>1, <1>2, <2>1, <2>2, StillSending
  <1>8. CASE key \in {"alerts", "flip"} /\ Goto(Restorer, "repost", UndoBody(op, before, config))
    <2> DEFINE undo == UndoBody(op, before, config)
    <2>0. op.key \in {"alerts", "flip", "zones"}
      BY <1>8
    <2>1. undo \in Writes /\ undo = [k \in {key} |-> before[key]]
      <3>1. op \in Ops /\ before \in Sound
        BY <1>3
      <3> QED
        BY <2>0, <3>1, UndoIsWrite
    <2>2. DOMAIN undo = {key} /\ undo[key] = before[key]
      BY <2>1
    <2> HIDE DEF undo
    <2>3. Value(undo, key) = Value(before, key)
      BY <2>2 DEF Value
    <2>4. Value(before, key) = p[key]
      BY <1>4, <1>8, KeysAre DEF Reached, Aim
    <2>5. Between(p, g, todo, key, undo)
      BY <2>2, <2>3, <2>4 DEF Between
    <2>6. "repost" \in TaskPCs
      BY DEF TaskPCs
    <2>7. PICK r \in TaskRecords :
            /\ task'[Restorer] = r /\ r.pc = "repost" /\ r.op = op /\ r.body = undo
            /\ r.before = before /\ r.quiet = task[Restorer].quiet
      BY <1>2, <1>8, <2>1, <2>6, GoesTo DEF undo
    <2>8. Sending(restore, config, pending, r)
      BY <1>4, <2>5, <2>7 DEF Sending
    <2> QED
      BY <1>1, <1>2, <2>7, <2>8, StillSending
  <1> QED
    BY <1>2, <1>5, <1>6, <1>7, <1>8 DEF Verify, Thresholds

LEMMA AloneRefresh == ASSUME Inv, Alone, restore.alone, Refresh(Restorer) PROVE Alone'
  <1>1. /\ task[Restorer].pc = "refresh" /\ UNCHANGED <<config, pending, restore>>
        /\ Answer(Restorer, "ok", task[Restorer].page)
    BY DEF Refresh, At
  <1>2. /\ restore.pc = "waiting" /\ Restorer \in Tasks
        /\ Lone(restore, config, pending, task[Restorer]) /\ Sending(restore, config, pending, task[Restorer])
    BY <1>1, AtWork
  <1>3. Rests(restore, config, pending) /\ task[Restorer].page = Settings(config)
    BY <1>1, <1>2 DEF Sending
  <1>4. task[Restorer].page \in Shown
    BY <1>2, TaskTypes
  <1> QED
    BY <1>1, <1>2, <1>3, <1>4, NowTold

LEMMA AloneReverify == ASSUME Inv, Alone, restore.alone, Reverify(Restorer) PROVE Alone'
  <1>1. task[Restorer].pc = "reverify" /\ UNCHANGED <<config, pending, restore>>
    BY DEF Reverify, At
  <1>2. /\ restore.pc = "waiting" /\ Restorer \in Tasks
        /\ Lone(restore, config, pending, task[Restorer]) /\ Sending(restore, config, pending, task[Restorer])
        /\ task[Restorer].op.key \in Keys
    BY <1>1, AtWork, KeysAre
  <1>3. CASE task' = [task EXCEPT ![Restorer].tries = @ + 1]
    BY <1>1, <1>3, AloneLooksAgain
  <1>4. CASE Answer(Restorer, "failed", task[Restorer].page)
    <2>1. \E key \in Keys : OnItsWay(restore, key, config, pending)
      BY <1>2 DEF Sending
    <2>2. task[Restorer].page \in Shown
      BY <1>2, TaskTypes
    <2> QED
      BY <1>1, <1>2, <1>4, <2>1, <2>2, NowTold
  <1> QED
    BY <1>3, <1>4 DEF Reverify

LEMMA AloneServe == ASSUME Inv, Alone, Serve(Restorer) PROVE Alone'
  <1>1. CASE restore.alone
    <2>1. ~ Recheck(Restorer)
      <3> SUFFICES ASSUME Recheck(Restorer) PROVE FALSE
        OBVIOUS
      <3>1. task[Restorer].pc = "recheck" /\ Restorer \in Tasks
        BY DEF Recheck, At, Tasks
      <3>2. task[Restorer].op.key = "init"
        BY <3>1, TaskTypes DEF Works
      <3> QED
        BY <1>1, <3>1, <3>2, AtWork
    <2> QED
      BY <1>1, <2>1, AloneReadBefore, AloneReadThresholds, AlonePost, AloneVerify, AloneRefresh,
         AloneReverify DEF Serve
  <1>2. CASE ~ restore.alone
    <2>1. UNCHANGED config
      BY DEF Serve, ReadBefore, Recheck, ReadThresholds, Post, Verify, Refresh, Reverify
    <2>2. CASE Post(Restorer)
      <3>1. restore'.alone = FALSE
        BY <1>2, <2>2, RestoreTypes DEF Post, RestoreRecords
      <3> QED
        BY <2>1, <3>1 DEF Alone
    <2>3. CASE \/ ReadBefore(Restorer) \/ Recheck(Restorer) \/ ReadThresholds(Restorer)
               \/ Verify(Restorer) \/ Refresh(Restorer) \/ Reverify(Restorer)
      <3>1. restore' = restore
        BY <2>3 DEF ReadBefore, Recheck, ReadThresholds, Verify, Refresh, Reverify
      <3> QED
        BY <1>2, <2>1, <3>1 DEF Alone
    <2> QED
      BY <2>2, <2>3 DEF Serve
  <1> QED
    BY <1>1, <1>2

LEMMA AloneInit == ASSUME WholePairs, Init PROVE Alone
  BY DEF Init, NoRestore, Alone, WholePairs

LEMMA AloneStep == ASSUME WholePairs, Inv, Alone, [Next]_vars PROVE Alone'
  <1>1. CASE Adapter
    BY <1>1, AloneReadCurrent, AlonePostNext, AloneTakeAnswer, AloneConfirm DEF Adapter
  <1>2. ASSUME NEW t \in Tasks, Serve(t) PROVE Alone'
    BY <1>2, AloneServe, AloneUser DEF Tasks
  <1>3. CASE UNCHANGED vars
    BY <1>3, AloneFrame DEF vars
  <1> QED
    BY <1>1, <1>2, <1>3, AloneApply, AloneAppWrite, AloneFails, AloneRestoreBackup, AloneAsk,
       AloneAbandon DEF Next

LEMMA AloneIsSound == ASSUME Inv, Alone PROVE RestoreIsSound
  <1> DEFINE p == restore.previous
             g == restore.goal
             todo == restore.todo
             r == task[Restorer]
  <1> SUFFICES ASSUME restore.alone PROVE
        /\ restore.outcome \in {"none", "ok"}
        /\ restore.outcome = "ok" => Settings(Settled) = g
        /\ \A side \in {p, g} :
            config.alerts /\ side.alerts /\ p.alerts # g.alerts =>
                \A k \in Thresholds : config[k] = side[k]
    BY DEF RestoreIsSound
  <1>1. /\ Lone(restore, config, pending, r) /\ restore \in RestoreRecords /\ config \in Sound
        /\ p \in Pages /\ g \in Pages
    BY RestoreTypes DEF Alone, BlinkOK
  <1>2. restore.outcome \in {"none", "ok"}
    BY <1>1 DEF Lone
  <1>3. restore.outcome = "ok" => Settings(Settled) = g
    <2> SUFFICES ASSUME restore.outcome = "ok" PROVE Settings(Settled) = g
      OBVIOUS
    <2>1. pending = <<>> /\ Reached(p, g, {}, config)
      BY <1>1 DEF Lone
    <2>2. Settled = config
      BY <1>1, <2>1, NothingPending DEF Settled, Sound
    <2>3. \A key \in Keys : Settings(config)[key] = g[key]
      BY <1>1, <2>1, ValueAt DEF Reached, Aim
    <2>4. DOMAIN g = Keys /\ g = [key \in DOMAIN g |-> g[key]]
      BY <1>1, KeysAre DEF Pages
    <2>5. Settings(config) = [key \in Keys |-> Settings(config)[key]]
      BY DEF Settings
    <2> QED
      BY <2>2, <2>3, <2>4, <2>5
  <1>4. \/ \E t \in SUBSET Keys : Ordered(p, g, t) /\ Reached(p, g, t, config)
        \/ \E key \in Keys : OnItsWay(restore, key, config, pending)
    <2>1. CASE restore.pc = "read"
      <3>1. Reached(p, g, Plan(p, g), config) /\ Ordered(p, g, Plan(p, g)) /\ Plan(p, g) \in SUBSET Keys
        BY <1>1, <2>1, ValueAt DEF Lone, Reached, Aim, Plan, Ordered
      <3> QED
        BY <3>1
    <2>2. CASE restore.pc = "idle"
      BY <1>1, <2>2 DEF Lone, Ordered
    <2>3. CASE restore.pc = "next"
      BY <1>1, <2>3 DEF Lone, Rests, RestoreRecords
    <2>4. CASE restore.pc = "waiting"
      <3>1. CASE r.pc = "idle"
        <4>1. Told(restore, config, pending, r)
          BY <1>1, <2>4, <3>1 DEF Lone
        <4> QED
          BY <1>1, <4>1 DEF Told, Rests, RestoreRecords
      <3>2. CASE r.pc # "idle"
        <4>1. OnItsWay(restore, r.op.key, config, pending) /\ r.op.key \in Keys
          BY <3>2, AtWork, KeysAre DEF Sending
        <4> QED
          BY <4>1
      <3> QED
        BY <3>1, <3>2
    <2> QED
      BY <1>1, <2>1, <2>2, <2>3, <2>4 DEF RestoreRecords
  <1>5. ASSUME NEW side \in {p, g}, config.alerts, side.alerts, p.alerts # g.alerts, NEW k \in Thresholds
        PROVE config[k] = side[k]
    <2>1. CASE \E t \in SUBSET Keys : Ordered(p, g, t) /\ Reached(p, g, t, config)
      BY <1>1, <1>5, <2>1, AlertsFitReached
    <2>2. CASE \E key \in Keys : OnItsWay(restore, key, config, pending)
      BY <1>1, <1>5, <2>2, AlertsFitBetween DEF OnItsWay
    <2> QED
      BY <1>4, <2>1, <2>2
  <1> QED
    BY <1>2, <1>3, <1>5

-----------------------------------------------------------------------------
(* What follows from it. *)

(* Every state is well typed, whatever is asked, restored, dropped or changed *)
(* by the app; and the line of settings_lock holds exactly the requests under *)
(* way, once each: no handler leaves its guard behind (blink_settings_write.rs *)
(* and blink_zones.rs lock for the whole update).                             *)
THEOREM SettingsTypeCorrect == Spec => []TypeOK
  <1>1. Inv => TypeOK
    <2> SUFFICES ASSUME Inv PROVE TypeOK
      OBVIOUS
    <2>1. config \in Configs /\ pending \in Seq(Writes)
      BY DEF Inv, Typed, BlinkOK, Sound
    <2>2. DOMAIN line = 1 .. Len(line)
      BY DEF Inv, Typed, LineOK
    <2>3. ASSUME NEW t \in Tasks
          PROVE /\ task[t].pc \in TaskPCs /\ task[t].answer \in Answers
                /\ task[t].tries \in 0 .. Attempts - 1
                /\ (\E i \in DOMAIN line : line[i] = t) <=> task[t].pc # "idle"
      <3>1. task[t] \in TaskRecords
        BY TaskTypes
      <3>2. task[t].pc \in TaskPCs /\ task[t].answer \in Answers /\ task[t].tries \in 0 .. Attempts - 1
        BY <3>1 DEF TaskRecords
      <3>3. (\E i \in DOMAIN line : line[i] = t) <=> task[t].pc # "idle"
        BY <2>2 DEF Inv, Typed, LineOK, Busy
      <3> QED
        BY <3>2, <3>3
    <2>4. IsInjective(line)
      BY <2>2 DEF Inv, Typed, LineOK, IsInjective
    <2>5. /\ restore.pc \in {"idle", "read", "next", "waiting"}
          /\ restore.outcome \in {"none", "ok", "failed", "refused"}
      BY RestoreTypes DEF RestoreRecords
    <2> QED
      BY <2>1, <2>3, <2>4, <2>5, RestoreTypes DEF TypeOK, TaskPCs, Answers, CountersOK
  <1> QED
    BY <1>1, SettingsAlways, PTL

(* Blink's gap is kept, in every state of every camera and under every        *)
(* interleaving of updates, undo, restore and app: the thresholds are written *)
(* as a pair that has been looked at, and put back as a pair.                 *)
THEOREM ThresholdsStayApart == Spec => []ThresholdsApart
  <1>1. Inv => ThresholdsApart
    BY DEF Inv, Typed, BlinkOK, Sound, Fits, ThresholdsApart
  <1> QED
    BY <1>1, SettingsAlways, PTL

(* For every grid: a zones update about to be written clears exactly the      *)
(* cells that its privacy zones cover on the picture, keeps the bits of       *)
(* motion_regions that are Blink's own, and the camera's motion_regions       *)
(* always say the same as its masks (blink_zones.rs).                         *)
THEOREM ZonesStayRight == Spec => []ZonesAgree
  <1>1. Inv => ZonesAgree
    <2> SUFFICES ASSUME Inv PROVE ZonesAgree
      OBVIOUS
    <2>1. GridAgrees(config.zones)
      BY DEF Inv, Typed, BlinkOK, Sound, Fits
    <2>2. ASSUME NEW t \in Tasks, task[t].pc = "post", task[t].op.key = "zones"
          PROVE LET asked == task[t].op.value
                    body  == task[t].body.zones
                IN  /\ \A row \in 0 .. BasicRows - 1, column \in 0 .. BasicColumns - 1 :
                        LET b == row * BasicColumns + column
                        IN  body.masks[b] = asked.masks[b] \ Hidden(asked.privacy, row, column)
                    /\ body.motion \ (Basics \cup {Flag})
                         = task[t].before.zones.motion \ (Basics \cup {Flag})
      <3> DEFINE op == task[t].op
                 zones == task[t].before.zones
      <3>1. op \in Ops /\ Works(t) /\ zones \in ZoneStates
        BY TaskTypes DEF Sound, Configs
      <3>2. op.value.masks \in Masks /\ op.value.privacy \in Privacy
        BY <2>2, <3>1, OpShapes
      <3>3. task[t].body = Body(op, task[t].before) /\ ZonesAreValid(zones, op.value)
        BY <2>2, <3>1 DEF Works, Thresholds
      <3>4. task[t].body.zones = UpdatedZones(zones, op.value)
        BY <2>2, <3>3 DEF Body
      <3>5. PrivacyIsValid(op.value.privacy)
        BY <3>3 DEF ZonesAreValid
      <3>6. /\ task[t].body.zones.masks = ApplyPrivacy(op.value.masks, op.value.privacy)
            /\ task[t].body.zones.motion \ (Basics \cup {Flag}) = zones.motion \ (Basics \cup {Flag})
        BY <3>1, <3>2, <3>4, ZonesWritten
      <3>7. ASSUME NEW row \in 0 .. BasicRows - 1, NEW column \in 0 .. BasicColumns - 1
            PROVE task[t].body.zones.masks[row * BasicColumns + column]
                    = op.value.masks[row * BasicColumns + column] \ Hidden(op.value.privacy, row, column)
        BY <3>2, <3>5, <3>6, CoveredIsHidden
      <3> QED
        BY <3>6, <3>7
    <2> QED
      BY <2>1, <2>2 DEF ZonesAgree
  <1> QED
    BY <1>1, SettingsAlways, PTL

(* A restore that is alone at a camera whose thresholds, like those of every  *)
(* backup, are both given or none, is never refused, ends with every value of *)
(* the backup, and has alerts on only with the thresholds they belong to;     *)
(* whatever keys differ, in whatever order keys of one rank come, however     *)
(* late Blink applies its writes (settings_restore.py, restore_plan).         *)
THEOREM RestoreStaysSound ==
    ASSUME WholePairs PROVE Spec => []RestoreIsSound
  <1>1. Init => Alone
    BY AloneInit
  <1>2. Inv /\ Alone /\ [Next]_vars => Alone'
    BY AloneStep
  <1>3. Inv /\ Alone => RestoreIsSound
    BY AloneIsSound
  <1> QED
    BY <1>1, <1>2, <1>3, SettingsAlways, PTL DEF Spec

(* The three together: whatever updates, undo, restores and the app do, the   *)
(* camera is never left with settings that do not fit.                        *)
THEOREM SettingsStayFit ==
    ASSUME WholePairs PROVE Spec => []SettingsFit
  <1>1. ThresholdsApart /\ ZonesAgree /\ RestoreIsSound => SettingsFit
    BY DEF SettingsFit
  <1>2. Spec => []RestoreIsSound
    BY RestoreStaysSound
  <1> QED
    BY <1>1, <1>2, ThresholdsStayApart, ZonesStayRight, PTL

(* For every grid, every number of requests and however late Blink applies    *)
(* what it has accepted: an update nobody outside the engine disturbs, and    *)
(* that is not dropped, either ends with the camera as the client saw it and  *)
(* this one change, the answered page showing just that, or leaves it exactly *)
(* as it was (blink_settings_write.rs, blink_temperature.rs, blink_zones.rs). *)
THEOREM UpdatesStayExact == Spec => UpdatesAreExact
  <1> DEFINE Step ==
        \A t \in Tasks :
            task[t].quiet /\ task'[t].pc = "idle" /\ task'[t].answer # "dropped" =>
                LET op == task[t].op
                IN  IF task'[t].answer = "ok"
                    THEN /\ Settled' = Written(Body(op, task[t].before), task[t].before)
                         /\ task'[t].page = Page(op, Settled')
                    ELSE \/ Settled' = task[t].before
                         \/ op.key = "init"
  <1>1. Inv /\ [Next]_vars => [Step]_vars
    <2> SUFFICES ASSUME Inv, [Next]_vars PROVE Step
      OBVIOUS
    <2>1. ASSUME NEW t \in Tasks, task[t].quiet, Ends(t) PROVE Exact(t)
      BY <2>1, ExactStep
    <2> QED
      BY <2>1 DEF Ends, Exact
  <1>2. UpdatesAreExact <=> [][Step]_vars
    BY DEF UpdatesAreExact
  <1> QED
    BY <1>1, <1>2, SettingsAlways, PTL DEF Spec

=============================================================================
