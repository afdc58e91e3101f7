--------------------------- MODULE CameraSettings ---------------------------
(***************************************************************************)
(* The settings and zones of one camera: blink_settings_write.rs,          *)
(* blink_temperature.rs, blink_zones.rs with its model, the fields they    *)
(* are read from, and the restore of a backup by the Home Assistant        *)
(* adapter (settings_restore.py), which is a client of the same endpoint.  *)
(* An update holds settings_lock while it reads the camera, writes, reads  *)
(* it back and, when Blink does not show the value, writes the old one.    *)
(*                                                                         *)
(* Blink (external) accepts a write and applies it later, in order:        *)
(* wait_command returns when its polls run out, and for answers that carry *)
(* no command.  The fields are the two temperature thresholds, the alerts  *)
(* and "flip", which stands for every field of the general endpoint; Blink *)
(* keeps it as a boolean or as an integer.  A grid of zones is scaled      *)
(* down; a mask is the set of its bits.                                    *)
(***************************************************************************)
EXTENDS Integers, Sequences, SequencesExt

CONSTANTS
    Users,          \* requests of users, each one update at a time
    Restorer,       \* the request of the adapter that restores a backup
    Initials,       \* configurations the camera may start with
    Updates,        \* what users may ask for
    Backups,        \* saved settings
    AppWrites,      \* what the Blink app may change
    Missing,        \* a threshold Blink has not been given
    Degrees,        \* values a threshold may have
    Gap,            \* least distance of the thresholds
    BasicRows, BasicColumns, MicroRows, MicroColumns,    \* the grid of zones
    Attempts,       \* VERIFY_ATTEMPTS
    MaxUpdates,     \* bound: updates asked for by users
    MaxAppWrites,   \* bound: changes by the Blink app
    MaxFaults       \* bound: requests that fail and handlers that are dropped

Flag == 30

ASSUME SettingsAssumption ==
    /\ {BasicRows, BasicColumns, MicroRows, MicroColumns, Attempts, Gap} \subseteq Nat \ {0}
    /\ BasicRows * BasicColumns <= Flag
    /\ Restorer \notin Users
    /\ Degrees \subseteq Nat /\ Missing \notin Degrees
    /\ {MaxUpdates, MaxAppWrites, MaxFaults} \subseteq Nat

VARIABLES
    config,      \* Blink: the configuration its reads show
    pending,     \* Blink: writes accepted and not applied yet
    task,        \* per request to the engine, where it stands
    line,        \* settings_lock: its holder and then those that wait, in order
    restore,     \* the adapter's restore
    updates, appWrites, faults

counters == <<updates, appWrites, faults>>
vars == <<config, pending, task, line, restore, counters>>

Tasks == Users \cup {Restorer}

Thresholds == {"min", "max"}
Ordinary == {"flip"}
Keys == Thresholds \cup {"alerts"} \cup Ordinary

Basics == 0 .. BasicRows * BasicColumns - 1
Full == 0 .. MicroRows * MicroColumns - 1

(* What Blink keeps of a camera. *)
Limits == Degrees \cup {Missing}
Masks == [Basics -> SUBSET Full]
Privacy == Seq([x : Nat, y : Nat, w : Nat, h : Nat])
Flips == [int : BOOLEAN, n : Int]
ZoneStates == [masks : Masks, privacy : Privacy, motion : SUBSET Nat, supported : BOOLEAN]
Configs == [min : Limits, max : Limits, alerts : BOOLEAN, flip : Flips, zones : ZoneStates]

(* The thresholds are written together, in one request. *)
Spaced(body) ==
    /\ {body.min, body.max} \subseteq Degrees
    /\ body.max >= body.min + Gap

(* motion_regions says the same as the masks. *)
GridAgrees(zones) ==
    /\ \A b \in Basics : b \in zones.motion <=> zones.masks[b] # {}
    /\ Flag \in zones.motion <=> \E b \in Basics : zones.masks[b] # Full

(* What is written at once, by whomever. *)
Writes ==
    {body \in [min : Degrees, max : Degrees] : Spaced(body)}
    \cup [alerts : BOOLEAN] \cup [flip : Flips]
    \cup {body \in [zones : ZoneStates] : GridAgrees(body.zones)}

(* A camera starts with settings that fit, the app and the backups are held *)
(* to what Blink keeps; what users ask for is checked by the engine, but    *)
(* for the shape of the request.                                            *)
Pages == [min : Limits, max : Limits, alerts : BOOLEAN, flip : BOOLEAN]
ASSUME ClientsAssumption ==
    /\ Initials # {} /\ Initials \subseteq Configs
    /\ \A c \in Initials : GridAgrees(c.zones) /\ (Missing \notin {c.min, c.max} => Spaced(c))
    /\ AppWrites \subseteq Writes
    /\ Backups \subseteq Pages
    /\ \A op \in Updates :
        /\ op = [key |-> op.key, value |-> op.value]
        /\ op.key \in Keys \cup {"init", "zones"}
        /\ op.key = "alerts" => op.value \in BOOLEAN
        /\ op.key = "init" => op.value = [min |-> op.value.min, max |-> op.value.max]
        /\ op.key = "zones" => op.value.masks \in Masks /\ op.value.privacy \in Privacy

(* bool_value: any integer but zero is true. *)
Value(c, key) == IF key = "flip" THEN c.flip.n # 0 ELSE c[key]

(* What a page shows of the camera, and with it the page's revision. *)
Settings(c) == [key \in Keys |-> Value(c, key)]
Page(op, c) == IF op.key = "zones" THEN c.zones ELSE Settings(c)

NoConfig == CHOOSE c \in Initials : TRUE
NoOp == [key |-> "flip", value |-> FALSE]
NoTask == [pc |-> "idle", op |-> NoOp, page |-> Settings(NoConfig), before |-> NoConfig,
           body |-> <<>>, tries |-> 0, quiet |-> FALSE, answer |-> "none"]
NoRestore == [pc |-> "idle", phase |-> "apply", goal |-> Settings(NoConfig),
              previous |-> Settings(NoConfig), rev |-> Settings(NoConfig), changed |-> FALSE,
              old |-> Settings(NoConfig), todo |-> {}, alone |-> FALSE, outcome |-> "none"]

Init ==
    /\ config \in Initials
    /\ pending = <<>>
    /\ task = [t \in Tasks |-> NoTask]
    /\ line = <<>>
    /\ restore = NoRestore
    /\ updates = 0 /\ appWrites = 0 /\ faults = 0

----------------------------------------------------------------------------
(* Zones.  A privacy zone clears the cells it covers; motion_regions has   *)
(* one bit per basic zone, a flag that some cell is off, and bits of       *)
(* Blink's own.                                                            *)

PrivacyIsValid(zones) ==
    /\ Len(zones) <= 2
    /\ \A i \in DOMAIN zones :
        /\ zones[i].w # 0 /\ zones[i].h # 0
        /\ zones[i].x + zones[i].w <= BasicColumns * MicroColumns
        /\ zones[i].y + zones[i].h <= BasicRows * MicroRows

BasicOf(x, y) == ((y \div MicroRows) * BasicColumns) + (x \div MicroColumns)
BitOf(x, y) == ((y % MicroRows) * MicroColumns) + (x % MicroColumns)

Covered(zone) == (zone.x .. zone.x + zone.w - 1) \X (zone.y .. zone.y + zone.h - 1)

ApplyPrivacy(masks, zones) ==
    [b \in Basics |-> masks[b] \
        {BitOf(p[1], p[2]) : p \in {q \in UNION {Covered(zones[i]) : i \in DOMAIN zones} :
                                        BasicOf(q[1], q[2]) = b}}]

Motion(old, masks) ==
    (old \ (Basics \cup {Flag}))
    \cup {b \in Basics : masks[b] # {}}
    \cup {f \in {Flag} : \E b \in Basics : masks[b] # Full}

UpdatedZones(zones, asked) ==
    LET masks == ApplyPrivacy(asked.masks, asked.privacy)
    IN  [zones EXCEPT !.masks = masks, !.privacy = asked.privacy,
                      !.motion = Motion(zones.motion, masks)]

ZonesAreValid(zones, asked) ==
    /\ PrivacyIsValid(asked.privacy)
    /\ zones.supported \/ asked.privacy = zones.privacy
    /\ \E b \in Basics : ApplyPrivacy(asked.masks, asked.privacy)[b] # {}

SameValues(left, right) == left.masks = right.masks /\ left.privacy = right.privacy

----------------------------------------------------------------------------
(* What an update writes. *)

EncodedFlip(current, on) == [int |-> current.int, n |-> IF on THEN 1 ELSE 0]

Body(op, c) ==
    CASE op.key = "min"    -> [min |-> op.value, max |-> c.max]
      [] op.key = "max"    -> [min |-> c.min, max |-> op.value]
      [] op.key = "init"   -> op.value
      [] op.key = "flip"   -> [flip |-> EncodedFlip(c.flip, op.value)]
      [] op.key = "alerts" -> [alerts |-> op.value]
      [] op.key = "zones"  -> [zones |-> UpdatedZones(c.zones, op.value)]

(* The value the camera had, as Blink had it; for a threshold, with the *)
(* other threshold as it is now.                                        *)
UndoBody(op, before, c) ==
    IF op.key \in Thresholds THEN Body([op EXCEPT !.value = before[op.key]], c)
    ELSE [key \in {op.key} |-> before[key]]

(* An update that is refused when the camera has been read. *)
Refused(op, c) ==
    CASE op.key \in Thresholds -> c[op.key] = Missing \/ op.value \notin Degrees
      [] op.key = "zones"      -> ~ZonesAreValid(c.zones, op.value)
      [] OTHER                 -> FALSE

(* The camera c shows what the update wants. *)
Shows(op, body, c) ==
    CASE op.key = "init"  -> c.min = body.min /\ c.max = body.max
      [] op.key = "zones" -> SameValues(c.zones, body.zones)
      [] OTHER            -> Value(c, op.key) = op.value

----------------------------------------------------------------------------
(* Blink. *)

Written(body, c) == [key \in DOMAIN c |-> IF key \in DOMAIN body THEN body[key] ELSE c[key]]

Apply ==
    /\ pending # <<>>
    /\ config' = Written(Head(pending), config)
    /\ pending' = Tail(pending)
    /\ UNCHANGED <<task, line, restore, counters>>

AppWrite ==
    /\ appWrites < MaxAppWrites
    /\ appWrites' = appWrites + 1
    /\ \E body \in AppWrites :
        /\ config' = Written(body, config)
        /\ config' # config
    /\ task' = [t \in Tasks |-> [task[t] EXCEPT !.quiet = FALSE]]
    /\ restore' = [restore EXCEPT !.alone = FALSE]
    /\ UNCHANGED <<pending, line, updates, faults>>

----------------------------------------------------------------------------
(* One update. *)

HoldsInLine(t) == \E i \in DOMAIN line : line[i] = t    \* the bug: nobody waits for the lock
Holds(t) == line # <<>> /\ Head(line) = t
At(t, pc) == task[t].pc = pc /\ Holds(t)

AnswerHeld(t, answer, page) ==     \* the bug: the guard stays
    /\ task' = [task EXCEPT ![t] = [NoTask EXCEPT !.answer = answer, !.page = page]]
    /\ UNCHANGED line
Answer(t, answer, page) ==
    /\ task' = [task EXCEPT ![t] = [NoTask EXCEPT !.answer = answer, !.page = page]]
    /\ \E i \in DOMAIN line : line[i] = t /\ line' = RemoveAt(line, i)

Goto(t, pc, body) ==
    /\ task' = [task EXCEPT ![t].pc = pc, ![t].body = body, ![t].tries = 0]
    /\ UNCHANGED line

(* A request arrives, from a client that has read a page. *)
Arrive(t, op, page) ==
    /\ task' = [task EXCEPT ![t] = [NoTask EXCEPT !.pc = "line", !.op = op, !.page = page]]
    /\ line' = Append(line, t)

Ask(u, op) ==
    /\ task[u].pc = "idle" /\ updates < MaxUpdates
    /\ updates' = updates + 1
    /\ Arrive(u, op, Page(op, config))
    /\ UNCHANGED <<config, pending, restore, appWrites, faults>>

ReadBefore(t) ==
    LET op == task[t].op
    IN  /\ At(t, "line")
        /\ IF Page(op, config) # task[t].page THEN Answer(t, "conflict", task[t].page)
           ELSE IF op.key = "init"
           THEN IF ~(\E k \in Thresholds : config[k] = Missing) THEN Answer(t, "conflict", task[t].page)
                ELSE IF ~({op.value.min, op.value.max} \subseteq Degrees)
                THEN Answer(t, "refused", task[t].page)
                ELSE /\ task' = [task EXCEPT ![t].pc = "recheck", ![t].before = config,
                                             ![t].quiet = (pending = <<>>)]
                     /\ UNCHANGED line
           ELSE IF Refused(op, config) THEN Answer(t, "refused", task[t].page)
           ELSE IF Shows(op, Body(op, config), config) THEN Answer(t, "ok", Page(op, config))
           ELSE /\ task' = [task EXCEPT
                       ![t].pc = IF op.key \in Thresholds THEN "write" ELSE "post",
                       ![t].body = IF op.key \in Thresholds THEN <<>> ELSE Body(op, config),
                       ![t].before = config, ![t].quiet = (pending = <<>>)]
                /\ UNCHANGED line
        /\ UNCHANGED <<config, pending, restore, counters>>

(* The first thresholds: the page is compared once more, nothing is kept *)
(* to go back to.                                                        *)
Recheck(t) ==
    /\ At(t, "recheck")
    /\ IF Settings(config) # Settings(task[t].before) THEN Answer(t, "conflict", task[t].page)
       ELSE IF ~Spaced(task[t].op.value) THEN Answer(t, "refused", task[t].page)
       ELSE Goto(t, "post", task[t].op.value)
    /\ UNCHANGED <<config, pending, restore, counters>>

(* A threshold is written with the other one as it is read now. *)
ReadThresholds(t) ==
    /\ At(t, "write") \/ At(t, "rewrite")
    /\ LET writing == task[t].pc = "write"
           body == IF writing THEN Body(task[t].op, config)
                   ELSE UndoBody(task[t].op, task[t].before, config)
       IN  IF Spaced(body) THEN Goto(t, IF writing THEN "post" ELSE "repost", body)
           ELSE Answer(t, "refused", task[t].page)
    /\ UNCHANGED <<config, pending, restore, counters>>

Post(t) ==
    /\ At(t, "post") \/ At(t, "repost")
    /\ pending' = Append(pending, task[t].body)
    /\ Goto(t, IF task[t].pc = "post" THEN "verify" ELSE "reverify", task[t].body)
    /\ restore' = [restore EXCEPT !.alone = @ /\ t = Restorer]
    /\ UNCHANGED <<config, counters>>

Verify(t) ==
    LET op == task[t].op
    IN  /\ At(t, "verify")
        /\ IF Shows(op, task[t].body, config)
           THEN IF op.key \in {"init", "zones"} THEN Answer(t, "ok", Page(op, config))
                ELSE /\ task' = [task EXCEPT ![t].pc = "refresh", ![t].page = Page(op, config)]
                     /\ UNCHANGED line
           ELSE IF task[t].tries + 1 < Attempts
           THEN task' = [task EXCEPT ![t].tries = @ + 1] /\ UNCHANGED line
           ELSE IF op.key = "init" THEN Answer(t, "failed", task[t].page)
           ELSE IF op.key \in Thresholds THEN Goto(t, "rewrite", <<>>)
           ELSE Goto(t, "repost", UndoBody(op, task[t].before, config))
        /\ UNCHANGED <<config, pending, restore, counters>>

(* refresh_state, whose failure is in Abandon. *)
Refresh(t) ==
    /\ At(t, "refresh")
    /\ Answer(t, "ok", task[t].page)
    /\ UNCHANGED <<config, pending, restore, counters>>

(* Whatever is read now, the update has failed. *)
Reverify(t) ==
    LET op == task[t].op
    IN  /\ At(t, "reverify")
        /\ IF task[t].tries + 1 < Attempts /\
              (IF op.key = "zones" THEN ~SameValues(config.zones, task[t].before.zones)
               ELSE Value(config, op.key) # Value(task[t].before, op.key))
           THEN task' = [task EXCEPT ![t].tries = @ + 1] /\ UNCHANGED line
           ELSE Answer(t, "failed", task[t].page)
        /\ UNCHANGED <<config, pending, restore, counters>>

(* A request to Blink fails, or the handler is dropped: nothing is undone. *)
Abandon(t) ==
    /\ task[t].pc # "idle" /\ faults < MaxFaults
    /\ faults' = faults + 1
    /\ Answer(t, "dropped", task[t].page)
    /\ restore' = [restore EXCEPT !.alone = FALSE]
    /\ UNCHANGED <<config, pending, updates, appWrites>>

Serve(t) ==
    \/ ReadBefore(t) \/ Recheck(t) \/ ReadThresholds(t) \/ Post(t) \/ Verify(t) \/ Refresh(t)
    \/ Reverify(t)

----------------------------------------------------------------------------
(* The adapter restores a backup: the settings that differ, one update    *)
(* each, every one with the revision the one before it has answered.      *)

Rank(old, new, key) ==
    CASE key = "alerts" -> IF new.alerts THEN 4 ELSE 0
      [] key = "min"    -> IF new.min < old.min THEN 1 ELSE 3
      [] key = "max"    -> IF new.max > old.max THEN 1 ELSE 3
      [] OTHER          -> 2

BeforeReversed(old, new, j, k) == Rank(old, new, j) > Rank(old, new, k)   \* the bug: widest last
Before(old, new, j, k) == Rank(old, new, j) < Rank(old, new, k)

Plan(old, new) == {key \in Keys : old[key] # new[key]}

Restorable(old, new) ==
    /\ \A k \in Thresholds : old[k] # new[k] => Missing \notin {old[k], new[k]}
    /\ new.alerts => Missing \notin {new.min, new.max}

RestoreBackup(saved) ==
    /\ restore.pc = "idle" /\ restore.outcome = "none"
    /\ restore' = LET now == [NoRestore EXCEPT !.goal = saved, !.previous = Settings(config),
                                               !.rev = Settings(config)]
                  IN  IF Restorable(Settings(config), saved)
                      THEN [now EXCEPT !.pc = "read",
                                !.alone = (pending = <<>>) /\ \A u \in Users : task[u].pc = "idle"]
                      ELSE [now EXCEPT !.outcome = "refused"]
    /\ UNCHANGED <<config, pending, task, line, counters>>

(* What a restore that fails has changed is put back, unless the camera *)
(* has been changed by somebody else.                                   *)
Fails(kind) ==
    IF restore.phase = "apply" /\ restore.changed /\ kind # "conflict"
    THEN [restore EXCEPT !.pc = "read", !.phase = "rollback", !.goal = restore.previous,
                         !.changed = FALSE, !.todo = {}, !.outcome = "failed",
                         !.alone = @ /\ kind # "failed"]
    ELSE [restore EXCEPT !.pc = "idle", !.todo = {}, !.alone = @ /\ kind # "failed",
                         !.outcome = "failed"]

ReadCurrent ==
    /\ restore.pc = "read"
    /\ restore' = IF Settings(config) # restore.rev THEN Fails("conflict")
                  ELSE IF ~Restorable(Settings(config), restore.goal) THEN Fails("refused")
                  ELSE [restore EXCEPT !.pc = "next", !.old = Settings(config),
                                       !.todo = Plan(Settings(config), restore.goal)]
    /\ UNCHANGED <<config, pending, task, line, counters>>

(* The plan is sorted by rank alone: keys of one rank come in any order. *)
PostNext ==
    /\ restore.pc = "next"
    /\ \E key \in restore.todo :
        /\ \A k \in restore.todo : ~Before(restore.old, restore.goal, k, key)
        /\ Arrive(Restorer, [key |-> key, value |-> restore.goal[key]], restore.rev)
        /\ restore' = [restore EXCEPT !.pc = "waiting", !.todo = @ \ {key}]
    /\ UNCHANGED <<config, pending, counters>>

TakeAnswer ==
    /\ restore.pc = "waiting" /\ task[Restorer].pc = "idle"
    /\ restore' = IF task[Restorer].answer = "ok"
                  THEN [restore EXCEPT !.pc = "next", !.changed = TRUE, !.rev = task[Restorer].page]
                  ELSE Fails(task[Restorer].answer)
    /\ UNCHANGED <<config, pending, task, line, counters>>

Confirm ==
    /\ restore.pc = "next" /\ restore.todo = {}
    /\ restore' = IF Settings(config) = restore.rev /\ Settings(config) = restore.goal
                  THEN [restore EXCEPT !.pc = "idle",
                            !.outcome = IF restore.phase = "apply" THEN "ok" ELSE "failed"]
                  ELSE Fails("conflict")
    /\ UNCHANGED <<config, pending, task, line, counters>>

(* A page the adapter asks for does not arrive. *)
ReadFails ==
    /\ restore.pc = "read" \/ (restore.pc = "next" /\ restore.todo = {})
    /\ faults < MaxFaults
    /\ faults' = faults + 1
    /\ restore' = [Fails("dropped") EXCEPT !.alone = FALSE]
    /\ UNCHANGED <<config, pending, task, line, updates, appWrites>>

Adapter == ReadCurrent \/ PostNext \/ TakeAnswer \/ Confirm

Next ==
    \/ Apply \/ AppWrite \/ Adapter \/ ReadFails
    \/ \E saved \in Backups : RestoreBackup(saved)
    \/ \E u \in Users, op \in Updates : Ask(u, op)
    \/ \E t \in Tasks : Serve(t) \/ Abandon(t)

(* Every await of a handler and of the adapter has a timeout, and the lock *)
(* is handed over in order.  Nothing makes Blink apply a write.            *)
Spec == Init /\ [][Next]_vars /\ WF_vars(Adapter) /\ \A t \in Tasks : WF_vars(Serve(t))

----------------------------------------------------------------------------
(* What the updates and the restore promise. *)

(* Types; and the line of settings_lock holds exactly the requests under *)
(* way, once each.                                                       *)
TypeOK ==
    /\ config \in Configs
    /\ \A i \in DOMAIN pending : pending[i] \in Writes
    /\ \A t \in Tasks :
        /\ task[t].pc \in {"idle", "line", "recheck", "write", "rewrite", "post", "repost",
                           "verify", "reverify", "refresh"}
        /\ task[t].answer \in {"none", "ok", "conflict", "refused", "failed", "dropped"}
        /\ task[t].tries \in 0 .. Attempts - 1
        /\ (\E i \in DOMAIN line : line[i] = t) <=> task[t].pc # "idle"
    /\ IsInjective(line)
    /\ restore.pc \in {"idle", "read", "next", "waiting"}
    /\ restore.outcome \in {"none", "ok", "failed", "refused"}
    /\ updates \in 0 .. MaxUpdates /\ appWrites \in 0 .. MaxAppWrites /\ faults \in 0 .. MaxFaults

(* What the camera will show once Blink has applied all it has accepted. *)
SettledOf(c, writes) ==
    [key \in DOMAIN c |->
        LET last == {i \in DOMAIN writes : key \in DOMAIN writes[i]}
        IN  IF last = {} THEN c[key] ELSE writes[Max(last)][key]]
Settled == SettledOf(config, pending)

(* README: "optimistic concurrency, read-back verification and rollback".  *)
(* An update that nobody outside the engine disturbed, and that was not    *)
(* dropped, is all or nothing: answered with success, the camera ends up   *)
(* as the client saw it with this one change and the page of the answer is *)
(* what it shows; answered with an error, it ends up exactly as it was, in *)
(* Blink's own encoding, however late the write and the undo are applied.  *)
(* Only the first thresholds are not undone, as documented.                *)
UpdatesAreExact ==
    [][\A t \in Tasks :
        task[t].quiet /\ task'[t].pc = "idle" /\ task'[t].answer # "dropped" =>
            LET op == task[t].op
            IN  IF task'[t].answer = "ok"
                THEN /\ Settled' = Written(Body(op, task[t].before), task[t].before)
                     /\ task'[t].page = Page(op, Settled')
                ELSE \/ Settled' = task[t].before
                     \/ op.key = "init"]_vars

(* Blink's gap is kept whatever updates, undo and restore interleave with *)
(* the app: the thresholds are only ever written as a pair.               *)
ThresholdsApart == Missing \notin {config.min, config.max} => Spaced(config)

(* The bits of the basic zone at row and column whose cells lie in a zone. *)
Hidden(privacy, row, column) ==
    {cell[1] * MicroColumns + cell[2] : cell \in
        {c \in (0 .. MicroRows - 1) \X (0 .. MicroColumns - 1) :
            \E z \in DOMAIN privacy :
                /\ column * MicroColumns + c[2] - privacy[z].x \in 0 .. privacy[z].w - 1
                /\ row * MicroRows + c[1] - privacy[z].y \in 0 .. privacy[z].h - 1}}

(* A zones update that is about to be written clears exactly the cells that *)
(* its privacy zones cover on the picture and no others; and the camera's   *)
(* motion_regions say the same as its masks.                                *)
ZonesAgree ==
    /\ \A t \in Tasks : task[t].pc = "post" /\ task[t].op.key = "zones" =>
        LET asked == task[t].op.value
            body  == task[t].body.zones
        IN  /\ \A row \in 0 .. BasicRows - 1, column \in 0 .. BasicColumns - 1 :
                LET b == row * BasicColumns + column
                IN  body.masks[b] = asked.masks[b] \ Hidden(asked.privacy, row, column)
            /\ body.motion \ (Basics \cup {Flag}) = task[t].before.zones.motion \ (Basics \cup {Flag})
    /\ GridAgrees(config.zones)

(* A camera that has alerts switched by a restore has them on only with the *)
(* thresholds they belong to; and a restore that is alone at the camera is  *)
(* never refused, and ends with every saved value (ADR 0010).               *)
RestoreIsSound ==
    restore.alone =>
        /\ restore.outcome \in {"none", "ok"}
        /\ restore.outcome = "ok" => Settings(Settled) = restore.goal
        /\ \A side \in {restore.previous, restore.goal} :
            config.alerts /\ side.alerts /\ restore.previous.alerts # restore.goal.alerts =>
                \A k \in Thresholds : config[k] = side[k]

(* The three together: the camera is never left with settings that do not fit. *)
SettingsFit == ThresholdsApart /\ ZonesAgree /\ RestoreIsSound

(* Every update is answered and gives the lock back, and every restore ends, *)
(* whether or not Blink applies what it has accepted.                        *)
EveryUpdateEnds ==
    /\ \A t \in Tasks : (task[t].pc # "idle") ~> (task[t].pc = "idle")
    /\ (restore.pc # "idle") ~> (restore.pc = "idle")

============================================================================
