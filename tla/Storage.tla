------------------------------ MODULE Storage ------------------------------
(***************************************************************************)
(* The USB storage of one Sync Module: blink_storage.rs,                   *)
(* blink_storage_mutations.rs, wait_current_command, the filter, the pages *)
(* and the handlers of api_storage.rs.  Every operation holds storage_lock *)
(* from its first request to its last; what it asks of the module is a     *)
(* command that the module carries out later, and that goes on when the    *)
(* operation gives up waiting or its handler is dropped.                   *)
(*                                                                         *)
(* The module (external) runs its commands in order.  A manifest numbers   *)
(* the clips on the medium from one, so that a number means another clip   *)
(* in another manifest, and has a new id when its clips differ from those  *)
(* of the previous one; a delete is looked up in the current manifest.     *)
(* Clips are named in the order they were recorded, on two cameras in      *)
(* turn.  "active" stands for memory_full too.                             *)
(***************************************************************************)
EXTENDS Naturals, Sequences, FiniteSets, SequencesExt

CONSTANTS
    Tasks,          \* requests served at once
    Requests,       \* what they may ask: a subset of Lists, Targets and Actions
    Limit,          \* INVENTORY_LIMIT
    MaxPageSize,    \* MAX_PAGE_SIZE
    Polls,          \* polls of a command before CommandTimeout
    MaxClips,       \* bound: clips ever recorded
    MaxManifests,   \* bound: manifests built
    MaxCommands,    \* bound: commands posted
    MaxFaults       \* bound: requests that fail and handlers that are dropped

ASSUME StorageAssumption ==
    /\ {Limit, MaxPageSize, Polls} \subseteq Nat \ {0}
    /\ {MaxClips, MaxManifests, MaxCommands, MaxFaults} \subseteq Nat

VARIABLES
    usb,         \* the module: usb_state
    clips,       \* the module: clips on the medium
    recorded,    \* the module: clips ever recorded
    manifests,   \* the module: the manifests it has built, the last one is current
    commands,    \* the module: its commands, and how each ended
    task,        \* per request, where it stands
    line,        \* storage_lock: its holder and then those that wait, in order
    faults

module == <<usb, clips, recorded, manifests>>
vars == <<module, commands, task, line, faults>>

Cameras == {0, 1}
CameraOf(clip) == clip % 2
Positions == 1 .. MaxClips

Queries == [page : 0 .. MaxClips, size : 0 .. MaxPageSize + 1, cameras : SUBSET Cameras \ {{}}]

Lists == [kind : {"list"}]
Targets == [kind : {"delete", "clip"}, manifest : 1 .. MaxManifests, clip : Positions]
Commands == [kind : {"eject", "mount"}]
Formats == [kind : {"format"}]     \* confirmed by the exact phrase
Actions == Commands \cup Formats
NoOp == [kind |-> "none"]

(* What the requests may ask is one of the operations the API has.          *)
ASSUME RequestsAssumption == Requests \subseteq Lists \cup Targets \cup Actions

NoTask == [pc |-> "idle", op |-> NoOp, cmd |-> 0, polls |-> 0, done |-> FALSE]

Readable(state) == state = "active"

(* StorageCommand::allowed: what the module's status lets a command do. *)
Allowed(kind, state) ==
    CASE kind = "eject"  -> Readable(state)
      [] kind = "mount"  -> state = "unmounted"
      [] kind = "format" -> state # "unmounted"

Init ==
    /\ usb \in {"active", "format_required"}
    /\ clips = {}
    /\ recorded = 0
    /\ manifests = <<>>
    /\ commands = <<>>
    /\ task = [t \in Tasks |-> NoTask]
    /\ line = <<>>
    /\ faults = 0

----------------------------------------------------------------------------
(* The module. *)

RecordClip ==
    /\ usb = "active" /\ recorded < MaxClips
    /\ recorded' = recorded + 1
    /\ clips' = clips \cup {recorded + 1}
    /\ UNCHANGED <<usb, manifests, commands, task, line, faults>>

(* Clips in the order they were recorded. *)
Ascending(S) ==
    LET upTo[n \in 0 .. MaxClips] ==
            IF n = 0 THEN <<>> ELSE IF n \in S THEN Append(upTo[n - 1], n) ELSE upTo[n - 1]
    IN  upTo[MaxClips]

Current == Len(manifests)
Listed == Ascending(clips)

(* The Blink app, or a medium that is full: the oldest clip goes. *)
ClipGoes ==
    /\ usb = "active" /\ clips # {}
    /\ clips' = clips \ {Listed[1]}
    /\ UNCHANGED <<usb, recorded, manifests, commands, task, line, faults>>

Queued == {i \in DOMAIN commands : commands[i].state = "queued"}
Finish(i, state, manifest, gone) ==
    commands' = [commands EXCEPT ![i].state = state, ![i].manifest = manifest, ![i].gone = gone]

BuildManifest(i) ==
    /\ commands[i].kind = "manifest" /\ Readable(usb)
    /\ manifests' = IF Current > 0 /\ manifests[Current] = Listed
                    THEN manifests ELSE Append(manifests, Listed)
    /\ Len(manifests') <= MaxManifests
    /\ Finish(i, "ok", Len(manifests'), {})
    /\ UNCHANGED <<usb, clips>>

DeleteClip(i) ==
    /\ commands[i].kind = "delete" /\ Readable(usb)
    /\ commands[i].op.clip \in DOMAIN manifests[Current]
    /\ LET clip == manifests[Current][commands[i].op.clip]
       IN  /\ clip \in clips
           /\ clips' = clips \ {clip}
           /\ Finish(i, "ok", Current, {clip})
    /\ UNCHANGED <<usb, manifests>>

ChangeMedium(i) ==
    /\ commands[i].kind \in {"format", "eject", "mount"}
    /\ Allowed(commands[i].kind, usb)
    /\ usb' = IF commands[i].kind = "eject" THEN "unmounted" ELSE "active"
    /\ clips' = IF commands[i].kind = "format" THEN {} ELSE clips
    /\ Finish(i, "ok", 0, {})
    /\ UNCHANGED manifests

UploadClip(i) ==
    /\ commands[i].kind = "clip" /\ Readable(usb)
    /\ Finish(i, "ok", 0, {})
    /\ UNCHANGED <<usb, clips, manifests>>

CarryOut(i) == BuildManifest(i) \/ DeleteClip(i) \/ ChangeMedium(i) \/ UploadClip(i)

(* What cannot be carried out fails. *)
Reject(i) ==
    /\ ~ ENABLED CarryOut(i)
    /\ Finish(i, "failed", 0, {})
    /\ UNCHANGED <<usb, clips, manifests>>

Execute ==
    /\ \E i \in Queued :
        /\ \A j \in Queued : i <= j
        /\ CarryOut(i) \/ Reject(i)
    /\ UNCHANGED <<recorded, task, line, faults>>

----------------------------------------------------------------------------
(* The lock, and what every operation does with it. *)

Holds(t) == line # <<>> /\ Head(line) = t
At(t, pc) == task[t].pc = pc /\ Holds(t)

(* The request ends: its guard is dropped, and the module keeps what it has *)
(* been sent.  A command that succeeded is remembered as such.              *)
LeaveLine(t) == \E i \in DOMAIN line : line[i] = t /\ line' = RemoveAt(line, i)
Succeed(t) ==
    /\ task' = [task EXCEPT ![t].pc = "idle", ![t].done = TRUE]
    /\ LeaveLine(t)
EndHeld(t) == task' = [task EXCEPT ![t] = NoTask] /\ UNCHANGED line   \* the bug: the guard stays
End(t) == task' = [task EXCEPT ![t] = NoTask] /\ LeaveLine(t)

Goto(t, pc) == task' = [task EXCEPT ![t].pc = pc, ![t].polls = 0] /\ UNCHANGED line

(* Past the bound the POST fails. *)
Send(t, kind, pc) ==
    IF Len(commands) = MaxCommands
    THEN End(t) /\ UNCHANGED commands
    ELSE /\ commands' = Append(commands,
                [kind |-> kind, op |-> IF kind = "manifest" THEN NoOp ELSE task[t].op,
                 state |-> "queued", manifest |-> 0, gone |-> {}, left |-> FALSE])
         /\ task' = [task EXCEPT ![t].pc = pc, ![t].cmd = Len(commands) + 1, ![t].polls = 0]
         /\ UNCHANGED line

Request(t, op) ==
    /\ task[t].pc = "idle" /\ Len(commands) < MaxCommands
    /\ op.kind \in {"delete", "clip"} =>
           op.manifest <= Current /\ op.clip \in DOMAIN manifests[op.manifest]
    /\ task' = [task EXCEPT ![t] = [NoTask EXCEPT !.pc = "line", !.op = op]]
    /\ line' = Append(line, t)
    /\ UNCHANGED <<module, commands, faults>>

Start(t) ==
    /\ At(t, "line")
    /\ Goto(t, CASE task[t].op.kind = "delete" -> "manifest"
                 [] task[t].op.kind = "clip"   -> "post"
                 [] OTHER                      -> "status")
    /\ UNCHANGED <<module, commands, faults>>

(* A failed request, or a handler that is dropped. *)
Abandon(t) ==
    /\ task[t].pc # "idle" /\ faults < MaxFaults
    /\ faults' = faults + 1
    /\ End(t)
    /\ commands' = [i \in DOMAIN commands |->
           [commands[i] EXCEPT !.left = @ \/ (task[t].cmd = i /\ commands[i].state = "queued")]]
    /\ UNCHANGED module

----------------------------------------------------------------------------
(* Pages: the newest first, of the selected cameras, one page of them. *)

PageStartsLate(query) == query.page * query.size     \* the bug: pages counted from zero
PageStart(query) == (query.page - 1) * query.size

Least(i, j) == IF i < j THEN i ELSE j

Parsed(manifest) ==
    {manifests[manifest][i] : i \in 1 .. Least(Len(manifests[manifest]), Limit)}

(* The code sorts and then drops the clips of other cameras: the rest keeps *)
(* its order.                                                              *)
Newest(S) == Reverse(Ascending(S))
Selected(manifest, cameras) == Newest({c \in Parsed(manifest) : CameraOf(c) \in cameras})

Page(manifest, query) ==
    LET selected == Selected(manifest, query.cameras)
        total    == (Len(selected) + query.size - 1) \div query.size
        start    == PageStart(query)
        end      == Least(start + query.size, Len(selected))
    IN  [clips |-> SubSeq(selected, start + 1, end),
         next  |-> query.page < (IF total = 0 THEN 1 ELSE total)]

Paged(query) == query.page # 0 /\ query.size # 0 /\ query.size <= MaxPageSize

(* The clips have been read, or there are none: the page that was asked for *)
(* is the answer, and only now is a page that does not exist refused.       *)
AnswerList(t) == End(t)

----------------------------------------------------------------------------
(* Requests to the module. *)

ListStatus(t) ==
    /\ At(t, "status") /\ task[t].op.kind = "list"
    /\ IF Readable(usb) THEN Goto(t, "manifest") ELSE AnswerList(t)
    /\ UNCHANGED <<module, commands, faults>>

CommandStatus(t) ==
    /\ At(t, "status") /\ task[t].op \in Actions
    /\ IF Allowed(task[t].op.kind, usb) THEN Goto(t, "post") ELSE End(t)
    /\ UNCHANGED <<module, commands, faults>>

RequestManifest(t) ==
    /\ At(t, "manifest")
    /\ Send(t, "manifest", "building")
    /\ UNCHANGED <<module, faults>>

Succeeded(command) == command.state = "ok"

(* The last poll found the command pending: the operation fails, the *)
(* command stays with the module.                                    *)
PollsOut(t) == task[t].polls + 1 = Polls

Poll(t) ==
    /\ task[t].pc \in {"building", "acting"} /\ Holds(t)
    /\ LET command == commands[task[t].cmd]
       IN  \/ /\ command.state = "queued"
              /\ IF PollsOut(t)
                 THEN End(t) /\ commands' = [commands EXCEPT ![task[t].cmd].left = TRUE]
                 ELSE task' = [task EXCEPT ![t].polls = @ + 1] /\ UNCHANGED <<line, commands>>
           \/ /\ command.state # "queued"
              /\ IF ~Succeeded(command) THEN End(t)
                 ELSE IF task[t].pc = "building" THEN Goto(t, "media")
                 ELSE IF task[t].op.kind = "clip" THEN Goto(t, "download")
                 ELSE Succeed(t)
              /\ UNCHANGED commands
    /\ UNCHANGED <<module, faults>>

(* verify_storage_target: the manifest on the page is the one that has *)
(* just been built, and it lists the clip.                             *)
(* The bug: only the clip's number is looked for. *)
TargetIsListed(op, manifest) == op.clip \in DOMAIN manifests[manifest] /\ op.clip <= Limit

TargetIsCurrent(op, manifest) ==
    /\ op.manifest = manifest
    /\ op.clip \in DOMAIN manifests[manifest] /\ op.clip <= Limit

ReadListing(t) ==
    /\ At(t, "media") /\ task[t].op.kind = "list"
    /\ AnswerList(t)
    /\ UNCHANGED <<module, commands, faults>>

VerifyTarget(t) ==
    /\ At(t, "media") /\ task[t].op.kind = "delete"
    /\ IF TargetIsCurrent(task[t].op, commands[task[t].cmd].manifest) THEN Goto(t, "post") ELSE End(t)
    /\ UNCHANGED <<module, commands, faults>>

Post(t) ==
    /\ At(t, "post")
    /\ Send(t, task[t].op.kind, "acting")
    /\ UNCHANGED <<module, faults>>

Download(t) ==
    /\ At(t, "download")
    /\ Succeed(t)
    /\ UNCHANGED <<module, commands, faults>>

Serve(t) ==
    \/ Start(t) \/ ListStatus(t) \/ CommandStatus(t) \/ RequestManifest(t) \/ Poll(t)
    \/ ReadListing(t) \/ VerifyTarget(t) \/ Post(t) \/ Download(t)

Next ==
    \/ RecordClip \/ ClipGoes \/ Execute
    \/ \E t \in Tasks : \/ Serve(t) \/ Abandon(t)
                        \/ \E op \in Requests : Request(t, op)

(* A handler that holds the lock or is next in line runs: every await of   *)
(* it has a timeout.  Nothing makes the module carry a command out.        *)
Spec == Init /\ [][Next]_vars /\ \A t \in Tasks : WF_vars(Serve(t))

----------------------------------------------------------------------------
(* What the storage operations promise. *)

CommandStates == [kind : {"manifest", "delete", "clip", "format", "eject", "mount"},
                  op : Targets \cup Actions \cup {NoOp}, state : {"queued", "ok", "failed"},
                  manifest : 0 .. MaxManifests, gone : SUBSET Positions, left : BOOLEAN]

(* Types; and the line of storage_lock holds exactly the requests under way, *)
(* once each.                                                                *)
TypeOK ==
    /\ usb \in {"active", "unmounted", "format_required"}
    /\ clips \subseteq 1 .. recorded /\ recorded \in 0 .. MaxClips
    /\ Len(manifests) <= MaxManifests
    /\ Len(commands) <= MaxCommands
    /\ \A i \in DOMAIN commands : commands[i] \in CommandStates
    /\ Len(line) = Cardinality({t \in Tasks : task[t].pc # "idle"})
    /\ {t \in Tasks : task[t].pc # "idle"} = {line[i] : i \in DOMAIN line}
    /\ faults \in 0 .. MaxFaults

(* ADR 0007: "A rotated manifest cannot cause deletion of a different clip." *)
(* Whatever the module deletes for the engine is the clip that the page the  *)
(* request came from showed under that number, although manifests are        *)
(* rebuilt by other requests, by commands that outlive the operation that    *)
(* posted them, and the number alone means another clip by then.             *)
RotationIsHarmless ==
    \A i \in DOMAIN commands :
        \A clip \in commands[i].gone :
            clip = manifests[commands[i].op.manifest][commands[i].op.clip]

(* ADR 0011: "A failed or unconfirmed provider command can no longer be *)
(* shown as success."  An operation that was answered with success has  *)
(* had its own command carried out by the module.                       *)
SuccessIsDone ==
    \A t \in Tasks :
        task[t].done /\ task[t].op.kind # "list" =>
            LET command == commands[task[t].cmd]
            IN  command.kind = task[t].op.kind /\ command.op = task[t].op /\ command.state = "ok"

(* ADR 0011: eject, mount and format "are revalidated against fresh provider *)
(* status before sending".  When one is sent the module's status still       *)
(* allows it: no other operation of the engine has changed it since it was   *)
(* read, unless an operation gave up on a command the module then ran.       *)
StatusIsFresh ==
    \A t \in Tasks :
        task[t].pc = "post" /\ task[t].op.kind \in {"format", "eject", "mount"} =>
            Allowed(task[t].op.kind, usb) \/ \E i \in DOMAIN commands : commands[i].left

(* The three together: what the engine sends to the module is guarded. *)
StorageIsGuarded == RotationIsHarmless /\ StatusIsFresh /\ SuccessIsDone

(* Whatever page of the manifest that has just been read was asked for, it  *)
(* holds the clips of the selected cameras that have the right number of    *)
(* newer ones before them, the newest first, and says that there is a next  *)
(* page exactly when an older clip is left: walking the pages of a manifest *)
(* shows each of its clips once.                                            *)
PagesAreRight ==
    \A t \in Tasks : task[t].pc = "media" /\ task[t].op.kind = "list" =>
        LET built == commands[task[t].cmd].manifest
        IN  \A query \in {q \in Queries : Paged(q)} :
            LET page == Page(built, query)
                all  == {c \in Positions : CameraOf(c) \in query.cameras /\
                            \E i \in DOMAIN manifests[built] : i <= Limit /\ manifests[built][i] = c}
                Newer(c) == Cardinality({d \in all : d > c})
            IN  /\ {page.clips[i] : i \in DOMAIN page.clips}
                      = {c \in all : Newer(c) \div query.size = query.page - 1}
                /\ \A i, j \in DOMAIN page.clips : i < j => page.clips[i] > page.clips[j]
                /\ page.next <=> \E c \in all : Newer(c) >= query.page * query.size

(* Every request is answered and gives the lock back, whatever the module *)
(* does with the commands: the polls are bounded, and the line moves on.  *)
EveryRequestEnds == \A t \in Tasks : (task[t].pc # "idle") ~> (task[t].pc = "idle")

============================================================================
