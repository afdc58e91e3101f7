---------------------------- MODULE StorageProofs ----------------------------
(***************************************************************************)
(* Proofs about Storage for every number of requests, clips, manifests and *)
(* commands, whatever is asked for, fails or is dropped: type correctness  *)
(* with the line of storage_lock, and that what the engine sends to the    *)
(* Sync Module is guarded.                                                 *)
(***************************************************************************)
EXTENDS Storage, FiniteSetTheorems, SequenceTheorems, WellFoundedInduction, TLAPS

-----------------------------------------------------------------------------
(* Types. *)

Asked == Lists \cup Targets \cup Actions
TaskPCs == {"idle", "line", "status", "manifest", "building", "media", "post", "acting", "download"}
TaskRecords == [pc : TaskPCs, op : Asked \cup {NoOp}, cmd : Nat, polls : Nat, done : BOOLEAN]

ModuleOK ==
    /\ usb \in {"active", "unmounted", "format_required"}
    /\ recorded \in 0 .. MaxClips /\ clips \subseteq 1 .. recorded
    /\ faults \in 0 .. MaxFaults
ManifestsOK == manifests \in Seq(Seq(Positions)) /\ Len(manifests) \in 0 .. MaxManifests
CommandsOK == commands \in Seq(CommandStates) /\ Len(commands) <= MaxCommands
TasksOK == task \in [Tasks -> TaskRecords]

(* The line holds the requests under way, once each. *)
Busy == {t \in Tasks : task[t].pc # "idle"}
LineOK ==
    /\ line \in Seq(Tasks)
    /\ \A i, j \in 1 .. Len(line) : line[i] = line[j] => i = j
    /\ \A t \in Tasks : t \in Busy <=> \E i \in 1 .. Len(line) : line[i] = t
    /\ IsFiniteSet(Busy) /\ Len(line) = Cardinality(Busy)

Typed == ModuleOK /\ ManifestsOK /\ CommandsOK /\ TasksOK /\ LineOK

LEMMA Bounds ==
    /\ Limit \in Nat \ {0} /\ MaxPageSize \in Nat \ {0} /\ Polls \in Nat \ {0}
    /\ MaxClips \in Nat /\ MaxManifests \in Nat /\ MaxCommands \in Nat /\ MaxFaults \in Nat
  BY StorageAssumption

(* An operation is known by its kind. *)
LEMMA OpKinds ==
    ASSUME NEW op \in Asked \cup {NoOp}
    PROVE /\ op.kind = "list" <=> op \in Lists
          /\ op.kind \in {"delete", "clip"} <=> op \in Targets
          /\ op.kind \in {"eject", "mount", "format"} <=> op \in Actions
          /\ op.kind \in {"list", "delete", "clip", "eject", "mount", "format", "none"}
          /\ op \in Asked => op.kind # "none"
  BY DEF Asked, Lists, Targets, Actions, Commands, Formats, NoOp

(* A place in the line is given up: the others keep their order. *)
LEMMA PlaceLeft ==
    ASSUME NEW s \in Seq(Tasks), NEW i \in 1 .. Len(s)
    PROVE /\ RemoveAt(s, i) \in Seq(Tasks)
          /\ Len(RemoveAt(s, i)) = Len(s) - 1
          /\ \A j \in 1 .. Len(s) - 1 :
                RemoveAt(s, i)[j] = IF j < i THEN s[j] ELSE s[j + 1]
  <1> DEFINE front == SubSeq(s, 1, i - 1)
             back == SubSeq(s, i + 1, Len(s))
  <1>1. /\ front \in Seq(Tasks) /\ Len(front) = i - 1
        /\ \A j \in 1 .. i - 1 : front[j] = s[j]
    OBVIOUS
  <1>2. /\ back \in Seq(Tasks) /\ Len(back) = Len(s) - i
        /\ \A j \in 1 .. Len(s) - i : back[j] = s[j + i]
    OBVIOUS
  <1>3. RemoveAt(s, i) = front \o back
    BY DEF RemoveAt
  <1> HIDE DEF front, back
  <1>4. front \o back \in Seq(Tasks) /\ Len(front \o back) = Len(s) - 1
    BY <1>1, <1>2
  <1>5. ASSUME NEW j \in 1 .. Len(s) - 1
        PROVE (front \o back)[j] = IF j < i THEN s[j] ELSE s[j + 1]
    <2>1. CASE j < i
      BY <1>1, <1>2, <2>1
    <2>2. CASE ~ (j < i)
      <3>1. j - (i - 1) \in 1 .. Len(s) - i /\ (j - (i - 1)) + i = j + 1
        BY <2>2
      <3>2. (front \o back)[j] = back[j - (i - 1)]
        BY <1>1, <1>2, <2>2
      <3> QED
        BY <1>2, <2>2, <3>1, <3>2
    <2> QED
      BY <2>1, <2>2
  <1> QED
    BY <1>3, <1>4, <1>5

(* The records the steps build. *)
LEMMA TaskUpdates ==
    ASSUME NEW r \in TaskRecords, NEW pc \in TaskPCs, NEW n \in Nat
    PROVE /\ [r EXCEPT !.pc = pc, !.polls = 0] \in TaskRecords
          /\ [r EXCEPT !.pc = pc, !.done = TRUE] \in TaskRecords
          /\ [r EXCEPT !.pc = pc, !.cmd = n, !.polls = 0] \in TaskRecords
          /\ [r EXCEPT !.polls = n] \in TaskRecords
          /\ r.polls + 1 \in Nat
  <1>1. r.polls + 1 \in Nat
    BY DEF TaskRecords
  <1>2. [r EXCEPT !.pc = pc, !.polls = 0] \in TaskRecords
    BY DEF TaskRecords
  <1>3. [r EXCEPT !.pc = pc, !.done = TRUE] \in TaskRecords
    BY DEF TaskRecords
  <1>4. [r EXCEPT !.pc = pc, !.cmd = n, !.polls = 0] \in TaskRecords
    BY DEF TaskRecords
  <1>5. [r EXCEPT !.polls = n] \in TaskRecords
    BY DEF TaskRecords
  <1> QED
    BY <1>1, <1>2, <1>3, <1>4, <1>5

LEMMA FreshTasks ==
    /\ NoTask \in TaskRecords /\ NoTask.pc = "idle" /\ NoTask.cmd = 0 /\ NoTask.done = FALSE
    /\ \A op \in Asked : [NoTask EXCEPT !.pc = "line", !.op = op] \in TaskRecords
  BY DEF NoTask, TaskRecords, TaskPCs

LEMMA CommandUpdates ==
    ASSUME NEW c \in CommandStates
    PROVE /\ \A s \in {"ok", "failed"}, m \in 0 .. MaxManifests, g \in SUBSET Positions :
                [c EXCEPT !.state = s, !.manifest = m, !.gone = g] \in CommandStates
          /\ \A b \in BOOLEAN : [c EXCEPT !.left = b] \in CommandStates
          /\ c.left \in BOOLEAN
  BY DEF CommandStates

LEMMA FreshCommand ==
    ASSUME NEW kind \in {"manifest", "delete", "clip", "format", "eject", "mount"},
           NEW op \in Targets \cup Actions \cup {NoOp}
    PROVE [kind |-> kind, op |-> op, state |-> "queued", manifest |-> 0, gone |-> {}, left |-> FALSE]
            \in CommandStates
  BY Bounds DEF CommandStates

-----------------------------------------------------------------------------
(* The inductive invariant.  Only the holder of storage_lock works; what it  *)
(* knows of the module is true while it holds the lock, because every        *)
(* command that is still queued then is its own or has been given up         *)
(* ("LeftOrOwn"), and the module runs its commands in order ("InOrder"): the *)
(* manifest that a delete has been checked against is the current one and    *)
(* nothing is queued before the delete ("DeletesAreNext").                   *)
Own(t) == commands[task[t].cmd]
Mine(t) == task[t].cmd \in 1 .. Len(commands)
Carried(t) == Mine(t) /\ Own(t).kind = task[t].op.kind /\ Own(t).op = task[t].op
NothingQueued == \A i \in 1 .. Len(commands) : commands[i].state # "queued"
PostKinds == {"delete", "clip", "format", "eject", "mount"}

Works(t) ==
    /\ task[t].pc \notin {"idle", "line"} => Holds(t)
    /\ task[t].pc # "idle" => task[t].op \in Asked
    /\ task[t].pc \in {"line", "status", "manifest"} => task[t].cmd = 0
    /\ task[t].pc = "building" =>
        /\ Mine(t) /\ task[t].cmd = Len(commands) /\ Own(t).kind = "manifest"
        /\ Own(t).state = "ok" => Own(t).manifest = Current /\ Current # 0
    /\ task[t].pc = "media" =>
        Mine(t) /\ NothingQueued /\ Own(t).manifest = Current /\ Current # 0
    /\ task[t].pc = "post" =>
        /\ task[t].op.kind \in PostKinds
        /\ task[t].op.kind = "delete" => NothingQueued /\ task[t].op.manifest = Current
    /\ task[t].pc = "acting" => Carried(t) /\ task[t].cmd = Len(commands)
    /\ task[t].pc = "download" => Carried(t) /\ Own(t).state = "ok"
    /\ task[t].done =>
        /\ task[t].pc = "idle"
        /\ task[t].op.kind # "list" => Carried(t) /\ Own(t).state = "ok"
AllWork == \A t \in Tasks : Works(t)

CommandsAreAsked ==
    \A i \in 1 .. Len(commands) :
        commands[i].kind # "manifest" => commands[i].op.kind = commands[i].kind
InOrder ==
    \A i, j \in 1 .. Len(commands) :
        i < j /\ commands[i].state = "queued" => commands[j].state = "queued"
DeletesAreNext ==
    \A i \in 1 .. Len(commands) :
        commands[i].kind = "delete" /\ commands[i].state = "queued" =>
            /\ commands[i].op.manifest = Current
            /\ \A j \in 1 .. Len(commands) : j < i => commands[j].state # "queued"
GoneIsShown ==
    \A i \in 1 .. Len(commands) : \A clip \in commands[i].gone :
        /\ commands[i].op.manifest \in 1 .. Current
        /\ clip = manifests[commands[i].op.manifest][commands[i].op.clip]
LeftOrOwn ==
    \A i \in 1 .. Len(commands) :
        commands[i].state = "queued" =>
            \/ commands[i].left
            \/ \E t \in Tasks : Holds(t) /\ task[t].pc \in {"building", "acting"} /\ task[t].cmd = i
Order == CommandsAreAsked /\ InOrder /\ DeletesAreNext /\ GoneIsShown

Flow == AllWork /\ Order /\ LeftOrOwn /\ StatusIsFresh

LEMMA OneHolder ==
    ASSUME NEW t, NEW u, Holds(t), Holds(u) PROVE t = u
  BY DEF Holds

(* The holder works, everybody else waits or is idle. *)
LEMMA OthersWait ==
    ASSUME AllWork, NEW t \in Tasks, Holds(t), NEW u \in Tasks, u # t
    PROVE task[u].pc \in {"idle", "line"}
  BY OneHolder DEF AllWork, Works

(* Commands are only added and finished, and a finished one stays as it is. *)
CommandsKept ==
    /\ Len(commands') \in Nat /\ Len(commands) <= Len(commands')
    /\ \A i \in 1 .. Len(commands) :
        /\ commands'[i].kind = commands[i].kind /\ commands'[i].op = commands[i].op
        /\ commands[i].state # "queued" =>
            /\ commands'[i].state = commands[i].state
            /\ commands'[i].manifest = commands[i].manifest
        /\ commands[i].left => commands'[i].left

(* Nothing happens to them but that an operation gives one up. *)
SameCommands ==
    /\ Len(commands') = Len(commands)
    /\ \A i \in 1 .. Len(commands) :
        /\ commands'[i].kind = commands[i].kind /\ commands'[i].op = commands[i].op
        /\ commands'[i].state = commands[i].state /\ commands'[i].gone = commands[i].gone
        /\ commands'[i].manifest = commands[i].manifest
        /\ commands[i].left => commands'[i].left

LEMMA SameIsKept == ASSUME Typed, SameCommands PROVE CommandsKept
  BY DEF SameCommands, CommandsKept, Typed, CommandsOK

LEMMA Bystander ==
    ASSUME Typed, NEW u \in Tasks, Works(u), task[u].pc \in {"idle", "line"},
           task'[u] = task[u], CommandsKept
    PROVE Works(u)'
  <1>1. Carried(u) /\ Own(u).state = "ok" => Carried(u)' /\ Own(u)'.state = "ok"
    <2> SUFFICES ASSUME Carried(u), Own(u).state = "ok" PROVE Carried(u)' /\ Own(u)'.state = "ok"
      OBVIOUS
    <2>1. task[u].cmd \in 1 .. Len(commands)
      BY DEF Carried, Mine
    <2>2. task[u].cmd \in 1 .. Len(commands')
      BY <2>1 DEF CommandsKept, Typed, CommandsOK
    <2> QED
      BY <2>1, <2>2 DEF Carried, Mine, Own, CommandsKept
  <1> QED
    BY <1>1 DEF Works

LEMMA OrderKept ==
    ASSUME Typed, Order, manifests' = manifests, SameCommands PROVE Order'
  <1>1. CommandsAreAsked' /\ InOrder'
    BY DEF Order, CommandsAreAsked, InOrder, SameCommands
  <1>2. DeletesAreNext'
    BY DEF Order, DeletesAreNext, SameCommands, Current
  <1>3. GoneIsShown'
    BY DEF Order, GoneIsShown, SameCommands, Current
  <1> QED
    BY <1>1, <1>2, <1>3 DEF Order

LEMMA FreshKept ==
    ASSUME StatusIsFresh, usb' = usb, CommandsKept,
           \A u \in Tasks :
              \/ task'[u].pc = "post" => task[u].pc = "post" /\ task'[u].op = task[u].op
              \/ task'[u].op.kind \notin {"format", "eject", "mount"}
              \/ Allowed(task'[u].op.kind, usb),
           Typed, Typed'
    PROVE StatusIsFresh'
  <1>1. DOMAIN commands = 1 .. Len(commands) /\ DOMAIN commands' = 1 .. Len(commands')
    BY DEF Typed, CommandsOK
  <1>2. (\E i \in DOMAIN commands : commands[i].left) => (\E i \in DOMAIN commands' : commands'[i].left)
    <2> SUFFICES ASSUME NEW i \in 1 .. Len(commands), commands[i].left
                 PROVE \E j \in 1 .. Len(commands') : commands'[j].left
      BY <1>1
    <2>1. i \in 1 .. Len(commands') /\ commands'[i].left
      BY DEF CommandsKept, Typed, CommandsOK
    <2> QED
      BY <2>1
  <1> QED
    BY <1>2 DEF StatusIsFresh, Allowed, Readable

-----------------------------------------------------------------------------
(* The line of storage_lock. *)

LEMMA TakesPlace ==
    ASSUME Typed, NEW t \in Tasks, task[t].pc = "idle", line' = Append(line, t),
           NEW r, task' = [task EXCEPT ![t] = r], r.pc # "idle"
    PROVE LineOK'
  <1>l. line \in Seq(Tasks) /\ Len(line) \in Nat
    BY DEF Typed, LineOK
  <1>0. /\ Len(line') = Len(line) + 1 /\ line' \in Seq(Tasks)
        /\ \A i \in 1 .. Len(line) : line'[i] = line[i]
        /\ line'[Len(line) + 1] = t
    BY <1>l
  <1>1. \A i \in 1 .. Len(line) : line[i] # t
    BY DEF Typed, LineOK, Busy
  <1>2. Busy' = Busy \cup {t} /\ t \notin Busy
    BY DEF Typed, TasksOK, Busy
  <1>3. IsFiniteSet(Busy') /\ Len(line') = Cardinality(Busy')
    BY <1>0, <1>2, FS_AddElement DEF Typed, LineOK
  <1>4. \A i, j \in 1 .. Len(line') : line'[i] = line'[j] => i = j
    BY <1>l, <1>0, <1>1 DEF Typed, LineOK
  <1>5. ASSUME NEW u \in Tasks
        PROVE u \in Busy' <=> \E i \in 1 .. Len(line') : line'[i] = u
    <2>1. CASE u = t
      BY <1>l, <1>0, <1>2, <2>1
    <2>2. CASE u # t
      <3>1. u \in Busy' <=> \E i \in 1 .. Len(line) : line[i] = u
        BY <1>2, <2>2 DEF Typed, LineOK
      <3> QED
        BY <1>l, <1>0, <2>2, <3>1
    <2> QED
      BY <2>1, <2>2
  <1> QED
    BY <1>0, <1>3, <1>4, <1>5 DEF LineOK

LEMMA GivesPlaceUp ==
    ASSUME Typed, NEW t \in Tasks, LeaveLine(t),
           NEW r, task' = [task EXCEPT ![t] = r], r.pc = "idle"
    PROVE LineOK'
  <1>l. line \in Seq(Tasks) /\ Len(line) \in Nat
    BY DEF Typed, LineOK
  <1>p. PICK k \in 1 .. Len(line) : line[k] = t /\ line' = RemoveAt(line, k)
    BY <1>l DEF LeaveLine
  <1>0. /\ Len(line') = Len(line) - 1 /\ line' \in Seq(Tasks)
        /\ \A j \in 1 .. Len(line) - 1 : line'[j] = IF j < k THEN line[j] ELSE line[j + 1]
    BY <1>l, <1>p, PlaceLeft
  <1>d. \A i, j \in 1 .. Len(line) : line[i] = line[j] => i = j
    BY DEF Typed, LineOK
  <1>1. t \in Busy
    BY <1>p DEF Typed, LineOK
  <1>2. Busy' = Busy \ {t}
    BY DEF Typed, TasksOK, Busy
  <1>3. IsFiniteSet(Busy') /\ Len(line') = Cardinality(Busy')
    BY <1>0, <1>1, <1>2, FS_RemoveElement DEF Typed, LineOK
  <1>4. ASSUME NEW i \in 1 .. Len(line'), NEW j \in 1 .. Len(line'), line'[i] = line'[j]
        PROVE i = j
    <2> DEFINE from(n) == IF n < k THEN n ELSE n + 1
    <2>1. from(i) \in 1 .. Len(line) /\ from(j) \in 1 .. Len(line)
      BY <1>l, <1>0
    <2>2. line'[i] = line[from(i)] /\ line'[j] = line[from(j)]
      BY <1>l, <1>0
    <2>3. from(i) = from(j)
      BY <1>d, <1>4, <2>1, <2>2
    <2> QED
      BY <1>l, <1>0, <2>3
  <1>5. ASSUME NEW u \in Tasks
        PROVE u \in Busy' <=> \E i \in 1 .. Len(line') : line'[i] = u
    <2>1. ASSUME NEW i \in 1 .. Len(line'), line'[i] = u PROVE u \in Busy'
      <3> DEFINE n == IF i < k THEN i ELSE i + 1
      <3>1. n \in 1 .. Len(line) /\ n # k /\ line[n] = u
        BY <1>l, <1>0, <2>1
      <3>2. u # t
        BY <1>d, <1>p, <3>1
      <3> QED
        BY <1>2, <3>1, <3>2 DEF Typed, LineOK
    <2>2. ASSUME u \in Busy' PROVE \E i \in 1 .. Len(line') : line'[i] = u
      <3>1. PICK n \in 1 .. Len(line) : line[n] = u
        BY <1>2, <2>2 DEF Typed, LineOK
      <3>2. n # k
        BY <1>2, <1>p, <2>2, <3>1
      <3> DEFINE i == IF n < k THEN n ELSE n - 1
      <3>3. i \in 1 .. Len(line')
        BY <1>l, <1>0, <3>2
      <3>4. line'[i] = u
        BY <1>l, <1>0, <3>1, <3>2
      <3> QED
        BY <3>3, <3>4
    <2> QED
      BY <2>1, <2>2
  <1> QED
    BY <1>0, <1>3, <1>4, <1>5 DEF LineOK

LEMMA KeepsPlace ==
    ASSUME Typed, NEW t \in Tasks, task[t].pc # "idle", line' = line,
           NEW r, task' = [task EXCEPT ![t] = r], r.pc # "idle"
    PROVE LineOK'
  <1>1. Busy' = Busy
    BY DEF Typed, TasksOK, Busy
  <1> QED
    BY <1>1 DEF Typed, LineOK

-----------------------------------------------------------------------------
(* What a step makes of the record of its request. *)

Becomes(t, r) ==
    /\ r \in TaskRecords
    /\ task' = [task EXCEPT ![t] = r] /\ task'[t] = r
    /\ TasksOK'

LEMMA GoesTo ==
    ASSUME Typed, NEW t \in Tasks, NEW pc \in TaskPCs, Goto(t, pc)
    PROVE \E r : /\ Becomes(t, r) /\ r.pc = pc
                 /\ r.op = task[t].op /\ r.cmd = task[t].cmd /\ r.done = task[t].done
  <1> DEFINE r == [task[t] EXCEPT !.pc = pc, !.polls = 0]
  <1>1. task[t] \in TaskRecords
    BY DEF Typed, TasksOK
  <1>2. r \in TaskRecords
    BY <1>1, TaskUpdates
  <1>3. r.pc = pc /\ r.op = task[t].op /\ r.cmd = task[t].cmd /\ r.done = task[t].done
    BY <1>1 DEF TaskRecords
  <1>4. task' = [task EXCEPT ![t] = r]
    BY DEF Goto, Typed, TasksOK
  <1> HIDE DEF r
  <1>5. Becomes(t, r)
    BY <1>2, <1>4 DEF Becomes, Typed, TasksOK
  <1> QED
    BY <1>3, <1>5

LEMMA Succeeds ==
    ASSUME Typed, NEW t \in Tasks, Succeed(t)
    PROVE \E r : /\ Becomes(t, r) /\ r.pc = "idle"
                 /\ r.op = task[t].op /\ r.cmd = task[t].cmd
  <1> DEFINE r == [task[t] EXCEPT !.pc = "idle", !.done = TRUE]
  <1>1. task[t] \in TaskRecords /\ "idle" \in TaskPCs /\ 0 \in Nat
    BY DEF Typed, TasksOK, TaskPCs
  <1>2. r \in TaskRecords
    BY <1>1, TaskUpdates
  <1>3. r.pc = "idle" /\ r.op = task[t].op /\ r.cmd = task[t].cmd
    BY <1>1 DEF TaskRecords
  <1>4. task' = [task EXCEPT ![t] = r]
    BY DEF Succeed, Typed, TasksOK
  <1> HIDE DEF r
  <1>5. Becomes(t, r)
    BY <1>2, <1>4 DEF Becomes, Typed, TasksOK
  <1> QED
    BY <1>3, <1>5

LEMMA Ends ==
    ASSUME Typed, NEW t \in Tasks, End(t)
    PROVE Becomes(t, NoTask)
  BY FreshTasks DEF End, Becomes, Typed, TasksOK

LEMMA PollsAgain ==
    ASSUME Typed, NEW t \in Tasks, task' = [task EXCEPT ![t].polls = @ + 1]
    PROVE \E r : /\ Becomes(t, r) /\ r.pc = task[t].pc
                 /\ r.op = task[t].op /\ r.cmd = task[t].cmd /\ r.done = task[t].done
  <1> DEFINE r == [task[t] EXCEPT !.polls = task[t].polls + 1]
  <1>1. task[t] \in TaskRecords /\ "idle" \in TaskPCs
    BY DEF Typed, TasksOK, TaskPCs
  <1>2. r \in TaskRecords
    <2>1. task[t].polls + 1 \in Nat
      BY <1>1 DEF TaskRecords
    <2> QED
      BY <1>1, <2>1, TaskUpdates
  <1>3. r.pc = task[t].pc /\ r.op = task[t].op /\ r.cmd = task[t].cmd /\ r.done = task[t].done
    BY <1>1 DEF TaskRecords
  <1>4. task' = [task EXCEPT ![t] = r]
    BY DEF Typed, TasksOK
  <1> HIDE DEF r
  <1>5. Becomes(t, r)
    BY <1>2, <1>4 DEF Becomes, Typed, TasksOK
  <1> QED
    BY <1>3, <1>5

Sent(t, kind) ==
    [kind |-> kind, op |-> IF kind = "manifest" THEN NoOp ELSE task[t].op,
     state |-> "queued", manifest |-> 0, gone |-> {}, left |-> FALSE]

(* The command joins the others, after them, or the POST has failed. *)
LEMMA Sends ==
    ASSUME Typed, NEW t \in Tasks, NEW kind, NEW pc \in TaskPCs, Send(t, kind, pc),
           Sent(t, kind) \in CommandStates
    PROVE \/ End(t) /\ commands' = commands
          \/ /\ CommandsOK' /\ line' = line
             /\ Len(commands') = Len(commands) + 1
             /\ \A i \in 1 .. Len(commands) : commands'[i] = commands[i]
             /\ commands'[Len(commands) + 1] = Sent(t, kind)
             /\ \E r : /\ Becomes(t, r) /\ r.pc = pc
                       /\ r.op = task[t].op /\ r.cmd = Len(commands) + 1 /\ r.done = task[t].done
  <1>1. CASE Len(commands) = MaxCommands
    BY <1>1 DEF Send
  <1>2. CASE Len(commands) # MaxCommands
    <2> DEFINE r == [task[t] EXCEPT !.pc = pc, !.cmd = Len(commands) + 1, !.polls = 0]
    <2>1. /\ task[t] \in TaskRecords /\ commands \in Seq(CommandStates)
          /\ Len(commands) \in Nat /\ Len(commands) + 1 \in Nat /\ Len(commands) + 1 <= MaxCommands
      BY <1>2, Bounds DEF Typed, TasksOK, CommandsOK
    <2>2. r \in TaskRecords
      BY <2>1, TaskUpdates
    <2>3. r.pc = pc /\ r.op = task[t].op /\ r.cmd = Len(commands) + 1 /\ r.done = task[t].done
      BY <2>1 DEF TaskRecords
    <2>4. task' = [task EXCEPT ![t] = r]
      BY <1>2 DEF Send, Typed, TasksOK
    <2>5. commands' = Append(commands, Sent(t, kind)) /\ line' = line
      BY <1>2 DEF Send, Sent
    <2> HIDE DEF r
    <2>6. Becomes(t, r)
      BY <2>2, <2>4 DEF Becomes, Typed, TasksOK
    <2>7. /\ commands' \in Seq(CommandStates) /\ Len(commands') = Len(commands) + 1
          /\ \A i \in 1 .. Len(commands) : commands'[i] = commands[i]
          /\ commands'[Len(commands) + 1] = Sent(t, kind)
      BY <2>1, <2>5
    <2> QED
      BY <2>1, <2>3, <2>5, <2>6, <2>7 DEF CommandsOK
  <1> QED
    BY <1>1, <1>2

-----------------------------------------------------------------------------
(* The steps of a request that holds storage_lock. *)

(* Whoever holds the lock and waits for no command of its own knows that all *)
(* that is queued has been given up.                                         *)
LEMMA OthersAreLeft ==
    ASSUME Flow, NEW t \in Tasks, Holds(t),
           task[t].pc \notin {"building", "acting"} \/ Own(t).state # "queued",
           NEW i \in 1 .. Len(commands), commands[i].state = "queued"
    PROVE commands[i].left
  BY OneHolder DEF Flow, LeftOrOwn, Own

(* A step of the holder that posts nothing. *)
LEMMA HolderMoves ==
    ASSUME Typed, Flow, NEW t \in Tasks, Holds(t), UNCHANGED module, faults' \in 0 .. MaxFaults,
           CommandsOK', SameCommands, NEW r, Becomes(t, r), LineOK', LeftOrOwn', Works(t)',
           r.pc = "post" /\ r.op.kind \in {"format", "eject", "mount"} => Allowed(r.op.kind, usb)
    PROVE Typed' /\ Flow'
  <1>1. Typed'
    BY DEF Typed, ModuleOK, ManifestsOK, module, Becomes
  <1>k. CommandsKept
    BY SameIsKept
  <1>t. task'[t] = r /\ \A u \in Tasks : u # t => task'[u] = task[u]
    BY DEF Becomes, Typed, TasksOK
  <1>2. AllWork'
    BY <1>t, <1>k, OthersWait, Bystander DEF Flow, AllWork
  <1>3. Order'
    BY OrderKept DEF Flow, module
  <1>4. StatusIsFresh'
    <2>1. usb' = usb
      BY DEF module
    <2>2. \A u \in Tasks : \/ task'[u].pc = "post" => task[u].pc = "post" /\ task'[u].op = task[u].op
                           \/ task'[u].op.kind \notin {"format", "eject", "mount"}
                           \/ Allowed(task'[u].op.kind, usb)
      BY <1>t
    <2> QED
      BY <1>1, <1>k, <2>1, <2>2, FreshKept DEF Flow
  <1> QED
    BY <1>1, <1>2, <1>3, <1>4 DEF Flow

LEMMA QuietMove ==
    ASSUME Typed, Flow, NEW t \in Tasks, Holds(t), UNCHANGED <<module, commands, faults>>,
           task[t].pc \notin {"building", "acting"} \/ Own(t).state # "queued",
           NEW r, Becomes(t, r), LineOK', Works(t)',
           r.pc = "post" /\ r.op.kind \in {"format", "eject", "mount"} => Allowed(r.op.kind, usb)
    PROVE Typed' /\ Flow'
  <1>1. SameCommands /\ CommandsOK' /\ faults' \in 0 .. MaxFaults /\ UNCHANGED module
    BY DEF SameCommands, Typed, CommandsOK, ModuleOK
  <1>2. LeftOrOwn'
    BY OthersAreLeft DEF LeftOrOwn
  <1> QED
    BY <1>1, <1>2, HolderMoves

LEMMA QuietEnd ==
    ASSUME Typed, Flow, NEW t \in Tasks, Holds(t), UNCHANGED <<module, commands, faults>>,
           task[t].pc \notin {"building", "acting"} \/ Own(t).state # "queued", End(t)
    PROVE Typed' /\ Flow'
  <1>1. Becomes(t, NoTask) /\ NoTask.pc = "idle" /\ NoTask.cmd = 0 /\ NoTask.done = FALSE
    BY Ends, FreshTasks
  <1>2. LineOK'
    BY <1>1, GivesPlaceUp DEF End, Becomes
  <1>3. Works(t)'
    BY <1>1 DEF Works, Becomes
  <1> QED
    BY <1>1, <1>2, <1>3, QuietMove

LEMMA QuietGoto ==
    ASSUME Typed, Flow, NEW t \in Tasks, Holds(t), UNCHANGED <<module, commands, faults>>,
           task[t].pc \notin {"building", "acting"} \/ Own(t).state # "queued",
           task[t].pc # "idle", NEW pc \in TaskPCs \ {"idle"}, Goto(t, pc),
           task'[t].pc = pc /\ task'[t].op = task[t].op /\ task'[t].cmd = task[t].cmd
             /\ task'[t].done = task[t].done /\ Holds(t)' => Works(t)',
           pc = "post" /\ task[t].op.kind \in {"format", "eject", "mount"} =>
              Allowed(task[t].op.kind, usb)
    PROVE Typed' /\ Flow'
  <1>1. PICK r : /\ Becomes(t, r) /\ r.pc = pc
                 /\ r.op = task[t].op /\ r.cmd = task[t].cmd /\ r.done = task[t].done
    BY GoesTo
  <1>2. line' = line /\ Holds(t)'
    BY DEF Goto, Holds
  <1>3. LineOK'
    BY <1>1, <1>2, KeepsPlace DEF Becomes
  <1>4. Works(t)'
    BY <1>1, <1>2 DEF Becomes
  <1> QED
    BY <1>1, <1>3, <1>4, QuietMove

(* What the holder knows, in the terms of the next state. *)
LEMMA AtWork ==
    ASSUME Typed, Flow, NEW t \in Tasks
    PROVE /\ Works(t) /\ task[t].pc \in TaskPCs
          /\ task[t].pc # "idle" => task[t].op \in Asked /\ ~ task[t].done
  BY DEF Typed, TasksOK, TaskRecords, Flow, AllWork, Works

LEMMA SeesTheSame ==
    ASSUME NEW t \in Tasks, UNCHANGED <<module, commands>>,
           task'[t].op = task[t].op, task'[t].cmd = task[t].cmd
    PROVE /\ Mine(t)' = Mine(t) /\ Own(t)' = Own(t) /\ Carried(t)' = Carried(t)
          /\ Current' = Current /\ NothingQueued' = NothingQueued
  BY DEF module, Mine, Own, Carried, Current, NothingQueued

LEMMA StepStart ==
    ASSUME Typed, Flow, NEW t \in Tasks, Start(t) PROVE Typed' /\ Flow'
  <1> DEFINE pc == CASE task[t].op.kind = "delete" -> "manifest"
                     [] task[t].op.kind = "clip"   -> "post"
                     [] OTHER                      -> "status"
  <1>1. Holds(t) /\ task[t].pc = "line" /\ Goto(t, pc) /\ UNCHANGED <<module, commands, faults>>
    BY DEF Start, At
  <1>2. pc \in TaskPCs \ {"idle"} /\ (pc = "post" => task[t].op.kind = "clip")
        /\ pc \in {"manifest", "post", "status"}
    BY DEF TaskPCs
  <1>3. Works(t) /\ task[t].op \in Asked /\ ~ task[t].done
    BY <1>1, AtWork
  <1> HIDE DEF pc
  <1>4. ASSUME task'[t].pc = pc, task'[t].op = task[t].op, task'[t].cmd = task[t].cmd,
               task'[t].done = task[t].done, Holds(t)'
        PROVE Works(t)'
    BY <1>1, <1>2, <1>3, <1>4 DEF Works, PostKinds
  <1> QED
    BY <1>1, <1>2, <1>4, QuietGoto

LEMMA StepStatus ==
    ASSUME Typed, Flow, NEW t \in Tasks, ListStatus(t) \/ CommandStatus(t) PROVE Typed' /\ Flow'
  <1>1. Holds(t) /\ task[t].pc = "status" /\ UNCHANGED <<module, commands, faults>>
    BY DEF ListStatus, CommandStatus, At
  <1>2. Works(t) /\ task[t].op \in Asked /\ ~ task[t].done
    BY <1>1, AtWork
  <1>3. CASE End(t)
    BY <1>1, <1>3, QuietEnd
  <1>4. CASE task[t].op.kind = "list" /\ Goto(t, "manifest")
    <2>1. ASSUME task'[t].pc = "manifest", task'[t].op = task[t].op, task'[t].cmd = task[t].cmd,
                 task'[t].done = task[t].done, Holds(t)'
          PROVE Works(t)'
      BY <1>1, <1>2, <2>1 DEF Works
    <2> QED
      BY <1>1, <1>4, <2>1, QuietGoto DEF TaskPCs
  <1>5. CASE task[t].op \in Actions /\ Allowed(task[t].op.kind, usb) /\ Goto(t, "post")
    <2>1. task[t].op.kind \in {"eject", "mount", "format"}
      BY <1>2, <1>5, OpKinds
    <2>2. ASSUME task'[t].pc = "post", task'[t].op = task[t].op, task'[t].cmd = task[t].cmd,
                 task'[t].done = task[t].done, Holds(t)'
          PROVE Works(t)'
      BY <1>1, <1>2, <2>1, <2>2 DEF Works, PostKinds
    <2> QED
      BY <1>1, <1>5, <2>2, QuietGoto DEF TaskPCs
  <1> QED
    BY <1>3, <1>4, <1>5 DEF ListStatus, CommandStatus, AnswerList

LEMMA StepMedia ==
    ASSUME Typed, Flow, NEW t \in Tasks, ReadListing(t) \/ VerifyTarget(t) PROVE Typed' /\ Flow'
  <1>1. Holds(t) /\ task[t].pc = "media" /\ UNCHANGED <<module, commands, faults>>
    BY DEF ReadListing, VerifyTarget, At
  <1>2. Works(t) /\ task[t].op \in Asked /\ ~ task[t].done
    BY <1>1, AtWork
  <1>3. CASE End(t)
    BY <1>1, <1>3, QuietEnd
  <1>4. CASE /\ task[t].op.kind = "delete" /\ Goto(t, "post")
             /\ TargetIsCurrent(task[t].op, commands[task[t].cmd].manifest)
    <2>1. NothingQueued /\ task[t].op.manifest = Current
      BY <1>1, <1>2, <1>4 DEF Works, Own, TargetIsCurrent
    <2>2. ASSUME task'[t].pc = "post", task'[t].op = task[t].op, task'[t].cmd = task[t].cmd,
                 task'[t].done = task[t].done, Holds(t)'
          PROVE Works(t)'
      BY <1>1, <1>2, <1>4, <2>1, <2>2, SeesTheSame DEF Works, PostKinds
    <2> QED
      BY <1>1, <1>4, <2>2, QuietGoto DEF TaskPCs
  <1> QED
    BY <1>3, <1>4 DEF ReadListing, VerifyTarget, AnswerList

LEMMA QuietSuccess ==
    ASSUME Typed, Flow, NEW t \in Tasks, Holds(t), UNCHANGED <<module, commands, faults>>,
           task[t].pc # "idle", Carried(t), Own(t).state = "ok", Succeed(t)
    PROVE Typed' /\ Flow'
  <1>1. PICK r : Becomes(t, r) /\ r.pc = "idle" /\ r.op = task[t].op /\ r.cmd = task[t].cmd
    BY Succeeds
  <1>2. LineOK'
    BY <1>1, GivesPlaceUp DEF Succeed, Becomes
  <1>3. Works(t)'
    BY <1>1, SeesTheSame DEF Works, Becomes
  <1> QED
    BY <1>1, <1>2, <1>3, QuietMove

LEMMA StepDownload ==
    ASSUME Typed, Flow, NEW t \in Tasks, Download(t) PROVE Typed' /\ Flow'
  <1>1. Works(t)
    BY AtWork
  <1> QED
    BY <1>1, QuietSuccess DEF Download, At, Works

(* Its own command is still queued: the operation gives up, or polls again. *)
LEMMA StepPollsOut ==
    ASSUME Typed, Flow, NEW t \in Tasks, task[t].pc \in {"building", "acting"}, Holds(t), Mine(t),
           End(t), commands' = [commands EXCEPT ![task[t].cmd].left = TRUE],
           UNCHANGED <<module, faults>>
    PROVE Typed' /\ Flow'
  <1> DEFINE n == task[t].cmd
  <1>1. commands \in Seq(CommandStates) /\ n \in 1 .. Len(commands) /\ commands[n] \in CommandStates
    BY DEF Typed, CommandsOK, Mine
  <1>2. /\ Len(commands') = Len(commands)
        /\ \A i \in 1 .. Len(commands) : i # n => commands'[i] = commands[i]
        /\ commands'[n] = [commands[n] EXCEPT !.left = TRUE]
    <2> DEFINE c == [commands[n] EXCEPT !.left = TRUE]
    <2>1. commands' = [commands EXCEPT ![n] = c]
      OBVIOUS
    <2> HIDE DEF c, n
    <2>2. DOMAIN commands = 1 .. Len(commands)
      BY <1>1
    <2>3. Len(commands') = Len(commands)
      BY <1>1, <2>1
    <2>4. commands'[n] = c /\ \A i \in 1 .. Len(commands) : i # n => commands'[i] = commands[i]
      BY <1>1, <2>1, <2>2
    <2> QED
      BY <2>3, <2>4 DEF c
  <1>3. [commands[n] EXCEPT !.left = TRUE] \in CommandStates
    BY <1>1, CommandUpdates
  <1>4. CommandsOK'
    BY <1>1, <1>2, <1>3 DEF Typed, CommandsOK
  <1>5. /\ commands'[n].kind = commands[n].kind /\ commands'[n].op = commands[n].op
        /\ commands'[n].state = commands[n].state /\ commands'[n].gone = commands[n].gone
        /\ commands'[n].manifest = commands[n].manifest /\ commands'[n].left
    BY <1>1, <1>2 DEF CommandStates
  <1>6. SameCommands
    BY <1>2, <1>5 DEF SameCommands
  <1>7. Becomes(t, NoTask) /\ NoTask.pc = "idle" /\ NoTask.cmd = 0 /\ NoTask.done = FALSE
    BY Ends, FreshTasks
  <1>8. LineOK'
    BY <1>7, GivesPlaceUp DEF End, Becomes
  <1>9. Works(t)'
    BY <1>7 DEF Works, Becomes
  <1>10. LeftOrOwn'
    <2> SUFFICES ASSUME NEW i \in 1 .. Len(commands'), commands'[i].state = "queued"
                 PROVE commands'[i].left
      BY DEF LeftOrOwn
    <2>1. CASE i = n
      BY <1>5, <2>1
    <2>2. CASE i # n
      BY <1>2, <2>2, OneHolder DEF Flow, LeftOrOwn
    <2> QED
      BY <2>1, <2>2
  <1>11. faults' \in 0 .. MaxFaults
    BY DEF Typed, ModuleOK
  <1> QED
    BY <1>4, <1>6, <1>7, <1>8, <1>9, <1>10, <1>11, HolderMoves

LEMMA StepPollsAgain ==
    ASSUME Typed, Flow, NEW t \in Tasks, task[t].pc \in {"building", "acting"}, Holds(t),
           task' = [task EXCEPT ![t].polls = @ + 1],
           UNCHANGED <<module, commands, line, faults>>
    PROVE Typed' /\ Flow'
  <1>1. PICK r : /\ Becomes(t, r) /\ r.pc = task[t].pc
                 /\ r.op = task[t].op /\ r.cmd = task[t].cmd /\ r.done = task[t].done
    BY PollsAgain
  <1>2. LineOK'
    BY <1>1, KeepsPlace DEF Becomes
  <1>3. Works(t)'
    BY <1>1, AtWork, SeesTheSame DEF Works, Becomes, Holds
  <1>4. LeftOrOwn'
    <2> SUFFICES ASSUME NEW i \in 1 .. Len(commands), commands[i].state = "queued",
                        ~ commands[i].left
                 PROVE \E u \in Tasks : /\ Holds(u)' /\ task'[u].pc \in {"building", "acting"}
                                        /\ task'[u].cmd = i
      BY DEF LeftOrOwn
    <2>1. task[t].cmd = i
      BY OneHolder DEF Flow, LeftOrOwn
    <2> QED
      BY <1>1, <2>1 DEF Becomes, Holds
  <1>5. SameCommands /\ CommandsOK' /\ faults' \in 0 .. MaxFaults /\ UNCHANGED module
    BY DEF SameCommands, Typed, CommandsOK, ModuleOK
  <1> QED
    BY <1>1, <1>2, <1>3, <1>4, <1>5, HolderMoves

(* Its own command has ended. *)
LEMMA StepAnswered ==
    ASSUME Typed, Flow, NEW t \in Tasks, task[t].pc \in {"building", "acting"}, Holds(t),
           Own(t).state # "queued", UNCHANGED <<module, commands, faults>>,
           IF ~ Succeeded(Own(t)) THEN End(t)
           ELSE IF task[t].pc = "building" THEN Goto(t, "media")
           ELSE IF task[t].op.kind = "clip" THEN Goto(t, "download")
           ELSE Succeed(t)
    PROVE Typed' /\ Flow'
  <1>1. Works(t) /\ task[t].op \in Asked /\ ~ task[t].done
    BY AtWork
  <1>2. CASE ~ Succeeded(Own(t))
    BY <1>2, QuietEnd
  <1>3. CASE Succeeded(Own(t)) /\ task[t].pc = "building"
    <2>1. Mine(t) /\ Own(t).manifest = Current /\ Current # 0 /\ task[t].cmd = Len(commands)
      BY <1>1, <1>3 DEF Works, Succeeded
    <2>2. NothingQueued
      <3> SUFFICES ASSUME NEW i \in 1 .. Len(commands), commands[i].state = "queued" PROVE FALSE
        BY DEF NothingQueued
      <3>1. Len(commands) \in Nat
        BY DEF Typed, CommandsOK
      <3>2. i = Len(commands) \/ (i < Len(commands) /\ Len(commands) \in 1 .. Len(commands))
        BY <3>1
      <3> QED
        BY <2>1, <3>2 DEF Own, Flow, Order, InOrder
    <2>3. ASSUME task'[t].pc = "media", task'[t].op = task[t].op, task'[t].cmd = task[t].cmd,
                 task'[t].done = task[t].done, Holds(t)'
          PROVE Works(t)'
      BY <1>1, <2>1, <2>2, <2>3, SeesTheSame DEF Works
    <2>4. Goto(t, "media")
      BY <1>3
    <2> QED
      BY <1>3, <2>3, <2>4, QuietGoto DEF TaskPCs
  <1>4. CASE Succeeded(Own(t)) /\ task[t].pc = "acting" /\ task[t].op.kind = "clip"
    <2>1. Carried(t) /\ Own(t).state = "ok"
      BY <1>1, <1>4 DEF Works, Succeeded
    <2>2. ASSUME task'[t].pc = "download", task'[t].op = task[t].op, task'[t].cmd = task[t].cmd,
                 task'[t].done = task[t].done, Holds(t)'
          PROVE Works(t)'
      BY <1>1, <2>1, <2>2, SeesTheSame DEF Works
    <2>3. Goto(t, "download")
      BY <1>4
    <2> QED
      BY <1>4, <2>2, <2>3, QuietGoto DEF TaskPCs
  <1>5. CASE Succeeded(Own(t)) /\ task[t].pc = "acting" /\ task[t].op.kind # "clip"
    <2>1. Carried(t) /\ Own(t).state = "ok"
      BY <1>1, <1>5 DEF Works, Succeeded
    <2>2. Succeed(t)
      BY <1>5
    <2> QED
      BY <1>5, <2>1, <2>2, QuietSuccess
  <1> QED
    BY <1>2, <1>3, <1>4, <1>5

LEMMA StepPoll ==
    ASSUME Typed, Flow, NEW t \in Tasks, Poll(t) PROVE Typed' /\ Flow'
  <1>1. task[t].pc \in {"building", "acting"} /\ Holds(t) /\ UNCHANGED <<module, faults>>
    BY DEF Poll
  <1>2. Mine(t)
    BY <1>1, AtWork DEF Works, Carried
  <1>3. CASE Own(t).state = "queued"
    <2>1. \/ End(t) /\ commands' = [commands EXCEPT ![task[t].cmd].left = TRUE]
          \/ task' = [task EXCEPT ![t].polls = @ + 1] /\ UNCHANGED <<line, commands>>
      BY <1>3 DEF Poll, Own
    <2> QED
      BY <1>1, <1>2, <2>1, StepPollsOut, StepPollsAgain
  <1>4. CASE Own(t).state # "queued"
    BY <1>1, <1>4, StepAnswered DEF Poll, Own
  <1> QED
    BY <1>3, <1>4

(* A command is posted, after the others. *)
LEMMA Posts ==
    ASSUME Typed, Flow, NEW t \in Tasks, Holds(t), UNCHANGED <<module, faults>>,
           NEW kind, NEW pc \in TaskPCs, Send(t, kind, pc), Sent(t, kind) \in CommandStates,
           \/ kind = "manifest" /\ pc = "building" /\ task[t].pc = "manifest"
           \/ kind = task[t].op.kind /\ kind \in PostKinds /\ pc = "acting" /\ task[t].pc = "post"
    PROVE Typed' /\ Flow'
  <1>w. Works(t) /\ task[t].op \in Asked /\ ~ task[t].done
    BY AtWork
  <1>1. CASE End(t) /\ commands' = commands
    BY <1>1, QuietEnd
  <1>2. CASE /\ CommandsOK' /\ line' = line
             /\ Len(commands') = Len(commands) + 1
             /\ \A i \in 1 .. Len(commands) : commands'[i] = commands[i]
             /\ commands'[Len(commands) + 1] = Sent(t, kind)
             /\ \E r : /\ Becomes(t, r) /\ r.pc = pc
                       /\ r.op = task[t].op /\ r.cmd = Len(commands) + 1 /\ r.done = task[t].done
    <2> DEFINE n == Len(commands) + 1
    <2>r. PICK r : /\ Becomes(t, r) /\ r.pc = pc
                   /\ r.op = task[t].op /\ r.cmd = n /\ r.done = task[t].done
      BY <1>2
    <2>n. Len(commands) \in Nat /\ n \in 1 .. Len(commands') /\ Len(commands') = n
      BY <1>2 DEF Typed, CommandsOK
    <2>s. /\ commands'[n].kind = kind /\ commands'[n].state = "queued"
          /\ commands'[n].gone = {} /\ ~ commands'[n].left
          /\ kind # "manifest" => commands'[n].op = task[t].op
      BY <1>2 DEF Sent
    <2>i. \A i \in 1 .. Len(commands') : i = n \/ (i \in 1 .. Len(commands) /\ i < n)
      BY <2>n
    <2>o. \A i \in 1 .. Len(commands) : commands'[i] = commands[i] /\ i \in 1 .. Len(commands') /\ i < n
      BY <1>2, <2>n
    <2>t. task'[t] = r /\ \A u \in Tasks : u # t => task'[u] = task[u]
      BY <2>r DEF Becomes, Typed, TasksOK
    <2> HIDE DEF n
    <2>1. LineOK'
      BY <1>2, <2>r, KeepsPlace DEF Becomes
    <2>2. Typed'
      BY <1>2, <2>r, <2>1 DEF Typed, ModuleOK, ManifestsOK, module, Becomes
    <2>3. CommandsKept
      <3>1. Len(commands') \in Nat /\ Len(commands) <= Len(commands')
        BY <1>2, <2>n
      <3> QED
        BY <2>o, <3>1 DEF CommandsKept
    <2>4. Works(t)'
      <3>1. Mine(t)' /\ Own(t)' = commands'[n] /\ task'[t].cmd = Len(commands')
        BY <2>n, <2>r, <2>t DEF Mine, Own
      <3>2. Holds(t)'
        BY <1>2 DEF Holds
      <3>3. CASE kind = "manifest" /\ pc = "building"
        BY <1>w, <2>r, <2>s, <2>t, <3>1, <3>2, <3>3 DEF Works
      <3>4. CASE kind = task[t].op.kind /\ kind \in PostKinds /\ pc = "acting"
        <4>1. kind # "manifest"
          BY <3>4 DEF PostKinds
        <4>2. Carried(t)'
          BY <2>r, <2>s, <2>t, <3>1, <3>4, <4>1 DEF Carried
        <4> QED
          BY <1>w, <2>r, <2>t, <3>1, <3>2, <3>4, <4>2 DEF Works
      <3> QED
        BY <3>3, <3>4
    <2>5. AllWork'
      BY <2>3, <2>4, <2>t, OthersWait, Bystander DEF Flow, AllWork
    <2>6. CommandsAreAsked'
      BY <2>i, <2>o, <2>s DEF CommandsAreAsked, Flow, Order
    <2>7. InOrder'
      <3> SUFFICES ASSUME NEW i \in 1 .. Len(commands'), NEW j \in 1 .. Len(commands'),
                          i < j, commands'[i].state = "queued"
                   PROVE commands'[j].state = "queued"
        BY DEF InOrder
      <3>1. CASE j = n
        BY <2>s, <3>1
      <3>2. CASE j \in 1 .. Len(commands) /\ j < n
        <4>1. i \in 1 .. Len(commands)
          BY <2>n, <3>2
        <4> QED
          BY <2>o, <3>2, <4>1 DEF Flow, Order, InOrder
      <3> QED
        BY <2>i, <3>1, <3>2
    <2>8. DeletesAreNext'
      <3> SUFFICES ASSUME NEW i \in 1 .. Len(commands'), commands'[i].kind = "delete",
                          commands'[i].state = "queued"
                   PROVE /\ commands'[i].op.manifest = Current
                         /\ \A j \in 1 .. Len(commands') : j < i => commands'[j].state # "queued"
        BY DEF DeletesAreNext, Current, module
      <3>1. CASE i = n
        <4>1. task[t].op.kind = "delete" /\ task[t].pc = "post" /\ commands'[i].op = task[t].op
          BY <2>s, <3>1
        <4>2. NothingQueued /\ task[t].op.manifest = Current
          BY <1>w, <4>1 DEF Works
        <4>3. ASSUME NEW j \in 1 .. Len(commands'), j < i PROVE commands'[j].state # "queued"
          <5>1. j \in 1 .. Len(commands)
            BY <2>i, <2>n, <3>1, <4>3
          <5> QED
            BY <2>o, <4>2, <5>1 DEF NothingQueued
        <4> QED
          BY <4>1, <4>2, <4>3
      <3>2. CASE i \in 1 .. Len(commands) /\ i < n
        <4>1. ASSUME NEW j \in 1 .. Len(commands'), j < i PROVE j \in 1 .. Len(commands)
          BY <2>n, <3>2, <4>1
        <4> QED
          BY <2>o, <3>2, <4>1 DEF Flow, Order, DeletesAreNext
      <3> QED
        BY <2>i, <3>1, <3>2
    <2>9. GoneIsShown'
      BY <2>i, <2>o, <2>s DEF Flow, Order, GoneIsShown, Current, module
    <2>10. LeftOrOwn'
      <3> SUFFICES ASSUME NEW i \in 1 .. Len(commands'), commands'[i].state = "queued"
                   PROVE \/ commands'[i].left
                         \/ \E u \in Tasks : /\ Holds(u)' /\ task'[u].pc \in {"building", "acting"}
                                             /\ task'[u].cmd = i
        BY DEF LeftOrOwn
      <3>1. CASE i = n
        BY <1>2, <2>r, <2>t, <3>1 DEF Holds
      <3>2. CASE i \in 1 .. Len(commands) /\ i < n
        BY <2>o, <3>2, OthersAreLeft
      <3> QED
        BY <2>i, <3>1, <3>2
    <2>11. StatusIsFresh'
      <3>1. usb' = usb
        BY DEF module
      <3>2. \A u \in Tasks : task'[u].pc = "post" => task[u].pc = "post" /\ task'[u].op = task[u].op
        BY <2>r, <2>t
      <3> QED
        BY <2>2, <2>3, <3>1, <3>2, FreshKept DEF Flow
    <2> QED
      BY <2>2, <2>5, <2>6, <2>7, <2>8, <2>9, <2>10, <2>11 DEF Flow, Order
  <1> QED
    BY <1>1, <1>2, Sends

LEMMA StepManifest ==
    ASSUME Typed, Flow, NEW t \in Tasks, RequestManifest(t) PROVE Typed' /\ Flow'
  <1>1. Sent(t, "manifest") \in CommandStates
    BY FreshCommand DEF Sent
  <1> QED
    BY <1>1, Posts DEF RequestManifest, At, TaskPCs

LEMMA StepPost ==
    ASSUME Typed, Flow, NEW t \in Tasks, Post(t) PROVE Typed' /\ Flow'
  <1>1. /\ task[t].pc = "post" /\ Holds(t) /\ Send(t, task[t].op.kind, "acting")
        /\ UNCHANGED <<module, faults>>
    BY DEF Post, At
  <1>2. task[t].op \in Asked /\ task[t].op.kind \in PostKinds
    BY <1>1, AtWork DEF Works
  <1>3. task[t].op \in Targets \cup Actions /\ task[t].op.kind # "manifest"
    BY <1>2, OpKinds DEF PostKinds
  <1>4. Sent(t, task[t].op.kind) \in CommandStates
    BY <1>2, <1>3, FreshCommand DEF Sent, PostKinds
  <1> QED
    BY <1>1, <1>2, <1>4, Posts DEF TaskPCs

-----------------------------------------------------------------------------
(* The steps of a request that does not hold storage_lock: its place in the *)
(* line changes and nothing else.                                           *)
LEMMA WaiterMoves ==
    ASSUME Typed, Flow, NEW t \in Tasks, UNCHANGED <<module, commands>>, faults' \in 0 .. MaxFaults,
           task[t].pc \in {"idle", "line"}, LineOK', NEW r, Becomes(t, r),
           r.pc \in {"idle", "line"}, r.cmd = 0, ~ r.done, r.pc = "line" => r.op \in Asked,
           \A u \in Tasks : task[u].pc \notin {"idle", "line"} /\ Holds(u) => Holds(u)'
    PROVE Typed' /\ Flow'
  <1>1. Typed'
    BY DEF Typed, ModuleOK, ManifestsOK, CommandsOK, module, Becomes
  <1>2. SameCommands
    BY DEF SameCommands
  <1>k. CommandsKept
    BY <1>2, SameIsKept
  <1>t. task'[t] = r /\ \A u \in Tasks : u # t => task'[u] = task[u]
    BY DEF Becomes, Typed, TasksOK
  <1>3. AllWork'
    <2> SUFFICES ASSUME NEW u \in Tasks PROVE Works(u)'
      BY DEF AllWork
    <2>1. CASE u = t
      BY <1>t, <2>1 DEF Works
    <2>2. CASE u # t /\ task[u].pc \in {"idle", "line"}
      BY <1>k, <1>t, <2>2, Bystander DEF Flow, AllWork
    <2>3. CASE u # t /\ task[u].pc \notin {"idle", "line"}
      <3>1. task'[u] = task[u] /\ Works(u) /\ Holds(u) /\ Holds(u)'
        BY <1>t, <2>3, AtWork DEF Works
      <3> QED
        BY <3>1, SeesTheSame DEF Works
    <2> QED
      BY <2>1, <2>2, <2>3
  <1>4. Order'
    BY <1>2, OrderKept DEF Flow, module
  <1>5. LeftOrOwn'
    <2> SUFFICES ASSUME NEW i \in 1 .. Len(commands), commands[i].state = "queued",
                        ~ commands[i].left
                 PROVE \E u \in Tasks : /\ Holds(u)' /\ task'[u].pc \in {"building", "acting"}
                                        /\ task'[u].cmd = i
      BY DEF LeftOrOwn
    <2>1. PICK u \in Tasks : Holds(u) /\ task[u].pc \in {"building", "acting"} /\ task[u].cmd = i
      BY DEF Flow, LeftOrOwn
    <2> QED
      BY <1>t, <2>1
  <1>6. StatusIsFresh'
    <2>1. usb' = usb
      BY DEF module
    <2>2. \A u \in Tasks : task'[u].pc = "post" => task[u].pc = "post" /\ task'[u].op = task[u].op
      BY <1>t
    <2> QED
      BY <1>1, <1>k, <2>1, <2>2, FreshKept DEF Flow
  <1> QED
    BY <1>1, <1>3, <1>4, <1>5, <1>6 DEF Flow

LEMMA StepRequest ==
    ASSUME Typed, Flow, NEW t \in Tasks, NEW op \in Requests, Request(t, op)
    PROVE Typed' /\ Flow'
  <1> DEFINE r == [NoTask EXCEPT !.pc = "line", !.op = op]
  <1>1. /\ task[t].pc = "idle" /\ line' = Append(line, t)
        /\ UNCHANGED <<module, commands, faults>> /\ task' = [task EXCEPT ![t] = r]
    BY DEF Request
  <1>2. op \in Asked
    BY RequestsAssumption DEF Asked
  <1>3. r \in TaskRecords
    BY <1>2, FreshTasks
  <1>4. r.pc = "line" /\ r.op = op /\ r.cmd = 0 /\ ~ r.done
    BY DEF NoTask
  <1> HIDE DEF r
  <1>5. Becomes(t, r)
    BY <1>1, <1>3 DEF Becomes, Typed, TasksOK
  <1>6. LineOK'
    BY <1>1, <1>4, TakesPlace
  <1>7. \A u \in Tasks : Holds(u) => Holds(u)'
    <2>1. line \in Seq(Tasks)
      BY DEF Typed, LineOK
    <2> QED
      BY <1>1, <2>1 DEF Holds
  <1>8. faults' \in 0 .. MaxFaults
    BY <1>1 DEF Typed, ModuleOK
  <1> QED
    BY <1>1, <1>2, <1>4, <1>5, <1>6, <1>7, <1>8, WaiterMoves

LEMMA StepAbandon ==
    ASSUME Typed, Flow, NEW t \in Tasks, Abandon(t) PROVE Typed' /\ Flow'
  <1>1. /\ task[t].pc # "idle" /\ End(t) /\ UNCHANGED module
        /\ commands' = [i \in DOMAIN commands |->
              [commands[i] EXCEPT
                  !.left = commands[i].left \/ (task[t].cmd = i /\ commands[i].state = "queued")]]
    BY DEF Abandon
  <1>2. faults' \in 0 .. MaxFaults
    BY Bounds DEF Abandon, Typed, ModuleOK
  <1>3. Becomes(t, NoTask) /\ NoTask.pc = "idle" /\ NoTask.cmd = 0 /\ ~ NoTask.done
    BY <1>1, Ends, FreshTasks
  <1>4. LineOK'
    BY <1>1, <1>3, GivesPlaceUp DEF End, Becomes
  <1>5. commands \in Seq(CommandStates) /\ DOMAIN commands = 1 .. Len(commands) /\ Len(commands) \in Nat
    BY DEF Typed, CommandsOK
  <1> DEFINE mark(i) == commands[i].left \/ (task[t].cmd = i /\ commands[i].state = "queued")
  <1>6. \A i \in 1 .. Len(commands) : mark(i) \in BOOLEAN
    BY <1>5, CommandUpdates DEF CommandStates
  <1>7. \A i \in 1 .. Len(commands) : commands'[i] = [commands[i] EXCEPT !.left = mark(i)]
    BY <1>1, <1>5
  <1> HIDE DEF mark
  <1>8. \A i \in 1 .. Len(commands) : commands'[i] \in CommandStates
    <2> SUFFICES ASSUME NEW i \in 1 .. Len(commands) PROVE commands'[i] \in CommandStates
      OBVIOUS
    <2>1. commands[i] \in CommandStates /\ mark(i) \in BOOLEAN
      BY <1>5, <1>6
    <2>2. \A b \in BOOLEAN : [commands[i] EXCEPT !.left = b] \in CommandStates
      BY <2>1, CommandUpdates
    <2>3. [commands[i] EXCEPT !.left = mark(i)] \in CommandStates
      BY <2>1, <2>2
    <2> QED
      BY <1>7, <2>3
  <1>9. Len(commands') = Len(commands) /\ commands' = [i \in 1 .. Len(commands) |-> commands'[i]]
    BY <1>1, <1>5
  <1>10. CommandsOK'
    BY <1>5, <1>8, <1>9 DEF Typed, CommandsOK
  <1>11. ASSUME NEW i \in 1 .. Len(commands)
         PROVE /\ commands'[i].kind = commands[i].kind /\ commands'[i].op = commands[i].op
               /\ commands'[i].state = commands[i].state /\ commands'[i].gone = commands[i].gone
               /\ commands'[i].manifest = commands[i].manifest
               /\ commands'[i].left = mark(i)
    <2>1. commands[i] \in CommandStates
      BY <1>5
    <2> QED
      BY <1>7, <2>1 DEF CommandStates
  <1>12. SameCommands
    BY <1>9, <1>11 DEF SameCommands, mark
  <1>13. CASE Holds(t)
    <2>1. LeftOrOwn'
      <3> SUFFICES ASSUME NEW i \in 1 .. Len(commands), commands[i].state = "queued"
                   PROVE commands'[i].left
        BY <1>9, <1>11 DEF LeftOrOwn
      <3>1. commands[i].left \/ task[t].cmd = i
        BY <1>13, OneHolder DEF Flow, LeftOrOwn
      <3> QED
        BY <1>11, <3>1 DEF mark
    <2>2. Works(t)'
      BY <1>3 DEF Works, Becomes
    <2> QED
      BY <1>1, <1>2, <1>3, <1>4, <1>10, <1>12, <1>13, <2>1, <2>2, HolderMoves
  <1>14. CASE ~ Holds(t)
    <2>1. task[t].pc = "line" /\ task[t].cmd = 0
      BY <1>1, <1>14, AtWork DEF Works, TaskPCs
    <2>2. commands' = commands
      <3>1. \A i \in 1 .. Len(commands) : mark(i) = commands[i].left
        <4> SUFFICES ASSUME NEW i \in 1 .. Len(commands) PROVE mark(i) = commands[i].left
          OBVIOUS
        <4>1. commands[i] \in CommandStates /\ task[t].cmd # i
          BY <1>5, <2>1
        <4>2. commands[i].left \in BOOLEAN
          BY <4>1 DEF CommandStates
        <4>3. mark(i) <=> commands[i].left
          BY <4>1 DEF mark
        <4>4. mark(i) \in BOOLEAN
          BY <1>6
        <4> QED
          BY <4>2, <4>3, <4>4
      <3>2. ASSUME NEW i \in 1 .. Len(commands) PROVE commands'[i] = commands[i]
        <4>1. commands[i] \in CommandStates
          BY <1>5
        <4>2. commands'[i] = [commands[i] EXCEPT !.left = commands[i].left]
          BY <1>7, <3>1
        <4> QED
          BY <4>1, <4>2 DEF CommandStates
      <3>3. commands = [i \in 1 .. Len(commands) |-> commands[i]]
        BY <1>5
      <3> QED
        BY <1>9, <3>2, <3>3
    <2>3. \A u \in Tasks : Holds(u) => Holds(u)'
      <3> SUFFICES ASSUME NEW u \in Tasks, Holds(u) PROVE Holds(u)'
        OBVIOUS
      <3>1. line \in Seq(Tasks) /\ Len(line) \in Nat
        BY DEF Typed, LineOK
      <3>2. PICK k \in 1 .. Len(line) : line[k] = t /\ line' = RemoveAt(line, k)
        BY <1>1, <3>1 DEF End, LeaveLine
      <3>3. line[1] = u /\ line[1] # t /\ k # 1
        BY <1>14, <3>1, <3>2 DEF Holds
      <3>4. /\ line' \in Seq(Tasks) /\ Len(line') = Len(line) - 1
            /\ line'[1] = line[1]
        <4>1. 1 \in 1 .. Len(line) - 1 /\ 1 < k
          BY <3>1, <3>2, <3>3
        <4> QED
          BY <3>1, <3>2, <4>1, PlaceLeft
      <3>5. line' # <<>>
        BY <3>1, <3>2, <3>3, <3>4
      <3> QED
        BY <3>3, <3>4, <3>5 DEF Holds
    <2> QED
      BY <1>1, <1>2, <1>3, <1>4, <2>1, <2>2, <2>3, WaiterMoves
  <1> QED
    BY <1>13, <1>14

-----------------------------------------------------------------------------
(* The order of a list.  What is true before the first clip number and stays *)
(* true with the next is true of all: a least counterexample has a           *)
(* predecessor.                                                              *)
Smaller == {p \in Nat \X Nat : p[1] < p[2]}

LEMMA LeastOf ==
    ASSUME NEW S \in SUBSET Nat, S # {}
    PROVE \E x \in S : \A y \in S : x <= y
  <1>1. OpToRel(<, Nat) = Smaller
    BY Zenon DEF OpToRel, Smaller
  <1>2. IsWellFoundedOn(Smaller, Nat)
    BY <1>1, NatLessThanWellFounded, Zenon
  <1>3. PICK x \in S : \A y \in S : ~ (<<y, x>> \in Smaller)
    BY <1>2, WFMin
  <1>4. ASSUME NEW y \in S PROVE x <= y
    <2>1. y < x => <<y, x>> \in Smaller
      BY DEF Smaller
    <2> QED
      BY <1>3, <2>1
  <1> QED
    BY <1>4

LEMMA Induction ==
    ASSUME NEW good, 0 \in good,
           \A n \in 1 .. MaxClips : n - 1 \in good => n \in good
    PROVE  \A n \in 0 .. MaxClips : n \in good
  <1>1. MaxClips \in Nat
    BY Bounds
  <1> DEFINE bad == {n \in 0 .. MaxClips : n \notin good}
  <1>2. CASE bad # {}
    <2>1. bad \in SUBSET Nat
      BY <1>1
    <2>2. PICK x \in bad : \A y \in bad : x <= y
      BY <1>2, <2>1, LeastOf
    <2>3. x \in 1 .. MaxClips /\ x \notin good
      BY <1>1
    <2>4. x - 1 \in 0 .. MaxClips /\ ~ (x <= x - 1)
      BY <1>1, <2>3
    <2>5. x - 1 \in good
      BY <2>2, <2>4
    <2> QED
      BY <2>3, <2>5
  <1> QED
    BY <1>2

(* The loop over the clip numbers, as the function Ascending chooses. *)
WithNext(s, n, S) == IF n \in S THEN Append(s, n) ELSE s
Loops(h, S, n) == h = [m \in 0 .. n |-> IF m = 0 THEN <<>> ELSE WithNext(h[m - 1], m, S)]
Loop(S) == CHOOSE h : Loops(h, S, MaxClips)

LEMMA AscendingIsLoop == ASSUME NEW S PROVE Ascending(S) = Loop(S)[MaxClips]
  BY DEF Ascending, Loop, Loops, WithNext

LEMMA LoopExists == ASSUME NEW S PROVE \E h : Loops(h, S, MaxClips)
  <1> DEFINE good == {n \in 0 .. MaxClips : \E h : Loops(h, S, n)}
  <1>z. MaxClips \in Nat
    BY Bounds
  <1>0. 0 \in good
    <2>1. Loops([m \in 0 .. 0 |-> <<>>], S, 0)
      BY DEF Loops
    <2> QED
      BY <1>z, <2>1
  <1>1. ASSUME NEW n \in 1 .. MaxClips, n - 1 \in good PROVE n \in good
    <2>1. PICK h : Loops(h, S, n - 1)
      BY <1>1
    <2> DEFINE g == [m \in 0 .. n |-> IF m = n THEN WithNext(h[n - 1], n, S) ELSE h[m]]
    <2>2. ASSUME NEW m \in 0 .. n
          PROVE  g[m] = IF m = 0 THEN <<>> ELSE WithNext(g[m - 1], m, S)
      <3>1. CASE m = n
        <4>1. m - 1 \in 0 .. n /\ m - 1 # n /\ m # 0
          BY <1>z, <3>1
        <4> QED
          BY <3>1, <4>1
      <3>2. CASE m # n
        <4>1. m \in 0 .. n - 1 /\ (m # 0 => m - 1 \in 0 .. n /\ m - 1 # n)
          BY <1>z, <3>2
        <4>2. h[m] = IF m = 0 THEN <<>> ELSE WithNext(h[m - 1], m, S)
          BY <2>1, <4>1 DEF Loops
        <4> QED
          BY <3>2, <4>1, <4>2
      <3> QED
        BY <3>1, <3>2
    <2>3. g = [m \in 0 .. n |-> g[m]]
      OBVIOUS
    <2>4. g = [m \in 0 .. n |-> IF m = 0 THEN <<>> ELSE WithNext(g[m - 1], m, S)]
      <3> HIDE DEF g
      <3> QED
        BY <2>2, <2>3
    <2>5. Loops(g, S, n)
      BY <2>4 DEF Loops
    <2> QED
      BY <1>z, <2>5
  <1>2. \A n \in 0 .. MaxClips : n \in good
    <2> HIDE DEF good
    <2> QED
      BY <1>0, <1>1, Induction
  <1> QED
    BY <1>z, <1>2

(* The clips up to n, in ascending order. *)
Shows(s, T) == T = {s[i] : i \in 1 .. Len(s)}
Rises(s) == \A i, j \in 1 .. Len(s) : i < j => s[i] < s[j]
UpTo(s, n, S) == s \in Seq(Nat) /\ Rises(s) /\ Shows(s, {c \in S : c <= n})

LEMMA NextIsUpTo ==
    ASSUME NEW S \in SUBSET Positions, NEW n \in 1 .. MaxClips, NEW s, UpTo(s, n - 1, S)
    PROVE  UpTo(WithNext(s, n, S), n, S)
  <1>z. MaxClips \in Nat /\ n \in Nat /\ \A c \in S : c \in Nat
    BY Bounds DEF Positions
  <1>s. /\ s \in Seq(Nat) /\ Len(s) \in Nat
        /\ \A i, j \in 1 .. Len(s) : i < j => s[i] < s[j]
        /\ {c \in S : c <= n - 1} = {s[i] : i \in 1 .. Len(s)}
        /\ \A i \in 1 .. Len(s) : s[i] \in Nat
    BY DEF UpTo, Rises, Shows
  <1>1. CASE n \notin S
    <2>1. {c \in S : c <= n} = {c \in S : c <= n - 1}
      BY <1>1, <1>z
    <2> QED
      BY <1>1, <1>s, <2>1 DEF WithNext, UpTo, Rises, Shows
  <1>2. CASE n \in S
    <2> DEFINE u == Append(s, n)
    <2>1. /\ u \in Seq(Nat) /\ Len(u) = Len(s) + 1 /\ u[Len(u)] = n
          /\ \A i \in 1 .. Len(s) : u[i] = s[i]
      BY <1>s, <1>z
    <2>2. \A i \in 1 .. Len(s) : s[i] < n
      <3>1. \A i \in 1 .. Len(s) : s[i] \in {c \in S : c <= n - 1}
        BY <1>s
      <3> QED
        BY <3>1, <1>z
    <2> HIDE DEF u
    <2>l. Len(s) \in Nat /\ Len(u) = Len(s) + 1
      BY <1>s, <2>1
    <2>3. Rises(u)
      <3> SUFFICES ASSUME NEW i \in 1 .. Len(u), NEW j \in 1 .. Len(u), i < j
                   PROVE  u[i] < u[j]
        BY DEF Rises
      <3>1. i \in 1 .. Len(s)
        BY <2>1, <1>s
      <3>2. CASE j = Len(u)
        BY <3>1, <3>2, <2>1, <2>2
      <3>3. CASE j # Len(u)
        <4>1. j \in 1 .. Len(s)
          BY <3>3, <2>l
        <4> QED
          BY <3>1, <4>1, <2>1, <1>s
      <3> QED
        BY <3>2, <3>3
    <2>4. {c \in S : c <= n} = {c \in S : c <= n - 1} \cup {n}
      <3>1. \A c \in S : c <= n <=> c <= n - 1 \/ c = n
        BY <1>z
      <3> QED
        BY <1>2, <3>1
    <2>5. {u[i] : i \in 1 .. Len(u)} = {s[i] : i \in 1 .. Len(s)} \cup {n}
      <3>1. 1 .. Len(u) = (1 .. Len(s)) \cup {Len(u)}
        BY <2>1, <1>s
      <3> QED
        BY <3>1, <2>1
    <2> QED
      BY <1>2, <1>s, <2>1, <2>3, <2>4, <2>5 DEF WithNext, UpTo, Shows, u
  <1> QED
    BY <1>1, <1>2

LEMMA AscendingShows ==
    ASSUME NEW S \in SUBSET Positions
    PROVE  Ascending(S) \in Seq(Nat) /\ Rises(Ascending(S)) /\ Shows(Ascending(S), S)
  <1>z. MaxClips \in Nat
    BY Bounds
  <1> DEFINE h == Loop(S)
             good == {n \in 0 .. MaxClips : UpTo(h[n], n, S)}
  <1>1. Loops(h, S, MaxClips)
    BY LoopExists DEF Loop
  <1> HIDE DEF h
  <1>2. \A n \in 0 .. MaxClips : h[n] = IF n = 0 THEN <<>> ELSE WithNext(h[n - 1], n, S)
    BY <1>1 DEF Loops
  <1>3. 0 \in good
    <2>1. \A c \in S : ~ (c <= 0)
      BY <1>z DEF Positions
    <2>2. UpTo(<<>>, 0, S)
      BY <2>1 DEF UpTo, Rises, Shows
    <2> QED
      BY <1>2, <1>z, <2>2
  <1>4. ASSUME NEW n \in 1 .. MaxClips, n - 1 \in good PROVE n \in good
    <2>1. n \in 0 .. MaxClips /\ n # 0 /\ UpTo(h[n - 1], n - 1, S)
      BY <1>4, <1>z
    <2>2. UpTo(WithNext(h[n - 1], n, S), n, S)
      BY <2>1, NextIsUpTo
    <2> QED
      BY <1>2, <2>1, <2>2
  <1>5. \A n \in 0 .. MaxClips : n \in good
    <2> HIDE DEF good
    <2> QED
      BY <1>3, <1>4, Induction
  <1>6. UpTo(h[MaxClips], MaxClips, S)
    BY <1>5, <1>z
  <1>7. {c \in S : c <= MaxClips} = S
    <2>1. \A c \in S : c <= MaxClips
      BY <1>z DEF Positions
    <2> QED
      BY <2>1
  <1> QED
    BY <1>6, <1>7, AscendingIsLoop DEF UpTo, h

LEMMA AscendingIsTyped ==
    ASSUME NEW S \in SUBSET Positions PROVE Ascending(S) \in Seq(Positions)
  <1> DEFINE s == Ascending(S)
  <1>1. s \in Seq(Nat) /\ Shows(s, S)
    BY AscendingShows
  <1> HIDE DEF s
  <1>2. \A i \in 1 .. Len(s) : s[i] \in Positions
    BY <1>1 DEF Shows
  <1>3. s = [i \in 1 .. Len(s) |-> s[i]] /\ Len(s) \in Nat
    BY <1>1
  <1> QED
    BY <1>2, <1>3 DEF s

-----------------------------------------------------------------------------
(* The steps of the module. *)

LEMMA StepClips ==
    ASSUME Typed, Flow, RecordClip \/ ClipGoes PROVE Typed' /\ Flow'
  <1>1. UNCHANGED <<usb, manifests, commands, task, line, faults>>
    BY DEF RecordClip, ClipGoes
  <1>2. recorded' \in 0 .. MaxClips /\ clips' \subseteq 1 .. recorded'
    <2>1. recorded \in Nat /\ MaxClips \in Nat /\ recorded <= MaxClips /\ clips \subseteq 1 .. recorded
      BY Bounds DEF Typed, ModuleOK
    <2>2. CASE RecordClip
      <3>1. recorded' = recorded + 1 /\ clips' = clips \cup {recorded + 1} /\ recorded < MaxClips
        BY <2>2 DEF RecordClip
      <3>2. recorded' \in 0 .. MaxClips
        BY <2>1, <3>1
      <3>3. ASSUME NEW c \in clips' PROVE c \in 1 .. recorded + 1
        BY <2>1, <3>1
      <3> QED
        BY <3>1, <3>2, <3>3
    <2>3. CASE ClipGoes
      <3>1. recorded' = recorded /\ clips' \subseteq clips
        BY <2>3 DEF ClipGoes
      <3> QED
        BY <2>1, <3>1
    <2> QED
      BY <2>2, <2>3
  <1>3. Typed'
    BY <1>1, <1>2 DEF Typed, ModuleOK, ManifestsOK, CommandsOK, TasksOK, LineOK, Busy
  <1>4. UNCHANGED <<AllWork, Order, LeftOrOwn, StatusIsFresh>>
    <2>1. UNCHANGED AllWork
      BY <1>1 DEF AllWork, Works, Holds, Mine, Own, Carried, NothingQueued, Current
    <2>2. UNCHANGED Order
      BY <1>1 DEF Order, CommandsAreAsked, InOrder, DeletesAreNext, GoneIsShown, Current
    <2>3. UNCHANGED LeftOrOwn
      BY <1>1 DEF LeftOrOwn, Holds
    <2>4. UNCHANGED StatusIsFresh
      BY <1>1 DEF StatusIsFresh
    <2> QED
      BY <2>1, <2>2, <2>3, <2>4
  <1> QED
    BY <1>3, <1>4 DEF Flow

(* How the module ends a command: what it says of it, and what becomes of   *)
(* the module.                                                              *)
LEMMA Finishes ==
    ASSUME Typed, NEW i \in 1 .. Len(commands), NEW state \in {"ok", "failed"},
           NEW manifest \in 0 .. MaxManifests, NEW gone \in SUBSET Positions,
           Finish(i, state, manifest, gone)
    PROVE /\ CommandsOK' /\ Len(commands') = Len(commands)
          /\ \A j \in 1 .. Len(commands) : j # i => commands'[j] = commands[j]
          /\ commands'[i].kind = commands[i].kind /\ commands'[i].op = commands[i].op
          /\ commands'[i].left = commands[i].left
          /\ commands'[i].state = state /\ commands'[i].manifest = manifest
          /\ commands'[i].gone = gone
  <1> DEFINE c == [commands[i] EXCEPT !.state = state, !.manifest = manifest, !.gone = gone]
  <1>1. commands \in Seq(CommandStates) /\ DOMAIN commands = 1 .. Len(commands)
        /\ commands[i] \in CommandStates
    BY DEF Typed, CommandsOK
  <1>2. c \in CommandStates
    BY <1>1, CommandUpdates
  <1>3. /\ c.kind = commands[i].kind /\ c.op = commands[i].op /\ c.left = commands[i].left
        /\ c.state = state /\ c.manifest = manifest /\ c.gone = gone
    BY <1>1 DEF CommandStates
  <1>4. commands' = [commands EXCEPT ![i] = c]
    BY <1>1 DEF Finish
  <1> HIDE DEF c
  <1>5. Len(commands') = Len(commands) /\ commands' \in Seq(CommandStates)
    BY <1>1, <1>2, <1>4
  <1>6. commands'[i] = c /\ \A j \in 1 .. Len(commands) : j # i => commands'[j] = commands[j]
    BY <1>1, <1>4
  <1> QED
    BY <1>3, <1>5, <1>6 DEF Typed, CommandsOK

(* What the module may do with one command. *)
Outcome(i, state, manifest, gone) ==
    /\ state \in {"ok", "failed"} /\ manifest \in 0 .. MaxManifests /\ gone \in SUBSET Positions
    /\ Finish(i, state, manifest, gone)
    /\ ModuleOK' /\ ManifestsOK'
    /\ Current <= Current' /\ \A n \in 1 .. Current : manifests'[n] = manifests[n]
    /\ commands[i].kind = "manifest" /\ state = "ok" => manifest = Current' /\ Current' # 0
    /\ \A clip \in gone : /\ commands[i].kind = "delete"
                          /\ Current' = Current
                          /\ clip = manifests[Current][commands[i].op.clip]

LEMMA Builds ==
    ASSUME Typed, NEW i \in 1 .. Len(commands), BuildManifest(i),
           recorded' = recorded, faults' = faults
    PROVE Outcome(i, "ok", Len(manifests'), {})
  <1>1. /\ UNCHANGED <<usb, clips>> /\ Len(manifests') <= MaxManifests
        /\ Finish(i, "ok", Len(manifests'), {})
    BY DEF BuildManifest
  <1>2. ModuleOK'
    BY <1>1 DEF Typed, ModuleOK
  <1>3. \/ manifests' = manifests /\ Current > 0
        \/ manifests' = Append(manifests, Listed)
    BY DEF BuildManifest
  <1> DEFINE new == Listed
  <1>4. Len(manifests) \in Nat /\ manifests \in Seq(Seq(Positions)) /\ new \in Seq(Positions)
    <2>1. clips \in SUBSET Positions
      BY Bounds DEF Typed, ModuleOK, Positions
    <2> QED
      BY <2>1, AscendingIsTyped DEF Listed, Typed, ManifestsOK
  <1> HIDE DEF new
  <1>5. /\ manifests' \in Seq(Seq(Positions)) /\ Len(manifests') \in Nat
        /\ Len(manifests) <= Len(manifests') /\ Len(manifests') # 0
        /\ \A n \in 1 .. Len(manifests) : manifests'[n] = manifests[n]
    <2>1. CASE manifests' = manifests /\ Current > 0
      BY <1>4, <2>1 DEF Current
    <2>2. CASE manifests' = Append(manifests, new)
      BY <1>4, <2>2
    <2> QED
      BY <1>3, <2>1, <2>2 DEF new
  <1>6. ManifestsOK'
    BY <1>1, <1>5, Bounds DEF ManifestsOK
  <1>7. Len(manifests') \in 0 .. MaxManifests
    BY <1>6 DEF ManifestsOK
  <1> QED
    BY <1>1, <1>2, <1>5, <1>6, <1>7 DEF Outcome, Current

LEMMA Deletes ==
    ASSUME Typed, NEW i \in 1 .. Len(commands), DeleteClip(i),
           recorded' = recorded, faults' = faults
    PROVE \E gone : Outcome(i, "ok", Current, gone)
  <1> DEFINE clip == manifests[Current][commands[i].op.clip]
  <1>1. /\ UNCHANGED <<usb, manifests>> /\ clip \in clips /\ clips' = clips \ {clip}
        /\ commands[i].kind = "delete" /\ Finish(i, "ok", Current, {clip})
    BY DEF DeleteClip
  <1> HIDE DEF clip
  <1>2. ModuleOK'
    BY <1>1 DEF Typed, ModuleOK
  <1>3. ManifestsOK' /\ Current \in 0 .. MaxManifests /\ Current' = Current /\ Current <= Current'
    BY <1>1, Bounds DEF Typed, ManifestsOK, Current
  <1>4. clip \in Positions
    BY <1>1, Bounds DEF Typed, ModuleOK, Positions
  <1>5. Outcome(i, "ok", Current, {clip})
    BY <1>1, <1>2, <1>3, <1>4 DEF Outcome, clip
  <1> QED
    BY <1>5

LEMMA Otherwise ==
    ASSUME Typed, NEW i \in 1 .. Len(commands),
           ChangeMedium(i) \/ UploadClip(i) \/ Reject(i),
           recorded' = recorded, faults' = faults
    PROVE \E state : Outcome(i, state, 0, {})
  <1>1. manifests' = manifests
    BY DEF ChangeMedium, UploadClip, Reject
  <1>2. PICK state \in {"ok", "failed"} :
          Finish(i, state, 0, {}) /\ (state = "ok" => commands[i].kind # "manifest")
    BY DEF ChangeMedium, UploadClip, Reject
  <1>3. usb' \in {"active", "unmounted", "format_required"} /\ clips' \subseteq clips
    <2>1. CASE ChangeMedium(i)
      BY <2>1 DEF ChangeMedium
    <2>2. CASE UploadClip(i) \/ Reject(i)
      BY <2>2 DEF UploadClip, Reject, Typed, ModuleOK
    <2> QED
      BY <2>1, <2>2
  <1>4. ModuleOK'
    BY <1>3 DEF Typed, ModuleOK
  <1>5. ManifestsOK' /\ 0 \in 0 .. MaxManifests /\ Current' = Current /\ Current <= Current'
    BY <1>1, Bounds DEF Typed, ManifestsOK, Current
  <1>6. Outcome(i, state, 0, {})
    BY <1>1, <1>2, <1>4, <1>5 DEF Outcome
  <1> QED
    BY <1>6

LEMMA StepExecute ==
    ASSUME Typed, Flow, Execute PROVE Typed' /\ Flow'
  <1>u. UNCHANGED <<recorded, task, line, faults>>
    BY DEF Execute
  <1>l. Len(commands) \in Nat /\ DOMAIN commands = 1 .. Len(commands)
    BY DEF Typed, CommandsOK
  <1>i. PICK i \in 1 .. Len(commands) :
          /\ commands[i].state = "queued"
          /\ \A j \in 1 .. Len(commands) : commands[j].state = "queued" => i <= j
          /\ CarryOut(i) \/ Reject(i)
    BY <1>l DEF Execute, Queued
  <1>o. \E state, manifest, gone : Outcome(i, state, manifest, gone)
    BY <1>i, <1>u, Builds, Deletes, Otherwise DEF CarryOut
  <1>p. PICK state, manifest, gone : Outcome(i, state, manifest, gone)
    BY <1>o
  <1>f. /\ CommandsOK' /\ Len(commands') = Len(commands)
        /\ \A j \in 1 .. Len(commands) : j # i => commands'[j] = commands[j]
        /\ commands'[i].kind = commands[i].kind /\ commands'[i].op = commands[i].op
        /\ commands'[i].left = commands[i].left
        /\ commands'[i].state = state /\ commands'[i].manifest = manifest
        /\ commands'[i].gone = gone
    BY <1>p, Finishes DEF Outcome
  <1>e. state # "queued"
    BY <1>p DEF Outcome
  <1>1. Typed'
    BY <1>u, <1>f, <1>p DEF Typed, TasksOK, LineOK, Busy, Outcome
  <1>k. CommandsKept
    BY <1>i, <1>l, <1>f DEF CommandsKept
  (* Nothing that was waiting before it is left, and what waits still did. *)
  <1>q. \A j \in 1 .. Len(commands) :
           commands'[j].state = "queued" => j # i /\ commands[j].state = "queued" /\ i < j
    <2> SUFFICES ASSUME NEW j \in 1 .. Len(commands), commands'[j].state = "queued"
                 PROVE j # i /\ commands[j].state = "queued" /\ i < j
      OBVIOUS
    <2>1. j # i
      BY <1>e, <1>f
    <2>2. commands[j].state = "queued"
      BY <1>f, <2>1
    <2>3. i <= j
      BY <1>i, <2>2
    <2> QED
      BY <1>l, <2>1, <2>2, <2>3
  <1>n. ~ NothingQueued
    BY <1>i DEF NothingQueued
  <1>2. AllWork'
    <2> SUFFICES ASSUME NEW t \in Tasks PROVE Works(t)'
      BY DEF AllWork
    <2>1. Works(t) /\ task'[t] = task[t] /\ Holds(t)' = Holds(t)
      BY <1>u DEF Flow, AllWork, Holds
    <2>2. Mine(t) => /\ Mine(t)'
                     /\ Own(t)'.kind = Own(t).kind /\ Own(t)'.op = Own(t).op
                     /\ Own(t).state = "ok" => Own(t)'.state = "ok"
      <3> SUFFICES ASSUME Mine(t)
                   PROVE /\ Mine(t)'
                         /\ Own(t)'.kind = Own(t).kind /\ Own(t)'.op = Own(t).op
                         /\ Own(t).state = "ok" => Own(t)'.state = "ok"
        OBVIOUS
      <3>1. task[t].cmd \in 1 .. Len(commands) /\ task'[t].cmd = task[t].cmd
        BY <2>1 DEF Mine
      <3>2. Mine(t)'
        BY <1>f, <3>1 DEF Mine
      <3> QED
        BY <1>k, <3>1, <3>2 DEF Own, CommandsKept
    <2>3. Carried(t) => Carried(t)'
      BY <2>1, <2>2 DEF Carried
    <2>4. CASE task[t].pc = "building"
      <3>1. Mine(t) /\ task[t].cmd = Len(commands) /\ Own(t).kind = "manifest"
        BY <2>1, <2>4 DEF Works
      <3>2. ASSUME Own(t)'.state = "ok" PROVE Own(t)'.manifest = Current' /\ Current' # 0
        <4>1. CASE task[t].cmd = i
          BY <1>f, <1>p, <2>1, <3>1, <3>2, <4>1 DEF Own, Outcome
        <4>2. CASE task[t].cmd # i
          <5>1. i < Len(commands) /\ Len(commands) \in 1 .. Len(commands)
            BY <1>l, <3>1, <4>2
          <5>2. commands[Len(commands)].state = "queued"
            BY <1>i, <5>1 DEF Flow, Order, InOrder
          <5>3. Own(t)' = commands[Len(commands)]
            BY <1>f, <2>1, <3>1, <4>2, <5>1 DEF Own
          <5> QED
            BY <3>2, <5>2, <5>3
        <4> QED
          BY <4>1, <4>2
      <3> QED
        BY <1>f, <2>1, <2>2, <2>4, <3>1, <3>2 DEF Works
    <2>5. CASE task[t].pc = "media"
      BY <1>n, <2>1, <2>5 DEF Works
    <2>6. CASE task[t].pc \notin {"building", "media"}
      BY <1>f, <1>n, <2>1, <2>2, <2>3, <2>6 DEF Works, Carried
    <2> QED
      BY <2>4, <2>5, <2>6
  <1>3. CommandsAreAsked'
    BY <1>f DEF CommandsAreAsked, Flow, Order
  <1>4. InOrder'
    <2> SUFFICES ASSUME NEW j \in 1 .. Len(commands), NEW m \in 1 .. Len(commands),
                        j < m, commands'[j].state = "queued"
                 PROVE commands'[m].state = "queued"
      BY <1>f DEF InOrder
    <2>1. commands[j].state = "queued" /\ i < j /\ m # i
      BY <1>q
    <2> QED
      BY <1>f, <2>1 DEF Flow, Order, InOrder
  <1>5. DeletesAreNext'
    <2> SUFFICES ASSUME NEW j \in 1 .. Len(commands), commands'[j].kind = "delete",
                        commands'[j].state = "queued"
                 PROVE FALSE
      BY <1>f DEF DeletesAreNext
    <2>1. commands[j].kind = "delete" /\ commands[j].state = "queued" /\ i < j
      BY <1>q, <1>f
    <2> QED
      BY <1>i, <2>1 DEF Flow, Order, DeletesAreNext
  <1>6. GoneIsShown'
    <2>0. /\ Current \in Nat /\ Current' \in Nat /\ Current <= Current'
          /\ \A n \in 1 .. Current : manifests'[n] = manifests[n] /\ n \in 1 .. Current'
      <3>1. Current \in Nat /\ Current' \in Nat
        BY <1>1, Bounds DEF Typed, ManifestsOK, Current
      <3>2. Current <= Current' /\ \A n \in 1 .. Current : manifests'[n] = manifests[n]
        BY <1>p DEF Outcome
      <3> HIDE DEF Current
      <3> QED
        BY <3>1, <3>2
    <2> SUFFICES ASSUME NEW j \in 1 .. Len(commands), NEW clip \in commands'[j].gone
                 PROVE /\ commands'[j].op.manifest \in 1 .. Current'
                       /\ clip = manifests'[commands'[j].op.manifest][commands'[j].op.clip]
      BY <1>f DEF GoneIsShown
    <2>1. CASE j = i
      <3>1. /\ commands[i].kind = "delete" /\ Current' = Current
            /\ clip = manifests[Current][commands[i].op.clip] /\ commands'[j].op = commands[i].op
        BY <1>f, <1>p, <2>1 DEF Outcome
      <3>2. commands[i].op.manifest = Current /\ commands[i].op.kind = "delete"
        BY <1>i, <3>1 DEF Flow, Order, DeletesAreNext, CommandsAreAsked
      <3>3. commands[i].op \in Targets
        <4>1. commands[i] \in CommandStates
          BY DEF Typed, CommandsOK
        <4>2. commands[i].op \in Targets \cup Actions \cup {NoOp}
          BY <4>1 DEF CommandStates
        <4> QED
          BY <3>2, <4>2, OpKinds DEF Asked
      <3>4. Current \in 1 .. Current'
        BY <2>0, <3>1, <3>2, <3>3, Bounds DEF Targets
      <3> QED
        BY <2>0, <3>1, <3>2, <3>4
    <2>2. CASE j # i
      <3>1. commands'[j] = commands[j]
        BY <1>f, <2>2
      <3> QED
        BY <2>0, <3>1 DEF Flow, Order, GoneIsShown
    <2> QED
      BY <2>1, <2>2
  <1>7. LeftOrOwn'
    <2> SUFFICES ASSUME NEW j \in 1 .. Len(commands), commands'[j].state = "queued",
                        ~ commands'[j].left
                 PROVE \E t \in Tasks : /\ Holds(t)' /\ task'[t].pc \in {"building", "acting"}
                                        /\ task'[t].cmd = j
      BY <1>f DEF LeftOrOwn
    <2>1. commands[j].state = "queued" /\ ~ commands[j].left
      BY <1>f, <1>q
    <2>2. PICK t \in Tasks : Holds(t) /\ task[t].pc \in {"building", "acting"} /\ task[t].cmd = j
      BY <2>1 DEF Flow, LeftOrOwn
    <2> QED
      BY <1>u, <2>2 DEF Holds
  <1>8. StatusIsFresh'
    <2> SUFFICES ASSUME NEW t \in Tasks, task[t].pc = "post" PROVE \E j \in DOMAIN commands' : commands'[j].left
      BY <1>u DEF StatusIsFresh
    <2>1. Holds(t)
      BY AtWork DEF Works
    <2>2. commands[i].left
      BY <1>i, <2>1, OthersAreLeft
    <2>3. i \in DOMAIN commands' /\ commands'[i].left
      BY <1>f, <2>2 DEF CommandsOK
    <2> QED
      BY <2>3
  <1> QED
    BY <1>1, <1>2, <1>3, <1>4, <1>5, <1>6, <1>7, <1>8 DEF Flow, Order

-----------------------------------------------------------------------------
(* The newest first: so many are newer as stand before. *)
Falls(s) == \A i, j \in 1 .. Len(s) : i < j => s[i] > s[j]

LEMMA NewestShows ==
    ASSUME NEW S \in SUBSET Positions
    PROVE  /\ Newest(S) \in Seq(S) /\ Falls(Newest(S)) /\ Shows(Newest(S), S)
           /\ \A k \in 1 .. Len(Newest(S)) :
                 Cardinality({d \in S : d > Newest(S)[k]}) = k - 1
  <1> DEFINE s == Ascending(S)
             r == Newest(S)
  <1>s. s \in Seq(Nat) /\ Rises(s) /\ Shows(s, S)
    BY AscendingShows
  <1>r. r = [i \in 1 .. Len(s) |-> s[Len(s) - i + 1]]
    BY DEF Newest, Reverse
  <1> HIDE DEF s, r
  <1>n. Len(s) \in Nat /\ \A i \in 1 .. Len(s) : s[i] \in Nat /\ s[i] \in S
    BY <1>s DEF Shows
  <1>1. \A i \in 1 .. Len(s) : Len(s) - i + 1 \in 1 .. Len(s)
    BY <1>n
  <1>2. r \in Seq(S) /\ Len(r) = Len(s)
    BY <1>r, <1>n, <1>1
  <1>3. \A i \in 1 .. Len(s) : r[i] = s[Len(s) - i + 1] /\ r[i] \in Nat
    BY <1>r, <1>n, <1>1
  <1>4. Falls(r)
    <2> SUFFICES ASSUME NEW i \in 1 .. Len(r), NEW j \in 1 .. Len(r), i < j PROVE r[i] > r[j]
      BY DEF Falls
    <2>1. Len(s) - j + 1 < Len(s) - i + 1
      BY <1>n, <1>2
    <2>2. s[Len(s) - j + 1] < s[Len(s) - i + 1]
      BY <1>1, <1>2, <1>s, <2>1 DEF Rises
    <2>3. r[i] \in Nat /\ r[j] \in Nat /\ r[j] < r[i]
      BY <1>2, <1>3, <2>2
    <2> QED
      BY <2>3
  <1>5. Shows(r, S)
    <2>1. ASSUME NEW c \in S PROVE \E i \in 1 .. Len(r) : c = r[i]
      <3>1. PICK k \in 1 .. Len(s) : c = s[k]
        BY <1>s DEF Shows
      <3>2. Len(s) - k + 1 \in 1 .. Len(s) /\ Len(s) - (Len(s) - k + 1) + 1 = k
        BY <1>n
      <3> QED
        BY <3>1, <3>2, <1>2, <1>3
    <2>2. \A i \in 1 .. Len(r) : r[i] \in S
      BY <1>2
    <2> QED
      BY <2>1, <2>2 DEF Shows
  <1>6. ASSUME NEW k \in 1 .. Len(r) PROVE Cardinality({d \in S : d > r[k]}) = k - 1
    <2> DEFINE T == {d \in S : d > r[k]}
               f == [j \in 1 .. k - 1 |-> r[j]]
    <2>0. k \in Nat /\ Len(r) \in Nat /\ \A i \in 1 .. Len(r) : r[i] \in Nat
      BY <1>2, <1>3, <1>n
    <2>1. \A j \in 1 .. k - 1 : j \in 1 .. Len(r) /\ r[j] \in T
      BY <1>4, <1>2, <2>0 DEF Falls
    <2>2. ASSUME NEW d \in T PROVE \E j \in 1 .. k - 1 : d = f[j]
      <3>1. PICK j \in 1 .. Len(r) : d = r[j]
        BY <1>5 DEF Shows
      <3>2. ~ (j >= k)
        <4>1. r[j] > r[k]
          BY <3>1
        <4>2. j # k /\ ~ (k < j)
          BY <1>4, <4>1, <2>0 DEF Falls
        <4> QED
          BY <4>2, <2>0
      <3> QED
        BY <3>1, <3>2, <2>0
    <2>3. \A i, j \in 1 .. k - 1 : f[i] = f[j] => i = j
      <3> SUFFICES ASSUME NEW i \in 1 .. k - 1, NEW j \in 1 .. k - 1, r[i] = r[j] PROVE i = j
        OBVIOUS
      <3>1. ~ (i < j) /\ ~ (j < i)
        BY <1>4, <2>0, <2>1 DEF Falls
      <3> QED
        BY <3>1, <2>0
    <2>4. f \in Bijection(1 .. k - 1, T)
      <3>1. f \in [1 .. k - 1 -> T]
        BY <2>1
      <3>2. IsInjective(f)
        BY <2>3 DEF IsInjective
      <3>3. f \in Injection(1 .. k - 1, T)
        BY <3>1, <3>2 DEF Injection, IsInjective
      <3>4. f \in Surjection(1 .. k - 1, T)
        BY <3>1, <2>2 DEF Surjection
      <3> QED
        BY <3>3, <3>4 DEF Bijection
    <2>5. IsFiniteSet(1 .. k - 1) /\ Cardinality(1 .. k - 1) = k - 1
      <3>1. k >= 1 /\ k - 1 \in Int /\ 1 \in Int
        BY <2>0
      <3> QED
        BY <3>1, FS_Interval
    <2> HIDE DEF f, T
    <2>6. Cardinality(T) = Cardinality(1 .. k - 1)
      BY <2>4, <2>5, FS_Bijection DEF ExistsBijection
    <2> QED
      BY <2>5, <2>6 DEF T
  <1> QED
    BY <1>2, <1>4, <1>5, <1>6 DEF r

-----------------------------------------------------------------------------
(* The arithmetic of pages. *)

LEMMA Division ==
    ASSUME NEW m \in Nat \ {0}, NEW x \in Nat
    PROVE x \div m \in Nat /\ x % m \in 0 .. m - 1 /\ x = (x \div m) * m + (x % m)
  <1>1. x % m \in 0 .. m - 1
    OBVIOUS
  <1>2. x = (x \div m) * m + (x % m)
    OBVIOUS
  <1>3. x \div m \in Nat
    OBVIOUS
  <1> QED
    BY <1>1, <1>2, <1>3

LEMMA Multiples ==
    ASSUME NEW m \in Nat \ {0}, NEW a \in Nat, NEW b \in Nat, a < b
    PROVE a * m + m <= b * m
  <1> DEFINE d == b - a - 1
  <1>1. d \in Nat /\ b = a + 1 + d
    OBVIOUS
  <1>2. d * m \in Nat
    BY <1>1
  <1> HIDE DEF d
  <1>3. b * m = a * m + m + d * m
    BY <1>1
  <1>4. a * m \in Nat
    OBVIOUS
  <1> QED
    BY <1>2, <1>3, <1>4

(* The quotient of x is q where x lies on page q, counted from zero. *)
LEMMA OnPage ==
    ASSUME NEW m \in Nat \ {0}, NEW x \in Nat, NEW q \in Nat
    PROVE x \div m = q <=> q * m <= x /\ x < q * m + m
  <1> DEFINE y == x \div m
             z == x % m
  <1>1. y \in Nat /\ z \in 0 .. m - 1 /\ x = y * m + z
    BY Division
  <1> HIDE DEF y, z
  <1>2. q * m \in Nat /\ y * m \in Nat
    BY <1>1
  <1>3. CASE y = q
    BY <1>1, <1>2, <1>3 DEF y
  <1>4. CASE y < q
    <2>1. y * m + m <= q * m
      BY <1>1, <1>4, Multiples
    <2> QED
      BY <1>1, <1>2, <1>4, <2>1 DEF y
  <1>5. CASE q < y
    <2>1. q * m + m <= y * m
      BY <1>1, <1>5, Multiples
    <2> QED
      BY <1>1, <1>2, <1>5, <2>1 DEF y
  <1> QED
    BY <1>1, <1>3, <1>4, <1>5

(* There is a page after page p as long as a clip does not fit on the first p. *)
LEMMA MorePages ==
    ASSUME NEW m \in Nat \ {0}, NEW p \in Nat \ {0}, NEW length \in Nat,
           NEW total, total = (length + m - 1) \div m
    PROVE p < (IF total = 0 THEN 1 ELSE total) <=> p * m < length
  <1> DEFINE z == (length + m - 1) % m
  <1>1. length + m - 1 \in Nat
    OBVIOUS
  <1>2. total \in Nat /\ z \in 0 .. m - 1 /\ length + m - 1 = total * m + z
    BY <1>1, Division
  <1> HIDE DEF z
  <1>3. p * m \in Nat /\ total * m \in Nat /\ m <= p * m
    <2>1. 0 * m + m <= p * m
      BY Multiples
    <2> QED
      BY <1>2, <2>1
  <1>4. CASE p < total
    <2>1. p * m + m <= total * m
      BY <1>2, <1>4, Multiples
    <2> QED
      BY <1>2, <1>3, <1>4, <2>1
  <1>5. CASE ~ (p < total)
    <2>1. total * m <= p * m
      <3>1. CASE total = p
        BY <3>1, <1>3
      <3>2. CASE total < p
        <4>1. total * m + m <= p * m
          BY <1>2, <3>2, Multiples
        <4> QED
          BY <1>3, <4>1
      <3> QED
        BY <3>1, <3>2, <1>2, <1>5
    <2>2. ~ (p * m < length)
      BY <1>2, <1>3, <2>1
    <2> QED
      BY <1>2, <1>5, <2>2
  <1> QED
    BY <1>4, <1>5

(* What is right of a page, when all is what there is to show: it holds the *)
(* clips with the right number of newer ones, and names a next page if an   *)
(* older clip is left.                                                      *)
PageHolds(page, query, all) ==
    LET Newer(c) == Cardinality({d \in all : d > c})
    IN  /\ {page.clips[i] : i \in DOMAIN page.clips}
              = {c \in all : Newer(c) \div query.size = query.page - 1}
        /\ \A i, j \in DOMAIN page.clips : i < j => page.clips[i] > page.clips[j]
        /\ page.next <=> \E c \in all : Newer(c) >= query.page * query.size

LEMMA PageShows ==
    ASSUME NEW manifest, Parsed(manifest) \in SUBSET Positions, NEW query \in Queries, Paged(query),
           NEW all, all = {c \in Parsed(manifest) : CameraOf(c) \in query.cameras}
    PROVE  PageHolds(Page(manifest, query), query, all)
  <1> DEFINE Before(c) == Cardinality({d \in all : d > c})
             r == Newest(all)
             p == query.page
             m == query.size
             start == (p - 1) * m
             stop == Least(start + m, Len(r))
             shown == SubSeq(r, start + 1, stop)
             total == (Len(r) + m - 1) \div m
             next == p < (IF total = 0 THEN 1 ELSE total)
  <1>1. Page(manifest, query).clips = shown /\ Page(manifest, query).next = next
    BY DEF Page, Selected, PageStart
  <1>2. p \in Nat \ {0} /\ m \in Nat \ {0}
    BY Bounds DEF Queries, Paged
  <1>3. /\ r \in Seq(all) /\ Falls(r) /\ Shows(r, all)
        /\ \A k \in 1 .. Len(r) : Before(r[k]) = k - 1
    <2>1. all \in SUBSET Positions
      OBVIOUS
    <2> QED
      BY <2>1, NewestShows
  <1>4. Len(r) \in Nat
    BY <1>3
  <1>5. start \in Nat /\ p * m \in Nat /\ p * m = start + m
    BY <1>2
  <1> HIDE DEF r, p, m, start, total
  <1>6. /\ stop \in Nat /\ stop <= Len(r) /\ stop <= start + m
        /\ stop = Len(r) \/ stop = start + m
    BY <1>2, <1>4, <1>5 DEF Least
  <1> HIDE DEF stop
  <1>7. /\ DOMAIN shown = 1 .. stop - start
        /\ \A i \in 1 .. stop - start : shown[i] = r[start + i] /\ start + i \in 1 .. Len(r)
    <2>1. \A i \in start + 1 .. stop : r[i] \in all
      BY <1>3, <1>4, <1>5, <1>6
    <2>2. start + 1 \in Int /\ stop \in Int
      BY <1>5, <1>6
    <2>3. /\ shown \in Seq(all)
          /\ Len(shown) = IF start + 1 <= stop THEN stop - (start + 1) + 1 ELSE 0
          /\ \A i \in 1 .. stop - (start + 1) + 1 : shown[i] = r[start + 1 + i - 1]
      BY <2>1, <2>2, SubSeqProperties
    <2> HIDE DEF shown
    <2>4. DOMAIN shown = 1 .. Len(shown)
      BY <2>3
    <2>5. 1 .. Len(shown) = 1 .. stop - start
      BY <2>3, <1>5, <1>6
    <2>6. \A i \in 1 .. stop - start : start + 1 + i - 1 = start + i /\ start + i \in 1 .. Len(r)
      BY <1>4, <1>5, <1>6
    <2>7. stop - (start + 1) + 1 = stop - start
      BY <1>5, <1>6
    <2> QED
      BY <2>3, <2>4, <2>5, <2>6, <2>7
  <1> HIDE DEF shown
  <1>8. \A k \in 1 .. Len(r) : (k - 1) \div m = p - 1 <=> k \in start + 1 .. stop
    <2> SUFFICES ASSUME NEW k \in 1 .. Len(r)
                 PROVE  (k - 1) \div m = p - 1 <=> k \in start + 1 .. stop
      OBVIOUS
    <2>1. k - 1 \in Nat /\ p - 1 \in Nat
      BY <1>2, <1>4
    <2>2. (k - 1) \div m = p - 1 <=> start <= k - 1 /\ k - 1 < start + m
      BY <2>1, <1>2, OnPage DEF start
    <2> QED
      BY <2>2, <1>4, <1>5, <1>6
  <1>9. {shown[i] : i \in DOMAIN shown} = {c \in all : Before(c) \div m = p - 1}
    <2>1. ASSUME NEW i \in DOMAIN shown
          PROVE  shown[i] \in all /\ Before(shown[i]) \div m = p - 1
      <3> DEFINE k == start + i
      <3>1. i \in 1 .. stop - start /\ k \in 1 .. Len(r) /\ shown[i] = r[k]
        BY <1>7
      <3>2. k \in start + 1 .. stop
        BY <3>1, <1>5, <1>6
      <3> HIDE DEF k
      <3>3. (k - 1) \div m = p - 1 /\ Before(r[k]) = k - 1 /\ r[k] \in all
        BY <3>1, <3>2, <1>8, <1>3
      <3> QED
        BY <3>1, <3>3
    <2>2. ASSUME NEW c \in all, Before(c) \div m = p - 1
          PROVE  \E i \in DOMAIN shown : c = shown[i]
      <3>1. PICK k \in 1 .. Len(r) : c = r[k]
        BY <1>3 DEF Shows
      <3>2. k \in start + 1 .. stop
        BY <3>1, <2>2, <1>3, <1>8
      <3>3. k - start \in 1 .. stop - start /\ start + (k - start) = k
        BY <3>2, <1>5, <1>6
      <3> QED
        BY <3>1, <3>3, <1>7
    <2> QED
      BY <2>1, <2>2
  <1>10. \A i, j \in DOMAIN shown : i < j => shown[i] > shown[j]
    <2> SUFFICES ASSUME NEW i \in DOMAIN shown, NEW j \in DOMAIN shown, i < j
                 PROVE  shown[i] > shown[j]
      OBVIOUS
    <2>1. i \in 1 .. stop - start /\ j \in 1 .. stop - start
      BY <1>7
    <2>2. start + i < start + j
      BY <2>1, <1>5, <1>6
    <2>3. r[start + i] > r[start + j]
      BY <2>1, <2>2, <1>7, <1>3 DEF Falls
    <2> QED
      BY <2>1, <2>3, <1>7
  <1>11. next <=> \E c \in all : Before(c) >= p * m
    <2>1. next <=> p * m < Len(r)
      BY <1>2, <1>4, MorePages DEF total
    <2> HIDE DEF next
    <2>2. ASSUME p * m < Len(r) PROVE \E c \in all : Before(c) >= p * m
      <3> DEFINE k == p * m + 1
      <3>1. k \in 1 .. Len(r) /\ k - 1 = p * m
        BY <2>2, <1>4, <1>5
      <3> HIDE DEF k
      <3>2. Before(r[k]) = k - 1 /\ r[k] \in all
        BY <3>1, <1>3
      <3>3. Before(r[k]) >= p * m
        BY <3>1, <3>2, <1>5
      <3> QED
        BY <3>2, <3>3
    <2>3. ASSUME NEW c \in all, Before(c) >= p * m PROVE p * m < Len(r)
      <3>1. PICK k \in 1 .. Len(r) : c = r[k]
        BY <1>3 DEF Shows
      <3>2. Before(c) = k - 1
        BY <3>1, <1>3
      <3> QED
        BY <3>1, <3>2, <2>3, <1>4, <1>5
    <2> QED
      BY <2>1, <2>2, <2>3
  <1> QED
    BY <1>1, <1>9, <1>10, <1>11 DEF PageHolds, p, m

(* The same in the words of the property, which looks the clips up in the   *)
(* manifest.                                                                *)
PageIsRight(built, query) ==
    PageHolds(Page(built, query), query,
              {c \in Positions : CameraOf(c) \in query.cameras /\
                  \E i \in DOMAIN manifests[built] : i <= Limit /\ manifests[built][i] = c})

LEMMA ListedIsRight ==
    ASSUME NEW built, manifests[built] \in Seq(Positions), NEW query \in Queries, Paged(query)
    PROVE  PageIsRight(built, query)
  <1> DEFINE s == manifests[built]
             n == Least(Len(s), Limit)
             all == {c \in Positions : CameraOf(c) \in query.cameras /\
                        \E i \in DOMAIN s : i <= Limit /\ s[i] = c}
             parsed == Parsed(built)
  <1>1. \A i : i \in 1 .. n <=> i \in DOMAIN s /\ i <= Limit
    BY Bounds DEF Least
  <1>2. parsed = {s[i] : i \in 1 .. n}
    BY DEF Parsed
  <1>3. \A i \in DOMAIN s : s[i] \in Positions
    OBVIOUS
  <1> HIDE DEF s, n, parsed
  <1>4. parsed \in SUBSET Positions
    BY <1>1, <1>2, <1>3
  <1>5. \A c : c \in parsed <=> c \in Positions /\ \E i \in DOMAIN s : i <= Limit /\ s[i] = c
    BY <1>1, <1>2, <1>3
  <1>6. {c \in parsed : CameraOf(c) \in query.cameras} = all
    BY <1>5
  <1> HIDE DEF all
  <1>7. PageHolds(Page(built, query), query, all)
    BY <1>4, <1>6, PageShows DEF parsed
  <1> QED
    BY <1>7 DEF PageIsRight, all, s

-----------------------------------------------------------------------------
(* The invariant, and what follows from it. *)

LEMMA StorageInit == ASSUME Init PROVE Typed /\ Flow
  <1>1. ModuleOK /\ ManifestsOK
    BY Bounds DEF Init, ModuleOK, ManifestsOK
  <1>2. CommandsOK
    BY Bounds DEF Init, CommandsOK
  <1>3. TasksOK
    BY FreshTasks DEF Init, TasksOK
  <1>4. LineOK
    <2>1. Busy = {}
      BY FreshTasks DEF Init, Busy
    <2>2. IsFiniteSet(Busy) /\ Cardinality(Busy) = 0
      BY <2>1, FS_EmptySet
    <2> QED
      BY <2>1, <2>2 DEF Init, LineOK
  <1>5. AllWork
    BY FreshTasks DEF Init, AllWork, Works
  <1>6. Order /\ LeftOrOwn
    BY DEF Init, Order, CommandsAreAsked, InOrder, DeletesAreNext, GoneIsShown, LeftOrOwn
  <1>7. StatusIsFresh
    BY FreshTasks DEF Init, StatusIsFresh
  <1> QED
    BY <1>1, <1>2, <1>3, <1>4, <1>5, <1>6, <1>7 DEF Typed, Flow

LEMMA StorageStep == ASSUME Typed, Flow, [Next]_vars PROVE Typed' /\ Flow'
  <1>1. CASE RecordClip \/ ClipGoes
    BY <1>1, StepClips
  <1>2. CASE Execute
    BY <1>2, StepExecute
  <1>3. ASSUME NEW t \in Tasks, Serve(t) PROVE Typed' /\ Flow'
    BY <1>3, StepStart, StepStatus, StepManifest, StepPoll, StepMedia, StepPost, StepDownload
       DEF Serve
  <1>4. ASSUME NEW t \in Tasks, Abandon(t) PROVE Typed' /\ Flow'
    BY <1>4, StepAbandon
  <1>5. ASSUME NEW t \in Tasks, NEW op \in Requests, Request(t, op) PROVE Typed' /\ Flow'
    BY <1>5, StepRequest
  <1>6. CASE UNCHANGED vars
    <2>1. UNCHANGED <<usb, clips, recorded, manifests, commands, task, line, faults>>
      BY <1>6 DEF vars, module
    <2>2. Typed'
      BY <2>1 DEF Typed, ModuleOK, ManifestsOK, CommandsOK, TasksOK, LineOK, Busy
    <2>3. UNCHANGED AllWork
      BY <2>1 DEF AllWork, Works, Holds, Mine, Own, Carried, NothingQueued, Current
    <2>4. UNCHANGED Order
      BY <2>1 DEF Order, CommandsAreAsked, InOrder, DeletesAreNext, GoneIsShown, Current
    <2>5. UNCHANGED LeftOrOwn
      BY <2>1 DEF LeftOrOwn, Holds
    <2>6. UNCHANGED StatusIsFresh
      BY <2>1 DEF StatusIsFresh
    <2> QED
      BY <2>2, <2>3, <2>4, <2>5, <2>6 DEF Flow
  <1> QED
    BY <1>1, <1>2, <1>3, <1>4, <1>5, <1>6 DEF Next

LEMMA StorageAlways == Spec => [](Typed /\ Flow)
  <1>1. Init => Typed /\ Flow
    BY StorageInit
  <1>2. (Typed /\ Flow) /\ [Next]_vars => (Typed /\ Flow)'
    BY StorageStep
  <1> QED
    BY <1>1, <1>2, PTL DEF Spec

(* Every state is well typed, and the line of storage_lock holds exactly the *)
(* requests under way, once each: no operation leaves its guard behind and   *)
(* none works without having asked for it.                                   *)
THEOREM StorageTypeCorrect == Spec => []TypeOK
  <1>1. Typed => TypeOK
    <2> SUFFICES ASSUME Typed PROVE TypeOK
      OBVIOUS
    <2>1. DOMAIN line = 1 .. Len(line) /\ \A i \in 1 .. Len(line) : line[i] \in Tasks
      BY DEF Typed, LineOK
    <2>2. {t \in Tasks : task[t].pc # "idle"} = {line[i] : i \in DOMAIN line}
      BY <2>1 DEF Typed, LineOK, Busy
    <2>3. Len(line) = Cardinality({t \in Tasks : task[t].pc # "idle"})
      BY DEF Typed, LineOK, Busy
    <2>4. /\ Len(commands) <= MaxCommands /\ \A i \in DOMAIN commands : commands[i] \in CommandStates
          /\ Len(manifests) <= MaxManifests
      BY Bounds DEF Typed, CommandsOK, ManifestsOK
    <2> QED
      BY <2>2, <2>3, <2>4 DEF Typed, ModuleOK, TypeOK
  <1> QED
    BY <1>1, StorageAlways, PTL

(* Whatever the module deletes for the engine is the clip the request's page *)
(* showed under that number, in whatever order manifests are rebuilt,        *)
(* operations give up and their commands are carried out.                    *)
THEOREM RotationStaysHarmless == Spec => []RotationIsHarmless
  <1>1. Typed /\ Flow => RotationIsHarmless
    BY DEF Typed, CommandsOK, Flow, Order, GoneIsShown, RotationIsHarmless
  <1> QED
    BY <1>1, StorageAlways, PTL

(* An operation answered with success has had its own command carried out.  *)
THEOREM SuccessWasDone == Spec => []SuccessIsDone
  <1>1. Typed /\ Flow => SuccessIsDone
    BY DEF Flow, AllWork, Works, Carried, Own, SuccessIsDone
  <1> QED
    BY <1>1, StorageAlways, PTL

(* The module's status still allows the command that is about to be sent, as *)
(* long as no operation has given up on a command of its own; with the two   *)
(* above, all that the engine sends to the module is guarded.                *)
THEOREM StorageStaysGuarded == Spec => []StorageIsGuarded
  <1>1. Typed /\ Flow => StatusIsFresh
    BY DEF Flow
  <1>2. Spec => []StatusIsFresh
    BY <1>1, StorageAlways, PTL
  <1> QED
    BY <1>2, RotationStaysHarmless, SuccessWasDone, PTL DEF StorageIsGuarded

(* Whatever page of the manifest that has just been read is asked for holds  *)
(* the clips of the selected cameras that have the right number of newer     *)
(* ones before them, the newest first, and names a next page exactly when an *)
(* older clip is left: walking the pages shows every clip once, for every    *)
(* number of clips, size of page and limit of the listing.                   *)
THEOREM PagesStayRight == Spec => []PagesAreRight
  <1>1. Typed /\ Flow => PagesAreRight
    <2> SUFFICES ASSUME Typed, Flow, NEW t \in Tasks, task[t].pc = "media",
                        NEW query \in Queries, Paged(query)
                 PROVE  PageIsRight(Own(t).manifest, query)
      BY Zenon DEF PagesAreRight, PageIsRight, PageHolds, Own
    <2> DEFINE built == Own(t).manifest
    <2>1. built \in 1 .. Len(manifests)
      <3>1. built = Current /\ Current # 0
        BY AtWork DEF Works
      <3> QED
        BY <3>1 DEF Typed, ManifestsOK, Current
    <2> HIDE DEF built
    <2>2. manifests[built] \in Seq(Positions)
      BY <2>1 DEF Typed, ManifestsOK
    <2> QED
      BY <2>2, ListedIsRight DEF built
  <1> QED
    BY <1>1, StorageAlways, PTL

=============================================================================
