---------------------------- MODULE ProviderState ----------------------------
(***************************************************************************)
(* The engine's copy of Blink's state and the programs in it:              *)
(* blink_refresh.rs, blink_program_sync.rs, blink_programs.rs and their    *)
(* handlers.  A refresh reads the networks and, at most every ten minutes, *)
(* their programs, over many awaits and without a lock, and then replaces  *)
(* the whole state; any number of refreshes run at once.  A program toggle *)
(* holds settings_lock, writes, reads back and stores each list it read.   *)
(*                                                                         *)
(* Each network has one program.  What Blink holds is a count of the       *)
(* changes of its status; the status is the count's parity, so that a copy *)
(* also says how old it is.  Blink applies a toggle when it answers the    *)
(* POST.  The cameras, networks and clips of the state are not looked at.  *)
(*                                                                         *)
(* No name of this module is one of Motion, so that EngineStateProofs may  *)
(* extend both.                                                            *)
(***************************************************************************)
EXTENDS Naturals, FiniteSets

CONSTANTS
    Networks,
    Refreshes,    \* concurrent calls of refresh_state
    Toggles,      \* concurrent calls of set_program_enabled
    Attempts,     \* READ_BACK_ATTEMPTS
    MaxChanges,   \* bound: changes of one program
    MaxFaults     \* bound: requests that fail, answers that are lost, cancelled handlers

ASSUME ProviderAssumption ==
    /\ Attempts \in Nat \ {0}
    /\ MaxChanges \in Nat
    /\ MaxFaults \in Nat

VARIABLES
    program,    \* Blink: per network, changes of its program
    writer,     \* per network, who changed its program last
    cache,      \* ProviderState: whether the networks are known, their flags, their programs
    young,      \* whether programs_read_at is less than PROGRAM_REFRESH old
    refresh,    \* per refresh, where it stands and what it has read
    toggle,     \* per toggle, where it stands and what it has read
    lock,       \* settings_lock: its holder, empty when free
    faults

cloudVars == <<program, writer>>
stateVars == <<cloudVars, cache, young, refresh, toggle, lock, faults>>

Unknown == MaxChanges + 1     \* no copy yet
Enabled(count) == count % 2 = 1
Copies == 0 .. Unknown

NoRefresh == [pc |-> "idle", programs |-> [n \in Networks |-> Unknown], todo |-> {}]
NoToggle == [pc |-> "idle", network |-> "none", want |-> FALSE, read |-> Unknown, tries |-> 0]

StateInit ==
    /\ program = [n \in Networks |-> 0]
    /\ writer = [n \in Networks |-> "app"]
    /\ cache = [known |-> FALSE, programs |-> [n \in Networks |-> Unknown]]
    /\ young = FALSE
    /\ refresh = [r \in Refreshes |-> NoRefresh]
    /\ toggle = [t \in Toggles |-> NoToggle]
    /\ lock = {}
    /\ faults = 0

Fault == faults < MaxFaults /\ faults' = faults + 1

-----------------------------------------------------------------------------
(* The Blink app toggles programs too.                                      *)
AppToggles(n) ==
    /\ program[n] < MaxChanges
    /\ program' = [program EXCEPT ![n] = @ + 1]
    /\ writer' = [writer EXCEPT ![n] = "app"]
    /\ UNCHANGED <<cache, young, refresh, toggle, lock, faults>>

-----------------------------------------------------------------------------
(* refresh_state.  A step leaves the rest of its task's record alone.       *)
StepOf(r, changed) == refresh' = [refresh EXCEPT ![r] = changed]

(* The home screen, the catalogue of networks, the usage, the networks' and  *)
(* the cameras' own answers: without one of the first three it ends here.   *)
Begin(r) ==
    /\ refresh[r].pc = "idle"
    /\ StepOf(r, [NoRefresh EXCEPT !.pc = "networks"])
    /\ UNCHANGED <<cloudVars, cache, young, toggle, lock, faults>>

(* refreshed_programs: the age is checked and renewed in one step, and the   *)
(* previous lists are cloned before any list is read.                       *)
DueNever == FALSE
Due == ~young
CheckAge(r) ==
    /\ refresh[r].pc = "networks"
    /\ IF Due
       THEN /\ young' = TRUE
            /\ StepOf(r, [refresh[r] EXCEPT !.pc = "programs", !.programs = cache.programs,
                                            !.todo = Networks])
       ELSE /\ StepOf(r, [refresh[r] EXCEPT !.pc = "commit cached"])
            /\ UNCHANGED young
    /\ UNCHANGED <<cloudVars, cache, toggle, lock, faults>>

ReadPrograms(r, n) ==
    /\ refresh[r].pc = "programs"
    /\ n \in refresh[r].todo
    /\ \/ /\ StepOf(r, [refresh[r] EXCEPT !.programs[n] = program[n], !.todo = @ \ {n}])
          /\ UNCHANGED faults
       \/ Fault /\ StepOf(r, [refresh[r] EXCEPT !.todo = @ \ {n}])
    /\ UNCHANGED <<cloudVars, cache, young, toggle, lock>>

(* The whole state is replaced under the write lock.                        *)
Read(r) == refresh[r].pc = "programs" /\ refresh[r].todo = {}
CommittedPrograms(r) == IF Read(r) THEN refresh[r].programs ELSE cache.programs
Commit(r) ==
    /\ Read(r) \/ refresh[r].pc = "commit cached"
    /\ cache' = [known |-> TRUE, programs |-> CommittedPrograms(r)]
    /\ StepOf(r, NoRefresh)
    /\ UNCHANGED <<cloudVars, young, toggle, lock, faults>>

(* The client of /v1/refresh leaves, and the handler is dropped.            *)
CancelRefresh(r) ==
    /\ refresh[r].pc # "idle"
    /\ Fault
    /\ StepOf(r, NoRefresh)
    /\ UNCHANGED <<cloudVars, cache, young, toggle, lock>>

(* Ten minutes pass; the requests' timeouts end the reading of the lists      *)
(* long before.                                                             *)
AgeExpires ==
    /\ young
    /\ \A r \in Refreshes : refresh[r].pc # "programs"
    /\ young' = FALSE
    /\ UNCHANGED <<cloudVars, cache, refresh, toggle, lock, faults>>

-----------------------------------------------------------------------------
(* set_program_enabled.                                                     *)
MoveToggle(t, changed) == toggle' = [toggle EXCEPT ![t] = changed]
Release(t) == MoveToggle(t, NoToggle) /\ lock' = lock \ {t}
Store(t) == cache' = [cache EXCEPT !.programs[toggle[t].network] = toggle[t].read]
Holds(t, pc) == toggle[t].pc = pc

RequestToggle(t, n, want) ==
    /\ Holds(t, "idle")
    /\ cache.known
    /\ MoveToggle(t, [NoToggle EXCEPT !.pc = "waiting", !.network = n, !.want = want])
    /\ UNCHANGED <<cloudVars, cache, young, refresh, lock, faults>>

LockFreeAlways == TRUE
LockFree == lock = {}
ReadCurrent(t) ==
    /\ Holds(t, "waiting")
    /\ LockFree
    /\ lock' = lock \cup {t}
    /\ MoveToggle(t, [toggle[t] EXCEPT !.pc = "store", !.read = program[toggle[t].network]])
    /\ UNCHANGED <<cloudVars, cache, young, refresh, faults>>

StoreCurrent(t) ==
    /\ Holds(t, "store")
    /\ Store(t)
    /\ IF Enabled(toggle[t].read) = toggle[t].want
       THEN Release(t)
       ELSE MoveToggle(t, [toggle[t] EXCEPT !.pc = "post"]) /\ UNCHANGED lock
    /\ UNCHANGED <<cloudVars, young, refresh, faults>>

(* Enabling what is enabled changes nothing.                                *)
Post(t) ==
    /\ Holds(t, "post")
    /\ LET n == toggle[t].network
       IN  IF Enabled(program[n]) = toggle[t].want
           THEN UNCHANGED <<program, writer>>
           ELSE /\ program[n] < MaxChanges
                /\ program' = [program EXCEPT ![n] = @ + 1]
                /\ writer' = [writer EXCEPT ![n] = t]
    /\ \/ /\ MoveToggle(t, [toggle[t] EXCEPT !.pc = "check", !.tries = 1])
          /\ UNCHANGED <<lock, faults>>
       \/ Fault /\ Release(t)
    /\ UNCHANGED <<cache, young, refresh>>

ReadBack(t) ==
    /\ Holds(t, "check")
    /\ MoveToggle(t, [toggle[t] EXCEPT !.pc = "confirm", !.read = program[toggle[t].network]])
    /\ UNCHANGED <<cloudVars, cache, young, refresh, lock, faults>>

LastTryLate(t) == toggle[t].tries > Attempts
LastTry(t) == toggle[t].tries = Attempts
Confirm(t) ==
    /\ Holds(t, "confirm")
    /\ Store(t)
    /\ IF Enabled(toggle[t].read) = toggle[t].want \/ LastTry(t)
       THEN Release(t)
       ELSE /\ MoveToggle(t, [toggle[t] EXCEPT !.pc = "check", !.tries = @ + 1])
            /\ UNCHANGED lock
    /\ UNCHANGED <<cloudVars, young, refresh, faults>>

(* A request fails, or the client leaves and the handler is dropped.        *)
Abandon(t) ==
    /\ toggle[t].pc # "idle"
    /\ Fault
    /\ Release(t)
    /\ UNCHANGED <<cloudVars, cache, young, refresh>>

-----------------------------------------------------------------------------
ToggleStep(t) ==
    \/ ReadCurrent(t) \/ StoreCurrent(t) \/ Post(t) \/ ReadBack(t) \/ Confirm(t)
RefreshStep(r) ==
    \/ Begin(r) \/ CheckAge(r) \/ Commit(r)
    \/ \E n \in Networks : ReadPrograms(r, n)

StateNext ==
    \/ \E n \in Networks : AppToggles(n)
    \/ \E r \in Refreshes : RefreshStep(r) \/ CancelRefresh(r)
    \/ AgeExpires
    \/ \E t \in Toggles : ToggleStep(t) \/ Abandon(t)
    \/ \E t \in Toggles, n \in Networks, want \in BOOLEAN : RequestToggle(t, n, want)

StateSpec == StateInit /\ [][StateNext]_stateVars

(* Home Assistant refreshes every five minutes; handlers run; time passes.   *)
Fairness ==
    /\ \A r \in Refreshes : WF_stateVars(RefreshStep(r))
    /\ \A t \in Toggles : WF_stateVars(ToggleStep(t))
    /\ WF_stateVars(AgeExpires)
FairSpec == StateSpec /\ Fairness

-----------------------------------------------------------------------------
PerNetwork == [Networks -> Copies]
StateTypeOK ==
    /\ program \in PerNetwork
    /\ writer \in [Networks -> Toggles \cup {"app"}]
    /\ cache \in [known : BOOLEAN, programs : PerNetwork]
    /\ young \in BOOLEAN
    /\ \A r \in Refreshes :
          /\ refresh[r].pc \in {"idle", "networks", "programs", "commit cached"}
          /\ refresh[r].programs \in PerNetwork
          /\ refresh[r].todo \subseteq Networks
    /\ \A t \in Toggles :
          /\ toggle[t].pc \in {"idle", "waiting", "store", "post", "check", "confirm"}
          /\ toggle[t].network \in Networks \cup {"none"}
          /\ toggle[t].read \in Copies
          /\ toggle[t].tries <= Attempts
    /\ lock \subseteq Toggles
    /\ faults \in 0 .. MaxFaults

(* Between a toggle's POST and the end of its read-back no other toggle has  *)
(* written the same program: what it verifies is its own write or the app's. *)
WritesAreSerialized ==
    \A t \in Toggles :
        toggle[t].pc \in {"check", "confirm"} => writer[toggle[t].network] \in {t, "app"}

(* Once Blink is left alone the state becomes Blink's, whatever was lost,    *)
(* cancelled or overwritten before.                                         *)
Converges ==
    <>[](cache = [known |-> TRUE, programs |-> program])

(* "Read the cache under the write lock so a concurrent toggle is kept":     *)
(* a commit never puts back a program's status older than the stored one.   *)
ToggleIsKept ==
    [][\A n \in Networks :
          cache.programs[n] # Unknown => cache'.programs[n] >= cache.programs[n]]_stateVars
=============================================================================
