-------------------------- MODULE WebrtcSignaling --------------------------
(***************************************************************************)
(* The WebRTC signaling broker of one camera: blink_webrtc.rs and its      *)
(* commands, events, frames and wire modules.  A browser's socket gets the *)
(* publisher lease of the camera, the broker connects to Blink's signaling *)
(* service, sends the browser's offer as live_view, and then relays        *)
(* whatever comes first: a browser frame, a provider frame, a ping, the    *)
(* end of the negotiation or of the session.  It closes the live view,     *)
(* drops the provider's socket, drops the lease, and only then tells the   *)
(* browser to fall back to the compatible stream.                          *)
(*                                                                         *)
(* Frames come in any order and from a provider that may answer anything;  *)
(* what matters of one is its method, its session and whether it is about  *)
(* this dialog and this device.  What the broker has sent on a provider    *)
(* socket is kept in "cloud".                                              *)
(***************************************************************************)
EXTENDS Naturals, FiniteSets

CONSTANTS
    Sockets,         \* browser sockets of one camera
    SessionIds,      \* session ids the provider gives out
    NoId,
    MaxCandidates,   \* MAX_CANDIDATES
    MaxMissed        \* pings without an answer before the session is given up

ASSUME SignalingAssumption ==
    /\ NoId \notin SessionIds
    /\ {MaxCandidates, MaxMissed} \subseteq Nat

VARIABLES
    lease,      \* the camera's publisher lease: its holder, or empty
    session,    \* per browser socket, where it stands and its SessionState
    cloud       \* per browser socket, its provider socket and what was sent on it

vars == <<lease, session, cloud>>

Ids == SessionIds \cup {NoId}

NoSession ==
    [pc |-> "idle", id |-> NoId, activated |-> FALSE, prepared |-> FALSE, cooling |-> FALSE,
     candidates |-> 0, negotiated |-> FALSE, missed |-> 0, fallback |-> FALSE]

NoCloud ==
    [socket |-> FALSE, live |-> FALSE, ids |-> {}, active |-> FALSE, options |-> FALSE,
     mic |-> FALSE, closes |-> 0]

Init ==
    /\ lease = {}
    /\ session = [s \in Sockets |-> NoSession]
    /\ cloud = [s \in Sockets |-> NoCloud]

At(s, pc) == session[s].pc = pc

----------------------------------------------------------------------------
(* Before the loop. *)

Upgrade(s) ==
    /\ At(s, "idle") /\ lease = {}
    /\ lease' = {s}
    /\ session' = [session EXCEPT ![s].pc = "target"]
    /\ UNCHANGED cloud

(* A function that returns drops the provider's socket before the lease. *)
Return(s) ==
    /\ session' = [session EXCEPT ![s].pc = "dropping"]
    /\ cloud' = [cloud EXCEPT ![s].socket = FALSE]
    /\ UNCHANGED lease

(* A camera that is not a Cayuga one, no identity, or a failed upgrade. *)
Target(s) ==
    /\ At(s, "target")
    /\ \/ session' = [session EXCEPT ![s].pc = "connecting"] /\ UNCHANGED <<lease, cloud>>
       \/ Return(s)

Connect(s) ==
    /\ At(s, "connecting")
    /\ \/ /\ session' = [session EXCEPT ![s].pc = "offer"]
          /\ cloud' = [cloud EXCEPT ![s].socket = TRUE]
          /\ UNCHANGED lease
       \/ Return(s)

Offer(s) ==
    /\ At(s, "offer")
    /\ \/ session' = [session EXCEPT ![s].pc = "starting"] /\ UNCHANGED <<lease, cloud>>
       \/ Return(s)

LiveView(s) ==
    /\ At(s, "starting")
    /\ \/ /\ session' = [session EXCEPT ![s].pc = "running"]
          /\ cloud' = [cloud EXCEPT ![s].live = TRUE]
          /\ UNCHANGED lease
       \/ Return(s)

----------------------------------------------------------------------------
(* The loop: commands.  Each ends with a send that succeeds, or fails and *)
(* stops the loop.                                                        *)

(* The bug: the lease goes back as soon as the loop stops. *)
StopEarly(s, next) == session' = [session EXCEPT ![s] = [next EXCEPT !.pc = "closing"]] /\ lease' = {}
Stop(s, next) == session' = [session EXCEPT ![s] = [next EXCEPT !.pc = "closing"]] /\ UNCHANGED lease

Keep(s, next) == session' = [session EXCEPT ![s] = next] /\ UNCHANGED lease
Ignore == UNCHANGED vars

(* A send that fails may have arrived. *)
Sent(s, got) == [got EXCEPT !.ids = @ \cup ({session[s].id} \ {NoId})]
Send(s, next, got) ==
    \/ Keep(s, next) /\ cloud' = [cloud EXCEPT ![s] = Sent(s, got)]
    \/ Stop(s, next) /\ \E c \in {cloud[s], Sent(s, got)} : cloud' = [cloud EXCEPT ![s] = c]

InSession(s) == session[s].id # NoId

(* The bug: the candidates are not counted. *)
IceUncounted(s) == Send(s, [session[s] EXCEPT !.candidates = @ + 1], cloud[s])
Ice(s) ==
    LET next == [session[s] EXCEPT !.candidates = @ + 1]
    IN  IF next.candidates > MaxCandidates
        THEN Stop(s, [next EXCEPT !.candidates = MaxCandidates]) /\ UNCHANGED cloud
        ELSE Send(s, next, cloud[s])

(* sdp and stream_options. *)
Relay(s) == IF InSession(s) THEN Send(s, session[s], cloud[s]) ELSE Ignore

Activate(s) ==
    IF InSession(s) /\ ~session[s].activated
    THEN Send(s, [session[s] EXCEPT !.activated = TRUE], [cloud[s] EXCEPT !.active = TRUE])
    ELSE Ignore

MicrophoneOff(s) ==
    IF InSession(s) THEN Send(s, session[s], [cloud[s] EXCEPT !.mic = FALSE]) ELSE Ignore

(* The bug: the cooldown is not looked at. *)
MayTalkAtOnce(s) == InSession(s) /\ session[s].activated
MayTalk(s) == InSession(s) /\ session[s].activated /\ ~session[s].cooling

(* camera_options goes first, once; when it fails mic_enable is not sent. *)
MicrophoneOn(s) ==
    IF ~MayTalk(s) THEN Ignore
    ELSE LET next    == [session[s] EXCEPT !.prepared = TRUE]
             options == [cloud[s] EXCEPT !.options = TRUE]
         IN  \/ Send(s, next, [options EXCEPT !.mic = TRUE])
             \/ /\ ~session[s].prepared
                /\ Stop(s, session[s])
                /\ \E c \in {cloud[s], Sent(s, options)} : cloud' = [cloud EXCEPT ![s] = c]

BrowserFrame(s) ==
    /\ At(s, "running")
    /\ \/ Ice(s) \/ Relay(s) \/ Activate(s) \/ MicrophoneOff(s) \/ MicrophoneOn(s)
       \/ Stop(s, session[s]) /\ UNCHANGED cloud     \* stop, not valid, closed, or a pong that fails

----------------------------------------------------------------------------
(* The loop: provider frames. *)

Methods == {"answer", "sdp", "ice", "session_created", "session_started", "mic_overridden", "legacy",
            "close", "stream_duration_warning", "ice_restart", "pong", "other"}
Envelopes == [dialog : BOOLEAN, doorbot : {"ours", "none", "other"}, id : Ids, method : Methods]

ValidServer(e) ==
    e.dialog /\ (e.doorbot = "ours" \/ (e.method = "pong" /\ e.doorbot = "none"))

NeedsSession == {"answer", "sdp", "ice", "session_started", "stream_duration_warning", "ice_restart"}
ValidEventSession(e) == e.method \in NeedsSession => e.id # NoId

Foreign(s, e) == InSession(s) /\ e.id \notin {NoId, session[s].id}

Correlated(e) == ValidServer(e) /\ ValidEventSession(e)

Learned(s, e) ==
    [session[s] EXCEPT !.id = IF e.id = NoId THEN @ ELSE e.id,
                       !.missed = IF e.method = "pong" THEN 0 ELSE @]

(* What has a translation for the browser; a payload that is not valid has none. *)
Translated(e) == e.method \notin {"sdp", "pong", "other"}

UpdateState(e, next) ==
    CASE e.method = "answer"         -> [next EXCEPT !.negotiated = TRUE]
      [] e.method = "mic_overridden" -> [next EXCEPT !.cooling = TRUE]
      [] OTHER                       -> next

(* "mic" is what was asked for since the last override. *)
Overridden(s, e) ==
    cloud' = IF e.method = "mic_overridden" THEN [cloud EXCEPT ![s].mic = FALSE] ELSE cloud

ForwardProvider(s, e) ==
    LET learned == Learned(s, e)
        next    == UpdateState(e, learned)
    IN  IF ~ValidServer(e) THEN Ignore
        ELSE IF Foreign(s, e) THEN Stop(s, session[s]) /\ UNCHANGED cloud
        ELSE IF ~Correlated(e) THEN Ignore
        ELSE \/ Keep(s, learned) /\ UNCHANGED cloud     \* nothing for the browser
             \/ /\ Translated(e) /\ e.method \notin {"legacy", "close"}
                /\ Keep(s, next) /\ Overridden(s, e)
             \/ /\ Translated(e) /\ e.method # "legacy"     \* closed, a browser that is gone, E2EE
                /\ Stop(s, next) /\ Overridden(s, e)
             \/ /\ e.method = "legacy"
                /\ Stop(s, [next EXCEPT !.fallback = TRUE]) /\ UNCHANGED cloud

ProviderFrame(s) ==
    /\ At(s, "running")
    /\ \/ \E e \in Envelopes : ForwardProvider(s, e)
       \/ Stop(s, session[s]) /\ UNCHANGED cloud     \* the provider's socket ends

----------------------------------------------------------------------------
(* The loop: timers. *)

Ping(s) ==
    /\ At(s, "running") /\ InSession(s)
    /\ IF session[s].missed >= MaxMissed
       THEN Stop(s, session[s]) /\ UNCHANGED cloud
       ELSE Send(s, [session[s] EXCEPT !.missed = @ + 1], cloud[s])

CooldownEnds(s) ==
    /\ At(s, "running") /\ session[s].cooling
    /\ Keep(s, [session[s] EXCEPT !.cooling = FALSE])
    /\ UNCHANGED cloud

DeadlineOff(s) == FALSE     \* the bug: nothing ends a session that goes on
Deadline(s) ==
    /\ At(s, "running")
    /\ Stop(s, session[s])
    /\ UNCHANGED cloud

NegotiationEnds(s) ==
    /\ At(s, "running") /\ ~session[s].negotiated
    /\ Stop(s, session[s])
    /\ UNCHANGED cloud

----------------------------------------------------------------------------
(* After the loop. *)

Close(s) ==
    /\ At(s, "closing")
    /\ session' = [session EXCEPT ![s].pc = "disconnecting"]
    /\ cloud' = [cloud EXCEPT ![s] = [Sent(s, cloud[s]) EXCEPT !.closes = @ + 1]]
    /\ UNCHANGED lease

(* The close handshake has five seconds; then the socket is dropped. *)
Disconnect(s) ==
    /\ At(s, "disconnecting")
    /\ Return(s)

DropLease(s) ==
    /\ At(s, "dropping")
    /\ lease' = lease \ {s}
    /\ session' = [session EXCEPT ![s] = [NoSession EXCEPT !.pc = "telling", !.fallback = session[s].fallback]]
    /\ cloud' = [cloud EXCEPT ![s] = NoCloud]

Tell(s) ==
    /\ At(s, "telling")
    /\ session' = [session EXCEPT ![s] = NoSession]
    /\ UNCHANGED <<lease, cloud>>

----------------------------------------------------------------------------
(* Every await before and after the loop has a timeout. *)
Straight(s) ==
    \/ Target(s) \/ Connect(s) \/ Offer(s) \/ LiveView(s)
    \/ Close(s) \/ Disconnect(s) \/ DropLease(s) \/ Tell(s)

Loop(s) ==
    \/ BrowserFrame(s) \/ ProviderFrame(s) \/ Ping(s) \/ NegotiationEnds(s) \/ CooldownEnds(s)

Next == \E s \in Sockets : Upgrade(s) \/ Straight(s) \/ Loop(s) \/ Deadline(s)

(* select! polls its branches in a random order: the deadline, once passed, *)
(* stays ready until it is taken.                                           *)
Spec == Init /\ [][Next]_vars /\ \A s \in Sockets : WF_vars(Straight(s)) /\ WF_vars(Deadline(s))

----------------------------------------------------------------------------
(* What the broker promises. *)

Pcs == {"idle", "target", "connecting", "offer", "starting", "running", "closing", "disconnecting",
        "dropping", "telling"}

(* Types, and the bounds of the counters. *)
TypeOK ==
    /\ lease \subseteq Sockets
    /\ session \in [Sockets -> [pc : Pcs, id : Ids, activated : BOOLEAN, prepared : BOOLEAN,
            cooling : BOOLEAN, candidates : 0 .. MaxCandidates, negotiated : BOOLEAN,
            missed : 0 .. MaxMissed, fallback : BOOLEAN]]
    /\ cloud \in [Sockets -> [socket : BOOLEAN, live : BOOLEAN, ids : SUBSET SessionIds,
            active : BOOLEAN, options : BOOLEAN, mic : BOOLEAN, closes : 0 .. 1]]

(* One provider session per camera: a provider socket is open only while its *)
(* browser's socket has the camera's lease, to the end of the close          *)
(* handshake, on every way out.                                              *)
OneLivePerCamera == \A s \in Sockets : cloud[s].socket => lease = {s}

(* A live view that was begun is closed, once, before its socket is; one that *)
(* was not is never closed.                                                   *)
LiveIsClosed ==
    \A s \in Sockets :
        cloud[s].closes = (IF cloud[s].live /\ session[s].pc \notin {"running", "closing"} THEN 1 ELSE 0)

(* When the browser is told to use the compatible stream of this camera, the *)
(* lease that would refuse it is no longer this session's.                   *)
FallbackIsFree ==
    \A s \in Sockets : session[s].pc \in {"telling", "idle"} => s \notin lease

(* The three together: the lease covers the whole provider session, no more. *)
LeaseCoversSession == OneLivePerCamera /\ LiveIsClosed /\ FallbackIsFree

(* The provider never hears of two session ids on one socket, and what it    *)
(* hears is the id that its own events of this dialog and device announced.  *)
OneSessionId ==
    \A s \in Sockets : At(s, "running") => cloud[s].ids \subseteq {session[s].id} \ {NoId}

(* The microphone is on only in a session that was activated and whose       *)
(* camera_options were sent, and stays off during the cooldown of an         *)
(* override, whatever the browser asks for and in whatever order.            *)
MicIsPrepared ==
    \A s \in Sockets : cloud[s].mic =>
        cloud[s].active /\ cloud[s].options /\ ~session[s].cooling

(* Both: what the provider is sent belongs to one session, in an order it accepts. *)
CommandsAreInOrder == OneSessionId /\ MicIsPrepared

(* Every lease is given back, although browser and provider may go on        *)
(* sending, or stay silent, for ever.                                        *)
LeaseIsReleased == \A s \in Sockets : (lease = {s}) ~> (lease # {s})

============================================================================
