----------------------------- MODULE CameraHub -----------------------------
(***************************************************************************)
(* The live hub of one camera: hub.rs, live.rs, motion_still.rs and the    *)
(* lease of blink_webrtc.rs.  One publisher at a time, an IMMI producer or *)
(* a WebRTC broker, holds the camera; HTTP viewers, Walnut sockets and     *)
(* recorders subscribe to a bounded broadcast; the last one to leave ends  *)
(* the producer, and every publisher announces its end on the broadcast.   *)
(*                                                                         *)
(* Tasks run on several threads: an atomic load, a compare-and-swap, a     *)
(* store or a send is one step.  A publisher guard is named by a session   *)
(* number, given in the order the guards are acquired; 0 means none.       *)
(***************************************************************************)
EXTENDS Naturals, Sequences, FiniteSets

CONSTANTS
    Viewers,     \* live requests, Walnut sockets and recorders
    Stills,      \* motion stills that join a recorder's session
    Talkers,     \* WebRTC signaling sessions
    QueueDepth,  \* messages the broadcast keeps for a slow receiver
    Retries,     \* connection attempts of a producer
    MaxSessions  \* bound: publisher guards acquired in one behaviour

Receivers == Viewers \cup Stills
Sessions == 1 .. MaxSessions

ASSUME HubAssumption ==
    /\ QueueDepth \in Nat \ {0}
    /\ Retries \in Nat \ {0}
    /\ MaxSessions \in Nat

VARIABLES
    publisher,   \* CameraHub.publisher: "none", "immi" or "webrtc"
    subscribers, \* CameraHub.subscribers
    opened,      \* number of guards acquired
    phase,       \* per session, where the task that owns its guard stands
    attempts,    \* per session, connections tried by the producer
    pc,          \* per receiver, where it stands
    mine,        \* per receiver, the session whose guard it acquired
    queue,       \* per receiver, the broadcast messages it has not read
    lagged,      \* per receiver, whether messages of its stream were dropped
    seen,        \* per receiver, the sessions whose frames its stream carried
    talk         \* per talker, the session it owns

sessionVars == <<opened, phase, attempts>>
streamVars == <<queue, lagged, seen>>
vars == <<publisher, subscribers, sessionVars, pc, mine, streamVars, talk>>

Frame(s) == [kind |-> "data", session |-> s]
End(s) == [kind |-> "end", session |-> s]

-----------------------------------------------------------------------------
(* Operators the tasks share. *)

(* acquire_publisher: one compare-and-swap from "none". *)
AcquiredAnyway(owner) == opened < MaxSessions /\ publisher' = owner /\ opened' = opened + 1
AcquirePublisher(owner) ==
    /\ publisher = "none"
    /\ opened < MaxSessions
    /\ publisher' = owner
    /\ opened' = opened + 1

Watching(r) == pc[r] = "watching"
HasSubscribers == subscribers > 0

(* The broadcast channel: a full ring drops the oldest message of a slow     *)
(* receiver.                                                                *)
Pushed(q, m) == IF Len(q) < QueueDepth THEN Append(q, m) ELSE Append(Tail(q), m)
Send(m) ==
    /\ queue' = [r \in Receivers |-> IF Watching(r) THEN Pushed(queue[r], m) ELSE queue[r]]
    /\ lagged' = [r \in Receivers |->
                     lagged[r] \/ (Watching(r) /\ Len(queue[r]) = QueueDepth)]
    /\ UNCHANGED seen

(* CameraHub::subscribe, and the drop of a Subscriber. *)
Subscribed(r) ==
    /\ subscribers' = subscribers + 1
    /\ pc' = [pc EXCEPT ![r] = "watching"]
    /\ UNCHANGED streamVars
Forget(r) ==
    /\ pc' = [pc EXCEPT ![r] = "idle"]
    /\ mine' = [mine EXCEPT ![r] = 0]
    /\ queue' = [queue EXCEPT ![r] = << >>]
    /\ lagged' = [lagged EXCEPT ![r] = FALSE]
    /\ seen' = [seen EXCEPT ![r] = {}]
DropUncounted(r) == Forget(r) /\ UNCHANGED subscribers
DropSubscriber(r) == Forget(r) /\ subscribers' = subscribers - 1

-----------------------------------------------------------------------------
Init ==
    /\ publisher = "none"
    /\ subscribers = 0
    /\ opened = 0
    /\ phase = [s \in Sessions |-> "unborn"]
    /\ attempts = [s \in Sessions |-> 0]
    /\ pc = [r \in Receivers |-> "idle"]
    /\ mine = [r \in Receivers |-> 0]
    /\ queue = [r \in Receivers |-> << >>]
    /\ lagged = [r \in Receivers |-> FALSE]
    /\ seen = [r \in Receivers |-> {}]
    /\ talk = [t \in Talkers |-> 0]

-----------------------------------------------------------------------------
(* EngineState::subscribe: load the owner, try to become the publisher, load *)
(* the owner again, subscribe, spawn the producer.                          *)

LoadOwner(v) ==
    /\ pc[v] = "idle"
    /\ publisher # "webrtc"     \* else the viewer is told the camera is busy
    /\ pc' = [pc EXCEPT ![v] = "acquire"]
    /\ UNCHANGED <<publisher, subscribers, sessionVars, mine, streamVars, talk>>

BecomePublisher(v) ==
    /\ pc[v] = "acquire"
    /\ \/ /\ AcquirePublisher("immi")
          /\ phase' = [phase EXCEPT ![opened + 1] = "held"]
          /\ mine' = [mine EXCEPT ![v] = opened + 1]
          /\ pc' = [pc EXCEPT ![v] = "subscribe"]
       \/ /\ publisher # "none"
          /\ pc' = [pc EXCEPT ![v] = "joining"]
          /\ UNCHANGED <<publisher, opened, phase, mine>>
    /\ UNCHANGED <<subscribers, attempts, streamVars, talk>>

LoadOwnerAgain(v) ==
    /\ pc[v] = "joining"
    /\ pc' = [pc EXCEPT ![v] = IF publisher = "immi" THEN "subscribe" ELSE "idle"]
    /\ UNCHANGED <<publisher, subscribers, sessionVars, mine, streamVars, talk>>

Subscribe(v) ==
    /\ pc[v] = "subscribe"
    /\ Subscribed(v)
    /\ phase' = IF mine[v] = 0 THEN phase ELSE [phase EXCEPT ![mine[v]] = "starting"]
    /\ UNCHANGED <<publisher, opened, attempts, mine, talk>>

(* join_live: poll for a publisher of any kind, then subscribe to the hub.  *)
FindPublisher(r) ==
    /\ pc[r] = "idle"
    /\ publisher # "none"
    /\ pc' = [pc EXCEPT ![r] = "found"]
    /\ UNCHANGED <<publisher, subscribers, sessionVars, mine, streamVars, talk>>

JoinLive(r) ==
    /\ pc[r] = "found"
    /\ Subscribed(r)
    /\ UNCHANGED <<publisher, sessionVars, mine, talk>>

(* recv: a frame, a gap (nothing to do), or the end of the stream. *)
Receive(r) ==
    /\ Watching(r) /\ queue[r] # << >>
    /\ IF Head(queue[r]).kind = "end"
       THEN DropSubscriber(r)
       ELSE /\ queue' = [queue EXCEPT ![r] = Tail(@)]
            /\ seen' = [seen EXCEPT ![r] = @ \cup {Head(queue[r]).session}]
            /\ UNCHANGED <<pc, subscribers, mine, lagged>>
    /\ UNCHANGED <<publisher, sessionVars, talk>>

(* The client disconnects, the clip is long enough, a timeout expires or the *)
(* still has its picture.                                                   *)
Leave(r) ==
    /\ Watching(r)
    /\ DropSubscriber(r)
    /\ UNCHANGED <<publisher, sessionVars, talk>>

-----------------------------------------------------------------------------
(* live::produce, the task that owns session s. *)

Goto(s, p) == phase' = [phase EXCEPT ![s] = p]

StartLive(s) ==
    /\ phase[s] = "starting"
    /\ Goto(s, "connecting") \/ Goto(s, "closing")
    /\ UNCHANGED <<publisher, subscribers, opened, attempts, pc, mine, streamVars, talk>>

(* One turn of receive(): nobody watches, a fatal framing error, a session   *)
(* without media or with a transport error (try again), or a stream.        *)
Connect(s) ==
    /\ phase[s] = "connecting"
    /\ \/ /\ ~ HasSubscribers \/ attempts[s] = Retries
          /\ Goto(s, "finishing")
          /\ UNCHANGED attempts
       \/ /\ HasSubscribers /\ attempts[s] < Retries
          /\ attempts' = [attempts EXCEPT ![s] = @ + 1]
          /\ Goto(s, "streaming") \/ UNCHANGED phase
    /\ UNCHANGED <<publisher, subscribers, opened, pc, mine, streamVars, talk>>

(* The frames of one read are published whoever watches. *)
PublishFrame(s) ==
    /\ phase[s] = "streaming"
    /\ Send(Frame(s))
    /\ UNCHANGED <<publisher, subscribers, sessionVars, pc, mine, talk>>

(* The one-second tick, the next frame to send or the next turn of the loop  *)
(* notices that nobody watches any more.                                    *)
StopUnwatched(s) ==
    /\ phase[s] = "streaming"
    /\ ~ HasSubscribers
    /\ Goto(s, "finishing")
    /\ UNCHANGED <<publisher, subscribers, opened, attempts, pc, mine, streamVars, talk>>

(* The camera ends the stream (done, or another attempt), or it breaks. *)
StreamEnds(s) ==
    /\ phase[s] = "streaming"
    /\ Goto(s, "finishing") \/ Goto(s, "connecting")
    /\ UNCHANGED <<publisher, subscribers, opened, attempts, pc, mine, streamVars, talk>>

(* The deadline of the session: 600 s, 75 s on battery, or Blink's own. *)
Deadline(s) ==
    /\ phase[s] \in {"connecting", "streaming"}
    /\ Goto(s, "finishing")
    /\ UNCHANGED <<publisher, subscribers, opened, attempts, pc, mine, streamVars, talk>>

FinishLive(s) ==
    /\ phase[s] = "finishing"
    /\ Goto(s, "closing")
    /\ UNCHANGED <<publisher, subscribers, opened, attempts, pc, mine, streamVars, talk>>

(* The drop of the guard: free the camera, then announce the end. *)
PublisherLeaked(s) ==
    /\ phase[s] = "closing"
    /\ Goto(s, "released")
    /\ UNCHANGED <<publisher, subscribers, opened, attempts, pc, mine, streamVars, talk>>
ReleasePublisher(s) ==
    /\ phase[s] = "closing"
    /\ publisher' = "none"
    /\ Goto(s, "released")
    /\ UNCHANGED <<subscribers, opened, attempts, pc, mine, streamVars, talk>>

EndUnsent(s) == UNCHANGED streamVars
AnnounceEnd(s) == Send(End(s))
SendEnd(s) ==
    /\ phase[s] = "released"
    /\ AnnounceEnd(s)
    /\ Goto(s, "over")
    /\ UNCHANGED <<publisher, subscribers, opened, attempts, pc, mine, talk>>

-----------------------------------------------------------------------------
(* blink_webrtc: take the camera for the whole signaling session. *)
AcquireWebrtc(t) ==
    /\ talk[t] = 0
    /\ AcquirePublisher("webrtc")
    /\ phase' = [phase EXCEPT ![opened + 1] = "signaling"]
    /\ talk' = [talk EXCEPT ![t] = opened + 1]
    /\ UNCHANGED <<subscribers, attempts, pc, mine, streamVars>>

(* No signaling target, no upgrade, no offer, a close or a deadline. *)
EndSignaling(t) ==
    /\ talk[t] # 0
    /\ phase[talk[t]] = "signaling"
    /\ Goto(talk[t], "closing")
    /\ talk' = [talk EXCEPT ![t] = 0]
    /\ UNCHANGED <<publisher, subscribers, opened, attempts, pc, mine, streamVars>>

-----------------------------------------------------------------------------
View(v) == LoadOwner(v) \/ BecomePublisher(v) \/ LoadOwnerAgain(v) \/ Subscribe(v)

Produce(s) ==
    \/ StartLive(s) \/ Connect(s) \/ PublishFrame(s) \/ StopUnwatched(s) \/ StreamEnds(s)
    \/ Deadline(s) \/ FinishLive(s) \/ ReleasePublisher(s) \/ SendEnd(s)

Next ==
    \/ \E v \in Viewers : View(v)
    \/ \E r \in Stills : FindPublisher(r) \/ JoinLive(r)
    \/ \E r \in Receivers : Receive(r) \/ Leave(r)
    \/ \E s \in Sessions : Produce(s)
    \/ \E t \in Talkers : AcquireWebrtc(t) \/ EndSignaling(t)

Spec == Init /\ [][Next]_vars

(* tokio runs a ready task and every network call of a producer has a        *)
(* timeout; a receiver reads what is queued.  Nothing makes a viewer leave,  *)
(* a camera send or a stream end.                                           *)
Progress ==
    /\ \A v \in Viewers : WF_vars(BecomePublisher(v)) /\ WF_vars(LoadOwnerAgain(v)) /\ WF_vars(Subscribe(v))
    /\ \A r \in Receivers : WF_vars(Receive(r))
    /\ \A s \in Sessions : WF_vars(StartLive(s) \/ Connect(s) \/ StopUnwatched(s)
                                     \/ FinishLive(s) \/ ReleasePublisher(s) \/ SendEnd(s))
(* The deadlines of the IMMI session and of the WebRTC session, which only   *)
(* the properties that name them assume.                                    *)
Timers ==
    /\ \A s \in Sessions : SF_vars(Deadline(s))
    /\ \A t \in Talkers : WF_vars(EndSignaling(t))
FairSpec == Spec /\ Progress

-----------------------------------------------------------------------------
Phases == {"unborn", "held", "starting", "connecting", "streaming", "signaling",
           "finishing", "closing", "released", "over"}
Message == [kind : {"data", "end"}, session : Sessions]

(* Every variable stays in its range; no receiver holds more than the ring.  *)
TypeOK ==
    /\ publisher \in {"none", "immi", "webrtc"}
    /\ subscribers \in Nat
    /\ opened \in 0 .. MaxSessions
    /\ phase \in [Sessions -> Phases]
    /\ attempts \in [Sessions -> 0 .. Retries]
    /\ pc \in [Receivers -> {"idle", "acquire", "joining", "subscribe", "found", "watching"}]
    /\ mine \in [Receivers -> 0 .. MaxSessions]
    /\ queue \in [Receivers -> Seq(Message)]
    /\ \A r \in Receivers : Len(queue[r]) <= QueueDepth
    /\ lagged \in [Receivers -> BOOLEAN]
    /\ seen \in [Receivers -> SUBSET Sessions]
    /\ talk \in [Talkers -> 0 .. MaxSessions]

Holds(s) == phase[s] \notin {"unborn", "released", "over"}

(* One Blink session per camera, IMMI or WebRTC, whoever asks for it and     *)
(* however the loads and swaps of concurrent requests interleave.           *)
OneSession == \A s, u \in Sessions : Holds(s) /\ Holds(u) => s = u

(* The camera is marked taken only while a task holds its guard: a forgotten *)
(* mark would make it busy for ever.                                        *)
TakenIsHeld == publisher # "none" => \E s \in Sessions : Holds(s)

(* A stream is not spliced for long: when a receiver that lost no message    *)
(* has read frames of two sessions (the next one began before the end of    *)
(* the last one was announced), an end is on its way to it.                 *)
EndAhead(r) ==
    \/ \E s \in seen[r] : phase[s] = "released"
    \/ \E i \in 1 .. Len(queue[r]) : queue[r][i].kind = "end"
SpliceIsBrief ==
    \A r \in Receivers :
        Watching(r) /\ ~ lagged[r] /\ Cardinality(seen[r]) > 1 => EndAhead(r)

(* The mark says what there is: one session, and never a mark without one.   *)
OneOwner == OneSession /\ TakenIsHeld

(* With nobody left to watch, the producer stops before its deadline.        *)
UnwatchedStops ==
    \A s \in Sessions :
        phase[s] \in {"connecting", "streaming"} /\ (\A r \in Receivers : ~ Watching(r))
            ~> (\E r \in Receivers : Watching(r)) \/ phase[s] = "over"

(* The viewer that started a session is told when its stream is over, even   *)
(* when it lags behind the broadcast: then at the latest when the session    *)
(* that follows reaches its deadline.                                       *)
StarterIsTold ==
    Timers =>
        \A v \in Viewers :
            Watching(v) /\ mine[v] # 0 /\ phase[mine[v]] = "over" ~> ~ Watching(v)

(* The camera does not stay taken: with the deadlines that Blink sets, every *)
(* publisher gives it back.                                                 *)
CameraIsFreed == Timers => (publisher # "none" ~> publisher = "none")

(* Every session ends for the camera and for the viewer that started it.     *)
SessionsEnd == StarterIsTold /\ CameraIsFreed

(* motion_still.rs: "Subscribe only to a live session that already has a     *)
(* publisher", the recorder's: a still joins a session that will bring it    *)
(* frames.                                                                  *)
StillJoinsLive ==
    [][\A r \in Stills : pc[r] = "found" /\ pc'[r] = "watching" => publisher = "immi"]_vars
=============================================================================
