-------------------------- MODULE CameraHubProofs --------------------------
(***************************************************************************)
(* Proofs about CameraHub for every number of viewers, stills, talkers and *)
(* sessions: type correctness (the subscriber count never wraps), one      *)
(* session at a time, and no mark without a holder.                        *)
(***************************************************************************)
EXTENDS CameraHub, FiniteSetTheorems, TLAPS

(* The inductive invariant.  The mark is the guard: the camera is marked     *)
(* exactly while some session holds it, and only one does; a viewer about   *)
(* to subscribe still owns the guard it acquired, and no two viewers the    *)
(* same; sessions not yet opened are unborn.                                *)
UnopenedIsUnborn == \A s \in Sessions : s > opened => phase[s] = "unborn"
HeldIsTaken == \A s \in Sessions : Holds(s) => publisher # "none"
GuardIsOwned ==
    \A v \in Receivers :
        /\ mine[v] <= opened
        /\ pc[v] = "subscribe" /\ mine[v] # 0 => phase[mine[v]] = "held"
OwnersDiffer ==
    \A v, w \in Receivers : mine[v] # 0 /\ mine[v] = mine[w] => v = w
StreamHasGuard ==
    \A v \in Receivers : pc[v] \in {"idle", "acquire", "joining", "found"} => mine[v] = 0
Lease ==
    /\ UnopenedIsUnborn /\ HeldIsTaken /\ OneSession /\ TakenIsHeld
    /\ GuardIsOwned /\ OwnersDiffer /\ StreamHasGuard

(* The count is the number of receivers that watch. *)
Watchers == {r \in Receivers : Watching(r)}
Counted == IsFiniteSet(Watchers) /\ subscribers = Cardinality(Watchers)

PCs == {"idle", "acquire", "joining", "subscribe", "found", "watching"}
FlagsOK ==
    /\ publisher \in {"none", "immi", "webrtc"}
    /\ phase \in [Sessions -> Phases]
    /\ pc \in [Receivers -> PCs]
    /\ lagged \in [Receivers -> BOOLEAN]
RangesOK ==
    /\ opened \in 0 .. MaxSessions
    /\ attempts \in [Sessions -> 0 .. Retries]
    /\ mine \in [Receivers -> 0 .. MaxSessions]
    /\ seen \in [Receivers -> SUBSET Sessions]
    /\ talk \in [Talkers -> 0 .. MaxSessions]
QueuesOK ==
    /\ queue \in [Receivers -> Seq(Message)]
    /\ \A r \in Receivers : Len(queue[r]) <= QueueDepth

USE DEF sessionVars, streamVars

(* A message that reaches a receiver keeps its queue within the ring. *)
LEMMA PushedFits ==
    ASSUME NEW q \in Seq(Message), Len(q) <= QueueDepth, NEW m \in Message
    PROVE Pushed(q, m) \in Seq(Message) /\ Len(Pushed(q, m)) <= QueueDepth
  <1> QueueDepth \in Nat \ {0}
    BY HubAssumption
  <1>1. CASE Len(q) < QueueDepth
    BY <1>1 DEF Pushed
  <1>2. CASE Len(q) = QueueDepth
    <2>1. q # << >>
      BY <1>2
    <2>2. Tail(q) \in Seq(Message) /\ Len(Tail(q)) = Len(q) - 1
      BY <2>1
    <2> QED
      BY <1>2, <2>2 DEF Pushed
  <1> QED
    BY <1>1, <1>2

LEMMA FlagsStep == FlagsOK /\ [Next]_vars => FlagsOK'
  <1> SUFFICES ASSUME FlagsOK, [Next]_vars PROVE FlagsOK'
    OBVIOUS
  <1> USE DEF FlagsOK
  <1>s. Viewers \subseteq Receivers /\ Stills \subseteq Receivers
    BY DEF Receivers
  <1>a. ASSUME NEW r \in Receivers, Forget(r) PROVE pc' \in [Receivers -> PCs] /\ lagged' \in [Receivers -> BOOLEAN]
    BY <1>a DEF Forget, PCs
  <1>b. ASSUME NEW m, Send(m) PROVE lagged' \in [Receivers -> BOOLEAN]
    BY <1>b DEF Send
  <1>1. ASSUME NEW v \in Viewers, View(v) PROVE FlagsOK'
    BY <1>1, <1>s DEF View, LoadOwner, BecomePublisher, LoadOwnerAgain, Subscribe, AcquirePublisher,
       Subscribed, PCs, Phases
  <1>2. ASSUME NEW r \in Stills, FindPublisher(r) \/ JoinLive(r) PROVE FlagsOK'
    BY <1>2, <1>s DEF FindPublisher, JoinLive, Subscribed, PCs
  <1>3. ASSUME NEW r \in Receivers, Receive(r) PROVE FlagsOK'
    <2>1. CASE DropSubscriber(r)
      BY <1>3, <2>1, <1>a DEF Receive, DropSubscriber
    <2>2. CASE UNCHANGED <<pc, lagged>>
      BY <1>3, <2>2 DEF Receive
    <2> QED
      BY <1>3, <2>1, <2>2 DEF Receive
  <1>4. ASSUME NEW r \in Receivers, Leave(r) PROVE FlagsOK'
    BY <1>4, <1>a DEF Leave, DropSubscriber
  <1>5. ASSUME NEW s \in Sessions, Produce(s) PROVE FlagsOK'
    <2>1. CASE PublishFrame(s)
      BY <2>1, <1>b DEF PublishFrame
    <2>2. CASE SendEnd(s)
      BY <2>2, <1>b DEF SendEnd, AnnounceEnd, Goto, Phases
    <2> QED
      BY <1>5, <2>1, <2>2 DEF Produce, StartLive, Connect, StopUnwatched, StreamEnds, Deadline,
         FinishLive, ReleasePublisher, Goto, Phases
  <1>6. ASSUME NEW t \in Talkers, AcquireWebrtc(t) \/ EndSignaling(t) PROVE FlagsOK'
    BY <1>6 DEF AcquireWebrtc, EndSignaling, AcquirePublisher, Goto, Phases
  <1>7. CASE UNCHANGED vars
    BY <1>7 DEF vars
  <1> QED
    BY <1>1, <1>2, <1>3, <1>4, <1>5, <1>6, <1>7 DEF Next

LEMMA QueuesStep == QueuesOK /\ [Next]_vars => QueuesOK'
  <1> SUFFICES ASSUME QueuesOK, [Next]_vars PROVE QueuesOK'
    OBVIOUS
  <1> USE DEF QueuesOK
  <1>h. QueueDepth \in Nat \ {0}
    BY HubAssumption
  <1>a. ASSUME NEW r \in Receivers, Forget(r) PROVE QueuesOK'
    BY <1>a, <1>h DEF Forget
  <1>b. ASSUME NEW m \in Message, Send(m) PROVE QueuesOK'
    BY <1>b, PushedFits DEF Send
  <1>c. ASSUME UNCHANGED queue PROVE QueuesOK'
    BY <1>c
  <1>3. ASSUME NEW r \in Receivers, Receive(r) PROVE QueuesOK'
    <2>1. CASE DropSubscriber(r)
      BY <2>1, <1>a DEF DropSubscriber
    <2>2. CASE queue' = [queue EXCEPT ![r] = Tail(@)]
      <3>1. queue[r] \in Seq(Message) /\ queue[r] # << >>
        BY <1>3 DEF Receive
      <3>2. Tail(queue[r]) \in Seq(Message) /\ Len(Tail(queue[r])) = Len(queue[r]) - 1
        BY <3>1
      <3> QED
        BY <2>2, <3>1, <3>2, <1>h
    <2> QED
      BY <1>3, <2>1, <2>2 DEF Receive
  <1>4. ASSUME NEW r \in Receivers, Leave(r) PROVE QueuesOK'
    BY <1>4, <1>a DEF Leave, DropSubscriber
  <1>5. ASSUME NEW s \in Sessions, PublishFrame(s) \/ SendEnd(s) PROVE QueuesOK'
    <2>1. Frame(s) \in Message /\ End(s) \in Message
      BY DEF Frame, End, Message
    <2> QED
      BY <1>5, <2>1, <1>b DEF PublishFrame, SendEnd, AnnounceEnd
  <1> QED
    BY <1>c, <1>3, <1>4, <1>5 DEF Next, View, LoadOwner, BecomePublisher, LoadOwnerAgain, Subscribe,
       Subscribed, FindPublisher, JoinLive, Produce, StartLive, Connect, StopUnwatched, StreamEnds,
       Deadline, FinishLive, ReleasePublisher, AcquireWebrtc, EndSignaling, vars

LEMMA RangesStep == QueuesOK /\ RangesOK /\ [Next]_vars => RangesOK'
  <1> SUFFICES ASSUME QueuesOK, RangesOK, [Next]_vars PROVE RangesOK'
    OBVIOUS
  <1> USE DEF RangesOK
  <1>h. MaxSessions \in Nat /\ Retries \in Nat \ {0}
    BY HubAssumption
  <1>s. Viewers \subseteq Receivers /\ Sessions = 1 .. MaxSessions
    BY DEF Receivers, Sessions
  <1>a. ASSUME NEW r \in Receivers, Forget(r)
        PROVE mine' \in [Receivers -> 0 .. MaxSessions] /\ seen' \in [Receivers -> SUBSET Sessions]
    BY <1>a, <1>h DEF Forget
  <1>o. ASSUME NEW owner, AcquirePublisher(owner)
        PROVE opened + 1 \in 1 .. MaxSessions /\ opened' = opened + 1
    BY <1>o, <1>h DEF AcquirePublisher
  <1>1. ASSUME NEW v \in Viewers, View(v) PROVE RangesOK'
    <2>1. CASE BecomePublisher(v)
      <3>1. CASE AcquirePublisher("immi") /\ mine' = [mine EXCEPT ![v] = opened + 1]
        <4>1. opened + 1 \in 0 .. MaxSessions /\ opened' \in 0 .. MaxSessions
          BY <3>1, <1>o, <1>h
        <4>2. mine' \in [Receivers -> 0 .. MaxSessions]
          BY <3>1, <4>1, <1>s
        <4> QED
          BY <2>1, <4>1, <4>2 DEF BecomePublisher
      <3>2. CASE UNCHANGED <<opened, mine>>
        BY <2>1, <3>2 DEF BecomePublisher
      <3> QED
        BY <2>1, <3>1, <3>2 DEF BecomePublisher
    <2> QED
      BY <1>1, <2>1 DEF View, LoadOwner, LoadOwnerAgain, Subscribe, Subscribed
  <1>2. ASSUME NEW r \in Stills, FindPublisher(r) \/ JoinLive(r) PROVE RangesOK'
    BY <1>2 DEF FindPublisher, JoinLive, Subscribed
  <1>3. ASSUME NEW r \in Receivers, Receive(r) PROVE RangesOK'
    <2>1. CASE Head(queue[r]).kind = "end"
      BY <1>3, <2>1, <1>a DEF Receive, DropSubscriber
    <2>2. CASE Head(queue[r]).kind # "end"
      <3>1. Head(queue[r]) \in Message
        BY <1>3 DEF Receive, QueuesOK
      <3>2. Head(queue[r]).session \in Sessions
        BY <3>1 DEF Message
      <3>3. \A x \in Sessions : [seen EXCEPT ![r] = @ \cup {x}] \in [Receivers -> SUBSET Sessions]
        OBVIOUS
      <3>4. seen' = [seen EXCEPT ![r] = @ \cup {Head(queue[r]).session}]
        BY <1>3, <2>2 DEF Receive
      <3> QED
        BY <1>3, <2>2, <3>2, <3>3, <3>4 DEF Receive
    <2> QED
      BY <2>1, <2>2
  <1>4. ASSUME NEW r \in Receivers, Leave(r) PROVE RangesOK'
    BY <1>4, <1>a DEF Leave, DropSubscriber
  <1>5. ASSUME NEW s \in Sessions, Produce(s) PROVE RangesOK'
    <2>1. CASE Connect(s)
      BY <2>1, <1>h DEF Connect
    <2> QED
      BY <1>5, <2>1 DEF Produce, StartLive, PublishFrame, Send, StopUnwatched, StreamEnds, Deadline,
         FinishLive, ReleasePublisher, SendEnd, AnnounceEnd
  <1>6. ASSUME NEW t \in Talkers, AcquireWebrtc(t) \/ EndSignaling(t) PROVE RangesOK'
    BY <1>6, <1>o, <1>h DEF AcquireWebrtc, EndSignaling
  <1>7. CASE UNCHANGED vars
    BY <1>7 DEF vars
  <1> QED
    BY <1>1, <1>2, <1>3, <1>4, <1>5, <1>6, <1>7 DEF Next

Typed == FlagsOK /\ RangesOK /\ QueuesOK

(* A step that changes no phase and no mark, and only lets receivers move    *)
(* without a guard, keeps the lease.                                        *)
LEMMA LeaseOfReceivers ==
    ASSUME Typed, Lease, UNCHANGED <<publisher, opened, phase>>,
           \A v \in Receivers :
               \/ pc'[v] = pc[v] /\ mine'[v] = mine[v]
               \/ mine'[v] = 0
    PROVE Lease'
  <1>h. opened \in Nat
    BY HubAssumption DEF Typed, RangesOK
  <1>1. (UnopenedIsUnborn /\ HeldIsTaken /\ OneSession /\ TakenIsHeld)'
    BY DEF Lease, UnopenedIsUnborn, HeldIsTaken, OneSession, TakenIsHeld, Holds
  <1>2. GuardIsOwned' /\ OwnersDiffer' /\ StreamHasGuard'
    BY <1>h DEF Lease, GuardIsOwned, OwnersDiffer, StreamHasGuard
  <1> QED
    BY <1>1, <1>2 DEF Lease

(* So does a producer that goes on while it holds its guard. *)
LEMMA LeaseOfHolder ==
    ASSUME Typed, Lease, UNCHANGED <<publisher, opened, pc, mine>>, NEW s \in Sessions,
           Holds(s), phase[s] # "held",
           NEW p \in Phases \ {"unborn", "released", "over"},
           phase' = [phase EXCEPT ![s] = p]
    PROVE Lease'
  <1>1. phase'[s] = p /\ \A u \in Sessions : u # s => phase'[u] = phase[u]
    BY DEF Typed, FlagsOK
  <1>2. \A u \in Sessions : Holds(u)' <=> Holds(u)
    BY <1>1 DEF Holds
  <1>3. (UnopenedIsUnborn /\ HeldIsTaken /\ OneSession /\ TakenIsHeld)'
    BY <1>1, <1>2 DEF Lease, UnopenedIsUnborn, HeldIsTaken, OneSession, TakenIsHeld, Holds
  <1>4. GuardIsOwned'
    <2>1. \A v \in Receivers : mine[v] # 0 => mine[v] \in Sessions
      BY HubAssumption DEF Typed, RangesOK, Sessions
    <2> QED
      BY <1>1, <2>1 DEF Lease, GuardIsOwned
  <1>5. OwnersDiffer' /\ StreamHasGuard'
    BY DEF Lease, OwnersDiffer, StreamHasGuard
  <1> QED
    BY <1>3, <1>4, <1>5 DEF Lease

(* A new guard: nobody held the camera, and the session is a fresh one. *)
LEMMA LeaseOfOpener ==
    ASSUME Typed, Lease, NEW owner \in {"immi", "webrtc"}, AcquirePublisher(owner),
           NEW p \in {"held", "signaling"}, phase' = [phase EXCEPT ![opened + 1] = p]
    PROVE /\ opened + 1 \in Sessions /\ phase'[opened + 1] = p
          /\ \A u \in Sessions : u # opened + 1 => phase'[u] = phase[u] /\ ~ Holds(u)
          /\ (UnopenedIsUnborn /\ HeldIsTaken /\ OneSession /\ TakenIsHeld)'
  <1>1. opened \in Nat /\ opened + 1 \in Sessions /\ opened' = opened + 1
    BY HubAssumption DEF Typed, RangesOK, Sessions, AcquirePublisher
  <1>2. phase'[opened + 1] = p /\ \A u \in Sessions : u # opened + 1 => phase'[u] = phase[u]
    BY <1>1 DEF Typed, FlagsOK
  <1>3. \A u \in Sessions : ~ Holds(u)
    BY DEF Lease, HeldIsTaken, AcquirePublisher
  <1>4. phase'[opened + 1] \notin {"unborn", "released", "over"}
    BY <1>2
  <1>5. UnopenedIsUnborn'
    <2> SUFFICES ASSUME NEW u \in Sessions, u > opened' PROVE phase'[u] = "unborn"
      BY DEF UnopenedIsUnborn
    <2>1. u > opened /\ u # opened + 1
      BY <1>1, HubAssumption DEF Sessions
    <2> QED
      BY <2>1, <1>2 DEF Lease, UnopenedIsUnborn
  <1>6. OneSession'
    BY <1>2, <1>3 DEF OneSession, Holds
  <1>7. HeldIsTaken' /\ TakenIsHeld'
    <2>1. publisher' # "none"
      BY DEF AcquirePublisher
    <2>2. \E u \in Sessions : phase'[u] \notin {"unborn", "released", "over"}
      BY <1>1, <1>4
    <2> QED
      BY <2>1, <2>2 DEF HeldIsTaken, TakenIsHeld, Holds
  <1> QED
    BY <1>1, <1>2, <1>3, <1>5, <1>6, <1>7

LEMMA LeaseStep == Typed /\ Lease /\ [Next]_vars => Lease'
  <1> SUFFICES ASSUME Typed, Lease, [Next]_vars PROVE Lease'
    OBVIOUS
  <1>s. Viewers \subseteq Receivers /\ Stills \subseteq Receivers
    BY DEF Receivers
  <1>t. pc \in [Receivers -> PCs] /\ mine \in [Receivers -> 0 .. MaxSessions] /\ opened \in Nat
    BY HubAssumption DEF Typed, FlagsOK, RangesOK
  <1>f. ASSUME NEW r \in Receivers, Forget(r)
        PROVE \A v \in Receivers : (pc'[v] = pc[v] /\ mine'[v] = mine[v]) \/ mine'[v] = 0
    BY <1>f, <1>t DEF Forget
  <1>1. ASSUME NEW v \in Viewers, LoadOwner(v) PROVE Lease'
    BY <1>1, <1>s, <1>t, LeaseOfReceivers DEF LoadOwner, Lease, StreamHasGuard
  <1>2. ASSUME NEW v \in Viewers, BecomePublisher(v) PROVE Lease'
    <2>1. CASE AcquirePublisher("immi") /\ phase' = [phase EXCEPT ![opened + 1] = "held"]
               /\ mine' = [mine EXCEPT ![v] = opened + 1] /\ pc' = [pc EXCEPT ![v] = "subscribe"]
      <3>1. /\ opened + 1 \in Sessions /\ phase'[opened + 1] = "held"
            /\ \A u \in Sessions : u # opened + 1 => phase'[u] = phase[u] /\ ~ Holds(u)
            /\ (UnopenedIsUnborn /\ HeldIsTaken /\ OneSession /\ TakenIsHeld)'
        BY <2>1, LeaseOfOpener
      <3>2. opened' = opened + 1
        BY <2>1 DEF AcquirePublisher
      <3>3. \A w \in Receivers : mine[w] # opened + 1 /\ mine[w] <= opened'
        BY <1>t, <3>2 DEF Lease, GuardIsOwned
      <3>4. mine'[v] = opened + 1 /\ pc'[v] = "subscribe"
            /\ \A w \in Receivers : w # v => mine'[w] = mine[w] /\ pc'[w] = pc[w]
        BY <2>1, <1>s, <1>t
      <3>5. \A w \in Receivers : mine[w] # 0 => mine[w] \in Sessions
        BY <1>t, HubAssumption DEF Sessions
      <3>6. GuardIsOwned'
        <4>1. ASSUME NEW w \in Receivers, w # v
              PROVE mine'[w] <= opened' /\ (pc'[w] = "subscribe" /\ mine'[w] # 0 => phase'[mine'[w]] = "held")
          BY <4>1, <3>1, <3>3, <3>4, <3>5 DEF Lease, GuardIsOwned
        <4>2. mine'[v] <= opened' /\ phase'[mine'[v]] = "held"
          BY <3>1, <3>2, <3>4, <1>t
        <4> QED
          BY <4>1, <4>2 DEF GuardIsOwned
      <3>7. OwnersDiffer' /\ StreamHasGuard'
        BY <3>3, <3>4 DEF Lease, OwnersDiffer, StreamHasGuard
      <3> QED
        BY <3>1, <3>6, <3>7 DEF Lease
    <2>2. CASE pc' = [pc EXCEPT ![v] = "joining"] /\ UNCHANGED <<publisher, opened, phase, mine>>
      BY <1>2, <2>2, <1>s, <1>t, LeaseOfReceivers DEF BecomePublisher, Lease, StreamHasGuard
    <2> QED
      BY <1>2, <2>1, <2>2 DEF BecomePublisher
  <1>3. ASSUME NEW v \in Viewers, LoadOwnerAgain(v) PROVE Lease'
    BY <1>3, <1>s, <1>t, LeaseOfReceivers DEF LoadOwnerAgain, Lease, StreamHasGuard
  <1>4. ASSUME NEW v \in Viewers, Subscribe(v) PROVE Lease'
    <2>1. CASE mine[v] = 0
      BY <1>4, <2>1, <1>s, <1>t, LeaseOfReceivers DEF Subscribe, Subscribed
    <2>2. CASE mine[v] # 0
      <3>1. mine[v] \in Sessions /\ phase[mine[v]] = "held"
        BY <1>4, <2>2, <1>s, <1>t, HubAssumption DEF Subscribe, Lease, GuardIsOwned, Sessions
      <3>2. phase' = [phase EXCEPT ![mine[v]] = "starting"]
            /\ pc' = [pc EXCEPT ![v] = "watching"] /\ UNCHANGED <<publisher, opened, mine>>
        BY <1>4, <2>2 DEF Subscribe, Subscribed
      <3>3. phase'[mine[v]] = "starting" /\ \A u \in Sessions : u # mine[v] => phase'[u] = phase[u]
        BY <3>1, <3>2 DEF Typed, FlagsOK
      <3>4. \A u \in Sessions : Holds(u)' <=> Holds(u)
        BY <3>1, <3>3 DEF Holds
      <3>5. (UnopenedIsUnborn /\ HeldIsTaken /\ OneSession /\ TakenIsHeld)'
        BY <3>1, <3>2, <3>3, <3>4 DEF Lease, UnopenedIsUnborn, HeldIsTaken, OneSession, TakenIsHeld
      <3>6. \A w \in Receivers : w # v => pc'[w] = pc[w] /\ mine[w] # mine[v]
        BY <3>2, <2>2, <1>s, <1>t DEF Lease, OwnersDiffer
      <3>7. pc'[v] = "watching"
        BY <3>2, <1>s, <1>t
      <3>8. \A w \in Receivers : mine[w] # 0 => mine[w] \in Sessions
        BY <1>t, HubAssumption DEF Sessions
      <3>9. GuardIsOwned' /\ OwnersDiffer' /\ StreamHasGuard'
        BY <3>2, <3>3, <3>6, <3>7, <3>8 DEF Lease, GuardIsOwned, OwnersDiffer, StreamHasGuard
      <3> QED
        BY <3>5, <3>9 DEF Lease
    <2> QED
      BY <2>1, <2>2
  <1>5. ASSUME NEW r \in Stills, FindPublisher(r) \/ JoinLive(r) PROVE Lease'
    BY <1>5, <1>s, <1>t, LeaseOfReceivers DEF FindPublisher, JoinLive, Subscribed, Lease, StreamHasGuard
  <1>6. ASSUME NEW r \in Receivers, Receive(r) \/ Leave(r) PROVE Lease'
    <2>1. CASE DropSubscriber(r)
      BY <1>6, <2>1, <1>f, LeaseOfReceivers DEF Receive, Leave, DropSubscriber
    <2>2. CASE UNCHANGED <<pc, mine>>
      BY <1>6, <2>2, LeaseOfReceivers DEF Receive, Leave
    <2> QED
      BY <1>6, <2>1, <2>2 DEF Receive, Leave
  <1>7. ASSUME NEW s \in Sessions, ReleasePublisher(s) PROVE Lease'
    <2>1. /\ publisher' = "none" /\ UNCHANGED <<opened, pc, mine>>
          /\ phase[s] = "closing" /\ phase' = [phase EXCEPT ![s] = "released"]
      BY <1>7 DEF ReleasePublisher, Goto
    <2>2. phase'[s] = "released" /\ \A u \in Sessions : u # s => phase'[u] = phase[u]
      BY <2>1 DEF Typed, FlagsOK
    <2>3. \A u \in Sessions : ~ Holds(u)'
      BY <2>1, <2>2 DEF Lease, OneSession, Holds
    <2>4. (UnopenedIsUnborn /\ HeldIsTaken /\ OneSession /\ TakenIsHeld)'
      BY <2>1, <2>2, <2>3 DEF Lease, UnopenedIsUnborn, HeldIsTaken, OneSession, TakenIsHeld
    <2>5. \A v \in Receivers : mine[v] # 0 => mine[v] \in Sessions
      BY <1>t, HubAssumption DEF Sessions
    <2>6. GuardIsOwned' /\ OwnersDiffer' /\ StreamHasGuard'
      BY <2>1, <2>2, <2>5 DEF Lease, GuardIsOwned, OwnersDiffer, StreamHasGuard
    <2> QED
      BY <2>4, <2>6 DEF Lease
  <1>8. ASSUME NEW s \in Sessions, SendEnd(s) PROVE Lease'
    <2>1. /\ UNCHANGED <<publisher, opened, pc, mine>>
          /\ phase[s] = "released" /\ phase' = [phase EXCEPT ![s] = "over"]
      BY <1>8 DEF SendEnd, Goto
    <2>2. phase'[s] = "over" /\ \A u \in Sessions : u # s => phase'[u] = phase[u]
      BY <2>1 DEF Typed, FlagsOK
    <2>3. \A u \in Sessions : Holds(u)' <=> Holds(u)
      BY <2>1, <2>2 DEF Holds
    <2>4. (UnopenedIsUnborn /\ HeldIsTaken /\ OneSession /\ TakenIsHeld)'
      BY <2>1, <2>2, <2>3 DEF Lease, UnopenedIsUnborn, HeldIsTaken, OneSession, TakenIsHeld
    <2>5. \A v \in Receivers : mine[v] # 0 => mine[v] \in Sessions
      BY <1>t, HubAssumption DEF Sessions
    <2>6. GuardIsOwned' /\ OwnersDiffer' /\ StreamHasGuard'
      BY <2>1, <2>2, <2>5 DEF Lease, GuardIsOwned, OwnersDiffer, StreamHasGuard
    <2> QED
      BY <2>4, <2>6 DEF Lease
  <1>9. ASSUME NEW s \in Sessions,
               \/ StartLive(s) \/ Connect(s) \/ StopUnwatched(s) \/ StreamEnds(s)
               \/ Deadline(s) \/ FinishLive(s)
        PROVE Lease'
    <2>1. Holds(s) /\ phase[s] # "held" /\ UNCHANGED <<publisher, opened, pc, mine>>
      BY <1>9 DEF Holds, StartLive, Connect, StopUnwatched, StreamEnds, Deadline, FinishLive
    <2>2. CASE UNCHANGED phase
      BY <2>1, <2>2, LeaseOfReceivers
    <2>3. CASE \E p \in {"connecting", "closing", "finishing", "streaming"} :
                 phase' = [phase EXCEPT ![s] = p]
      BY <2>1, <2>3, LeaseOfHolder DEF Phases
    <2> QED
      BY <1>9, <2>2, <2>3
         DEF StartLive, Connect, StopUnwatched, StreamEnds, Deadline, FinishLive, Goto
  <1>10. ASSUME NEW s \in Sessions, PublishFrame(s) PROVE Lease'
    BY <1>10, LeaseOfReceivers DEF PublishFrame
  <1>11. ASSUME NEW t \in Talkers, AcquireWebrtc(t) PROVE Lease'
    <2>1. /\ opened + 1 \in Sessions
          /\ \A u \in Sessions : u # opened + 1 => phase'[u] = phase[u] /\ ~ Holds(u)
          /\ (UnopenedIsUnborn /\ HeldIsTaken /\ OneSession /\ TakenIsHeld)'
      BY <1>11, LeaseOfOpener DEF AcquireWebrtc
    <2>2. opened' = opened + 1 /\ UNCHANGED <<pc, mine>>
      BY <1>11 DEF AcquireWebrtc, AcquirePublisher
    <2>3. \A w \in Receivers :
             /\ mine[w] # opened + 1 /\ mine[w] <= opened'
             /\ mine[w] # 0 => mine[w] \in Sessions
      BY <1>t, <2>2, HubAssumption DEF Lease, GuardIsOwned, Sessions
    <2>4. GuardIsOwned' /\ OwnersDiffer' /\ StreamHasGuard'
      BY <2>1, <2>2, <2>3 DEF Lease, GuardIsOwned, OwnersDiffer, StreamHasGuard
    <2> QED
      BY <2>1, <2>4 DEF Lease
  <1>12. ASSUME NEW t \in Talkers, EndSignaling(t) PROVE Lease'
    <2>1. talk[t] \in Sessions
      BY <1>12, HubAssumption DEF EndSignaling, Typed, RangesOK, Sessions
    <2>2. Holds(talk[t]) /\ phase[talk[t]] # "held"
      BY <1>12 DEF EndSignaling, Holds
    <2> QED
      BY <1>12, <2>1, <2>2, LeaseOfHolder DEF EndSignaling, Goto, Phases
  <1>13. CASE UNCHANGED vars
    BY <1>13, LeaseOfReceivers DEF vars
  <1> QED
    BY <1>1, <1>2, <1>3, <1>4, <1>5, <1>6, <1>7, <1>8, <1>9, <1>10, <1>11, <1>12, <1>13
       DEF Next, View, Produce

(* One receiver starts or stops to watch. *)
LEMMA OneMore ==
    ASSUME Typed, Counted, NEW r \in Receivers, ~ Watching(r), Subscribed(r)
    PROVE Counted'
  <1>1. Watchers' = Watchers \cup {r} /\ r \notin Watchers
    BY DEF Typed, FlagsOK, Watchers, Watching, Subscribed
  <1>2. IsFiniteSet(Watchers') /\ Cardinality(Watchers') = Cardinality(Watchers) + 1
    BY <1>1, FS_AddElement DEF Counted
  <1> QED
    BY <1>2 DEF Counted, Subscribed

LEMMA OneLess ==
    ASSUME Typed, Counted, NEW r \in Receivers, Watching(r), DropSubscriber(r)
    PROVE Counted'
  <1>1. Watchers' = Watchers \ {r} /\ r \in Watchers
    BY DEF Typed, FlagsOK, Watchers, Watching, DropSubscriber, Forget
  <1>2. IsFiniteSet(Watchers') /\ Cardinality(Watchers') = Cardinality(Watchers) - 1
    BY <1>1, FS_RemoveElement DEF Counted
  <1> QED
    BY <1>2 DEF Counted, DropSubscriber

LEMMA NoneMore ==
    ASSUME Counted, UNCHANGED subscribers, \A r \in Receivers : Watching(r)' <=> Watching(r)
    PROVE Counted'
  BY DEF Counted, Watchers

LEMMA CountedStep == Typed /\ Counted /\ [Next]_vars => Counted'
  <1> SUFFICES ASSUME Typed, Counted, [Next]_vars PROVE Counted'
    OBVIOUS
  <1>s. Viewers \subseteq Receivers /\ Stills \subseteq Receivers
    BY DEF Receivers
  <1>t. pc \in [Receivers -> PCs]
    BY DEF Typed, FlagsOK
  <1>1. ASSUME NEW v \in Viewers, LoadOwner(v) \/ BecomePublisher(v) \/ LoadOwnerAgain(v) PROVE Counted'
    <2>1. \A r \in Receivers : Watching(r)' <=> Watching(r)
      BY <1>1, <1>s, <1>t DEF LoadOwner, BecomePublisher, LoadOwnerAgain, Watching
    <2> QED
      BY <1>1, <2>1, NoneMore DEF LoadOwner, BecomePublisher, LoadOwnerAgain
  <1>2. ASSUME NEW r \in Stills, FindPublisher(r) PROVE Counted'
    <2>1. \A w \in Receivers : Watching(w)' <=> Watching(w)
      BY <1>2, <1>s, <1>t DEF FindPublisher, Watching
    <2> QED
      BY <1>2, <2>1, NoneMore DEF FindPublisher
  <1>3. ASSUME NEW v \in Viewers, Subscribe(v) PROVE Counted'
    BY <1>3, <1>s, OneMore DEF Subscribe, Watching
  <1>4. ASSUME NEW r \in Stills, JoinLive(r) PROVE Counted'
    BY <1>4, <1>s, OneMore DEF JoinLive, Watching
  <1>5. ASSUME NEW r \in Receivers, Receive(r) \/ Leave(r) PROVE Counted'
    <2>1. CASE DropSubscriber(r)
      BY <1>5, <2>1, OneLess DEF Receive, Leave
    <2>2. CASE UNCHANGED <<pc, subscribers>>
      BY <2>2, NoneMore DEF Watching
    <2> QED
      BY <1>5, <2>1, <2>2 DEF Receive, Leave
  <1>6. CASE UNCHANGED <<pc, subscribers>>
    BY <1>6, NoneMore DEF Watching
  <1>7. ASSUME NEW s \in Sessions, Produce(s) PROVE UNCHANGED <<pc, subscribers>>
    BY <1>7 DEF Produce, StartLive, Connect, PublishFrame, StopUnwatched, StreamEnds, Deadline,
       FinishLive, ReleasePublisher, SendEnd
  <1> QED
    BY <1>1, <1>2, <1>3, <1>4, <1>5, <1>6, <1>7
       DEF Next, View, AcquireWebrtc, EndSignaling, vars

(* What a receiver that lost no message has heard of: unless an end is in    *)
(* its queue, every session it has read or will read a frame of has still   *)
(* to announce its end.  A receiver that does not watch has heard nothing.  *)
Unannounced(s) == phase[s] \notin {"unborn", "over"}
EndQueued(r) == \E i \in 1 .. Len(queue[r]) : queue[r][i].kind = "end"
HeardIsOpen(r) ==
    /\ \A s \in seen[r] : Unannounced(s)
    /\ \A i \in 1 .. Len(queue[r]) :
          queue[r][i].kind = "data" => Unannounced(queue[r][i].session)
Hears(r) == lagged[r] \/ EndQueued(r) \/ HeardIsOpen(r)
Streams ==
    \A r \in Receivers :
        /\ Watching(r) => Hears(r)
        /\ ~ Watching(r) => queue[r] = << >> /\ seen[r] = {}

(* A session that moves on without announcing its end changes nothing here.  *)
LEMMA StreamsUnheard ==
    ASSUME Typed, Streams, UNCHANGED streamVars,
           \A r \in Receivers : Watching(r)' <=> Watching(r),
           \A s \in Sessions : Unannounced(s) => phase'[s] \notin {"unborn", "over"}
    PROVE Streams'
  <1>1. \A r \in Receivers : HeardIsOpen(r) => HeardIsOpen(r)'
    <2> SUFFICES ASSUME NEW r \in Receivers, HeardIsOpen(r) PROVE HeardIsOpen(r)'
      OBVIOUS
    <2>1. seen[r] \subseteq Sessions /\ queue[r] \in Seq(Message)
      BY DEF Typed, RangesOK, QueuesOK
    <2>2. \A i \in 1 .. Len(queue[r]) : queue[r][i].session \in Sessions
      <3>1. \A i \in 1 .. Len(queue[r]) : queue[r][i] \in Message
        BY <2>1
      <3> QED
        BY <3>1 DEF Message
    <2> QED
      BY <2>1, <2>2 DEF HeardIsOpen, Unannounced
  <1> QED
    BY <1>1 DEF Streams, Hears, EndQueued

(* One receiver changes and the others see nothing of it. *)
LEMMA StreamsOfOne ==
    ASSUME Streams, NEW r \in Receivers, UNCHANGED phase,
           \A w \in Receivers :
              w # r => /\ pc'[w] = pc[w] /\ queue'[w] = queue[w]
                       /\ seen'[w] = seen[w] /\ lagged'[w] = lagged[w],
           Watching(r)' => Hears(r)',
           ~ Watching(r)' => queue'[r] = << >> /\ seen'[r] = {}
    PROVE Streams'
  <1>1. ASSUME NEW w \in Receivers, w # r
        PROVE (Watching(w)' => Hears(w)') /\ (~ Watching(w)' => queue'[w] = << >> /\ seen'[w] = {})
    BY <1>1 DEF Streams, Hears, EndQueued, HeardIsOpen, Unannounced, Watching
  <1> QED
    BY <1>1 DEF Streams

(* A frame of a session that goes on, or the end of one, reaches everybody.  *)
LEMMA StreamsOfSend ==
    ASSUME Typed, Streams, NEW m \in Message, Send(m), UNCHANGED pc,
           \/ m.kind = "end"
           \/ m.kind = "data" /\ UNCHANGED phase /\ Unannounced(m.session)
    PROVE Streams'
  <1> SUFFICES ASSUME NEW r \in Receivers
               PROVE /\ Watching(r)' => Hears(r)'
                     /\ ~ Watching(r)' => queue'[r] = << >> /\ seen'[r] = {}
    BY DEF Streams
  <1>q. /\ queue'[r] = IF Watching(r) THEN Pushed(queue[r], m) ELSE queue[r]
        /\ lagged'[r] = (lagged[r] \/ (Watching(r) /\ Len(queue[r]) = QueueDepth))
        /\ seen'[r] = seen[r] /\ (Watching(r)' <=> Watching(r))
    BY DEF Send, Watching
  <1>1. CASE ~ Watching(r)
    BY <1>1, <1>q DEF Streams
  <1>2. CASE Watching(r) /\ Len(queue[r]) = QueueDepth
    BY <1>2, <1>q DEF Hears
  <1>3. CASE Watching(r) /\ Len(queue[r]) # QueueDepth
    <2> SUFFICES Hears(r)'
      BY <1>3, <1>q
    <2>1. queue[r] \in Seq(Message) /\ QueueDepth \in Nat /\ Len(queue[r]) < QueueDepth
      BY <1>3, HubAssumption DEF Typed, QueuesOK
    <2>2. queue'[r] = Append(queue[r], m) /\ seen'[r] = seen[r] /\ lagged'[r] = lagged[r]
      BY <1>3, <1>q, <2>1 DEF Pushed, Typed, FlagsOK
    <2>3. /\ Len(queue'[r]) = Len(queue[r]) + 1 /\ queue'[r][Len(queue[r]) + 1] = m
          /\ \A i \in 1 .. Len(queue[r]) : queue'[r][i] = queue[r][i]
          /\ Len(queue[r]) \in Nat
      BY <2>1, <2>2
    <2>4. CASE m.kind = "end"
      BY <2>3, <2>4 DEF Hears, EndQueued
    <2>5. CASE m.kind = "data" /\ UNCHANGED phase /\ Unannounced(m.session)
      <3>1. EndQueued(r) => EndQueued(r)'
        BY <2>3 DEF EndQueued
      <3>2. HeardIsOpen(r) => HeardIsOpen(r)'
        BY <2>2, <2>3, <2>5 DEF HeardIsOpen, Unannounced
      <3>3. Hears(r)
        BY <1>3 DEF Streams
      <3> QED
        BY <2>2, <3>1, <3>2, <3>3 DEF Hears
    <2> QED
      BY <2>4, <2>5
  <1> QED
    BY <1>1, <1>2, <1>3

(* A receiver reads a frame: what was ahead of it is now behind it. *)
LEMMA StreamsOfRead ==
    ASSUME Typed, Streams, NEW r \in Receivers, Receive(r), Head(queue[r]).kind # "end"
    PROVE Streams'
  <1>1. queue[r] \in Seq(Message) /\ queue[r] # << >> /\ Watching(r)
    BY DEF Receive, Typed, QueuesOK
  <1>2. /\ queue'[r] = Tail(queue[r])
        /\ seen'[r] = seen[r] \cup {Head(queue[r]).session}
        /\ UNCHANGED <<pc, lagged, phase>>
        /\ \A w \in Receivers : w # r => queue'[w] = queue[w] /\ seen'[w] = seen[w]
    BY DEF Receive, Typed, RangesOK, QueuesOK
  <1>3. /\ Len(queue'[r]) = Len(queue[r]) - 1 /\ Len(queue[r]) \in Nat \ {0}
        /\ \A i \in 1 .. Len(queue'[r]) : queue'[r][i] = queue[r][i + 1]
    BY <1>1, <1>2
  <1>4. Head(queue[r]) = queue[r][1] /\ Head(queue[r]).kind = "data"
    <2>1. Head(queue[r]) = queue[r][1] /\ Head(queue[r]) \in Message
      BY <1>1
    <2> QED
      BY <2>1 DEF Message
  <1>5. EndQueued(r) => EndQueued(r)'
    <2> SUFFICES ASSUME NEW i \in 1 .. Len(queue[r]), queue[r][i].kind = "end"
                 PROVE EndQueued(r)'
      BY DEF EndQueued
    <2>1. i # 1 /\ i - 1 \in 1 .. Len(queue'[r]) /\ (i - 1) + 1 = i
      BY <1>3, <1>4
    <2> QED
      BY <1>3, <2>1 DEF EndQueued
  <1>6. HeardIsOpen(r) => HeardIsOpen(r)'
    <2> SUFFICES ASSUME HeardIsOpen(r) PROVE HeardIsOpen(r)'
      OBVIOUS
    <2>1. \A s \in seen'[r] : phase'[s] \notin {"unborn", "over"}
      BY <1>2, <1>3, <1>4 DEF HeardIsOpen, Unannounced
    <2>2. \A i \in 1 .. Len(queue'[r]) :
             i + 1 \in 1 .. Len(queue[r]) /\ queue'[r][i] = queue[r][i + 1]
      BY <1>3
    <2> QED
      BY <1>2, <2>1, <2>2 DEF HeardIsOpen, Unannounced
  <1>7. Watching(r)' /\ Hears(r)'
    BY <1>1, <1>2, <1>5, <1>6 DEF Streams, Hears, Watching
  <1> QED
    BY <1>2, <1>7, StreamsOfOne

LEMMA StreamsStep == Typed /\ Lease /\ Streams /\ [Next]_vars => Streams'
  <1> SUFFICES ASSUME Typed, Lease, Streams, [Next]_vars PROVE Streams'
    OBVIOUS
  <1>s. Viewers \subseteq Receivers /\ Stills \subseteq Receivers
    BY DEF Receivers
  <1>t. /\ pc \in [Receivers -> PCs] /\ phase \in [Sessions -> Phases]
        /\ queue \in [Receivers -> Seq(Message)] /\ seen \in [Receivers -> SUBSET Sessions]
        /\ lagged \in [Receivers -> BOOLEAN]
    BY DEF Typed, FlagsOK, RangesOK, QueuesOK
  <1>g. ASSUME NEW s \in Sessions, NEW p \in Phases \ {"unborn", "over"},
               phase' = [phase EXCEPT ![s] = p]
        PROVE \A u \in Sessions : Unannounced(u) => phase'[u] \notin {"unborn", "over"}
    BY <1>g, <1>t DEF Unannounced
  <1>1. ASSUME NEW v \in Viewers, LoadOwner(v) \/ BecomePublisher(v) \/ LoadOwnerAgain(v)
        PROVE Streams'
    <2>1. UNCHANGED streamVars /\ \A w \in Receivers : Watching(w)' <=> Watching(w)
      BY <1>1, <1>s, <1>t DEF LoadOwner, BecomePublisher, LoadOwnerAgain, Watching
    <2>2. \A u \in Sessions : Unannounced(u) => phase'[u] \notin {"unborn", "over"}
      BY <1>1, <1>t DEF LoadOwner, BecomePublisher, LoadOwnerAgain, Unannounced
    <2> QED
      BY <2>1, <2>2, StreamsUnheard
  <1>2. ASSUME NEW r \in Stills, FindPublisher(r) PROVE Streams'
    <2>1. \A w \in Receivers : Watching(w)' <=> Watching(w)
      BY <1>2, <1>s, <1>t DEF FindPublisher, Watching
    <2> QED
      BY <1>2, <2>1, StreamsUnheard DEF FindPublisher, Unannounced
  <1>3. ASSUME NEW r \in Receivers, ~ Watching(r), Subscribed(r),
               \A u \in Sessions : Unannounced(u) => phase'[u] \notin {"unborn", "over"}
        PROVE Streams'
    <2>1. queue'[r] = << >> /\ seen'[r] = {} /\ UNCHANGED streamVars
      BY <1>3 DEF Streams, Subscribed
    <2>2. \A w \in Receivers : w # r => (Watching(w)' <=> Watching(w))
      BY <1>3, <1>t DEF Subscribed, Watching
    <2>3. Hears(r)'
      BY <2>1 DEF Hears, HeardIsOpen
    <2>4. ASSUME NEW w \in Receivers, w # r, Hears(w) PROVE Hears(w)'
      <3>1. queue[w] \in Seq(Message) /\ seen[w] \subseteq Sessions
        BY <1>t
      <3>2. \A i \in 1 .. Len(queue[w]) : queue[w][i].session \in Sessions
        <4>1. \A i \in 1 .. Len(queue[w]) : queue[w][i] \in Message
          BY <3>1
        <4> QED
          BY <4>1 DEF Message
      <3> QED
        BY <1>3, <2>1, <2>4, <3>1, <3>2 DEF Hears, EndQueued, HeardIsOpen, Unannounced
    <2> QED
      BY <2>1, <2>2, <2>3, <2>4, <1>3, <1>t DEF Streams, Subscribed, Watching
  <1>4. ASSUME NEW v \in Viewers, Subscribe(v) PROVE Streams'
    <2>1. \A u \in Sessions : Unannounced(u) => phase'[u] \notin {"unborn", "over"}
      BY <1>4, <1>t DEF Subscribe, Unannounced
    <2> QED
      BY <1>3, <1>4, <1>s, <2>1 DEF Subscribe, Watching
  <1>5. ASSUME NEW r \in Stills, JoinLive(r) PROVE Streams'
    BY <1>3, <1>5, <1>s DEF JoinLive, Watching, Unannounced
  <1>6. ASSUME NEW r \in Receivers, DropSubscriber(r), UNCHANGED phase PROVE Streams'
    <2>1. /\ ~ Watching(r)' /\ queue'[r] = << >> /\ seen'[r] = {}
          /\ \A w \in Receivers :
                w # r => /\ pc'[w] = pc[w] /\ queue'[w] = queue[w]
                         /\ seen'[w] = seen[w] /\ lagged'[w] = lagged[w]
      BY <1>6, <1>t DEF DropSubscriber, Forget, Watching
    <2> QED
      BY <1>6, <2>1, StreamsOfOne
  <1>7. ASSUME NEW r \in Receivers, Receive(r) \/ Leave(r) PROVE Streams'
    BY <1>6, <1>7, StreamsOfRead DEF Receive, Leave
  <1>8. ASSUME NEW s \in Sessions, PublishFrame(s) PROVE Streams'
    BY <1>8, StreamsOfSend DEF PublishFrame, Frame, Message, Unannounced
  <1>9. ASSUME NEW s \in Sessions, SendEnd(s) PROVE Streams'
    BY <1>9, StreamsOfSend DEF SendEnd, AnnounceEnd, End, Message
  <1>10. ASSUME NEW s \in Sessions,
                \/ StartLive(s) \/ Connect(s) \/ StopUnwatched(s) \/ StreamEnds(s)
                \/ Deadline(s) \/ FinishLive(s) \/ ReleasePublisher(s)
         PROVE Streams'
    <2>1. UNCHANGED streamVars /\ \A w \in Receivers : Watching(w)' <=> Watching(w)
      BY <1>10 DEF StartLive, Connect, StopUnwatched, StreamEnds, Deadline, FinishLive,
         ReleasePublisher, Watching
    <2>2. CASE UNCHANGED phase
      BY <2>1, <2>2, StreamsUnheard DEF Unannounced
    <2>3. CASE \E p \in {"connecting", "closing", "finishing", "streaming", "released"} :
                 phase' = [phase EXCEPT ![s] = p]
      BY <1>g, <2>1, <2>3, StreamsUnheard DEF Phases
    <2> QED
      BY <1>10, <2>2, <2>3 DEF StartLive, Connect, StopUnwatched, StreamEnds, Deadline, FinishLive,
         ReleasePublisher, Goto
  <1>11. ASSUME NEW t \in Talkers, AcquireWebrtc(t) \/ EndSignaling(t) PROVE Streams'
    <2>1. UNCHANGED streamVars /\ \A w \in Receivers : Watching(w)' <=> Watching(w)
      BY <1>11 DEF AcquireWebrtc, EndSignaling, Watching
    <2>2. \A u \in Sessions : Unannounced(u) => phase'[u] \notin {"unborn", "over"}
      BY <1>11, <1>t DEF AcquireWebrtc, EndSignaling, Goto, Unannounced
    <2> QED
      BY <2>1, <2>2, StreamsUnheard
  <1>12. CASE UNCHANGED vars
    BY <1>12, StreamsUnheard DEF vars, Watching, Unannounced
  <1> QED
    BY <1>1, <1>2, <1>4, <1>5, <1>7, <1>8, <1>9, <1>10, <1>11, <1>12 DEF Next, View, Produce

HubInv == Typed /\ Counted /\ Lease /\ Streams

LEMMA HubInit == Init => HubInv
  <1> SUFFICES ASSUME Init PROVE HubInv
    OBVIOUS
  <1> USE DEF Init
  <1>h. MaxSessions \in Nat /\ Retries \in Nat \ {0} /\ QueueDepth \in Nat \ {0}
    BY HubAssumption
  <1>1. FlagsOK
    BY DEF FlagsOK, Phases, PCs
  <1>2. RangesOK
    BY <1>h DEF RangesOK
  <1>3. QueuesOK
    BY <1>h DEF QueuesOK
  <1>4. Watchers = {}
    BY DEF Watchers, Watching
  <1>5. Counted
    BY <1>4, FS_EmptySet DEF Counted
  <1>6. UnopenedIsUnborn /\ HeldIsTaken /\ OneSession /\ TakenIsHeld
    BY DEF UnopenedIsUnborn, HeldIsTaken, OneSession, TakenIsHeld, Holds
  <1>7. GuardIsOwned /\ OwnersDiffer /\ StreamHasGuard
    BY DEF GuardIsOwned, OwnersDiffer, StreamHasGuard
  <1>8. Streams
    BY DEF Streams, Watching
  <1> QED
    BY <1>1, <1>2, <1>3, <1>5, <1>6, <1>7, <1>8 DEF HubInv, Typed, Lease

LEMMA HubAlways == Spec => []HubInv
<1>1. HubInv /\ [Next]_vars => HubInv'
  BY FlagsStep, RangesStep, QueuesStep, LeaseStep, CountedStep, StreamsStep DEF HubInv, Typed
<1> QED
  BY <1>1, HubInit, PTL DEF Spec

(* Every variable keeps its type; in particular the subscriber count never   *)
(* goes below zero and no receiver holds more messages than the ring.       *)
THEOREM TypeCorrect == Spec => []TypeOK
<1>1. HubInv => TypeOK
  <2> SUFFICES ASSUME HubInv PROVE TypeOK
    OBVIOUS
  <2>1. subscribers \in Nat
    BY FS_CardinalityType DEF HubInv, Counted
  <2> QED
    BY <2>1 DEF HubInv, Typed, FlagsOK, RangesOK, QueuesOK, PCs, TypeOK
<1> QED
  BY <1>1, HubAlways, PTL

(* At most one Blink session per camera, for any number of concurrent        *)
(* requests.                                                                *)
THEOREM OneSessionPerCamera == Spec => []OneSession
<1>1. HubInv => OneSession
  BY DEF HubInv, Lease
<1> QED
  BY <1>1, HubAlways, PTL

(* The camera is never marked taken without a task that will give it back.   *)
THEOREM MarkHasHolder == Spec => []TakenIsHeld
<1>1. HubInv => TakenIsHeld
  BY DEF HubInv, Lease
<1> QED
  BY <1>1, HubAlways, PTL

(* Both: the mark of a camera is one session's, for as long as it is set.    *)
THEOREM OwnerIsOne == Spec => []OneOwner
<1>1. OneSession /\ TakenIsHeld => OneOwner
  BY DEF OneOwner
<1> QED
  BY <1>1, OneSessionPerCamera, MarkHasHolder, PTL

(* A stream is spliced only while an end is on its way: a receiver that lost *)
(* nothing and has read frames of two sessions has an end in its queue, or  *)
(* one of them has freed the camera and is about to announce it.            *)
THEOREM SpliceAlwaysBrief == Spec => []SpliceIsBrief
<1>1. HubInv => SpliceIsBrief
  <2> SUFFICES ASSUME HubInv, NEW r \in Receivers, Watching(r), ~ lagged[r],
                      Cardinality(seen[r]) > 1
               PROVE EndAhead(r)
    BY DEF SpliceIsBrief
  <2>1. seen[r] \subseteq Sessions /\ (EndQueued(r) \/ HeardIsOpen(r))
    BY DEF HubInv, Typed, RangesOK, Streams, Hears
  <2>2. PICK s \in seen[r], u \in seen[r] : s # u
    <3>1. CASE seen[r] = {}
      BY <3>1, FS_EmptySet
    <3>2. ASSUME NEW s \in seen[r], seen[r] = {s} PROVE FALSE
      <4>1. Cardinality(seen[r]) = 1
        BY <3>2, FS_Singleton, Zenon
      <4> QED
        BY <4>1
    <3> QED
      BY <3>1, <3>2
  <2>3. ~ (Holds(s) /\ Holds(u))
    BY <2>1, <2>2 DEF HubInv, Lease, OneSession
  <2> QED
    BY <2>1, <2>2, <2>3 DEF EndAhead, EndQueued, HeardIsOpen, Unannounced, Holds
<1> QED
  BY <1>1, HubAlways, PTL
=============================================================================
