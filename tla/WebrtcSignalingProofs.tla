----------------------- MODULE WebrtcSignalingProofs -----------------------
(***************************************************************************)
(* Theorems about the signaling broker, for every number of browser        *)
(* sockets, session ids, candidates and lost pings.                        *)
(*                                                                         *)
(* A socket's session and its provider socket fit together at every place  *)
(* of the code ("Fits"), and a socket that is anywhere between its upgrade *)
(* and the drop of its lease holds the lease ("Held").  A step of the loop *)
(* moves one socket, leaves the lease and what was opened alone, and ends  *)
(* in the loop or at the close; there is one lemma for all of them.        *)
(***************************************************************************)
EXTENDS WebrtcSignaling, TLAPS

SessionType ==
    [pc : Pcs, id : Ids, activated : BOOLEAN, prepared : BOOLEAN, cooling : BOOLEAN,
     candidates : 0 .. MaxCandidates, negotiated : BOOLEAN, missed : 0 .. MaxMissed,
     fallback : BOOLEAN]
CloudType ==
    [socket : BOOLEAN, live : BOOLEAN, ids : SUBSET SessionIds, active : BOOLEAN,
     options : BOOLEAN, mic : BOOLEAN, closes : 0 .. 1]

Typed == session \in [Sockets -> SessionType] /\ cloud \in [Sockets -> CloudType]

Out == {"idle", "telling"}
Early == {"target", "connecting", "offer", "starting"}
Open == {"offer", "starting", "running", "closing", "disconnecting"}

(* What the provider may have heard at each place.                          *)
Opened(n, c) ==
    /\ c.socket => n.pc \in Open
    /\ n.pc \in Out \cup Early => ~n.activated /\ ~c.live /\ ~c.mic /\ c.ids = {}
    /\ n.pc \in {"running", "closing", "disconnecting"} => c.live
    /\ c.closes = (IF c.live /\ n.pc \notin {"running", "closing"} THEN 1 ELSE 0)

(* What it may have heard of the session and of the microphone.             *)
Ordered(n, c) ==
    /\ n.pc = "running" => c.ids \subseteq {n.id} \ {NoId}
    /\ n.pc = "running" => (n.activated => c.active)
    /\ c.mic => c.active /\ c.options /\ ~n.cooling

Fits == \A s \in Sockets : Opened(session[s], cloud[s]) /\ Ordered(session[s], cloud[s])

Held ==
    /\ lease \subseteq Sockets
    /\ \A s \in Sockets : IF At(s, "idle") \/ At(s, "telling") THEN s \notin lease ELSE lease = {s}

Inv == Typed /\ Held /\ Fits

----------------------------------------------------------------------------
(* A step that moves socket s to the records n and c.                       *)
Moves(s, n, c) ==
    /\ session' = [session EXCEPT ![s] = n]
    /\ cloud' = [cloud EXCEPT ![s] = c]

(* A step of the loop.                                                      *)
SameOpening(c, d) == c.socket = d.socket /\ c.live = d.live /\ c.closes = d.closes
LoopStep(s) ==
    /\ UNCHANGED lease
    /\ \E n \in SessionType, c \in CloudType :
        /\ Moves(s, n, c)
        /\ n.pc \in {"running", "closing"}
        /\ SameOpening(c, cloud[s])
        /\ Ordered(n, c)

LEMMA InitHolds == ASSUME Init PROVE Inv
  <1> USE SignalingAssumption
  <1>1. NoSession \in SessionType
    BY DEF NoSession, SessionType, Pcs, Ids
  <1>2. NoCloud \in CloudType
    BY DEF NoCloud, CloudType
  <1>3. Typed
    BY <1>1, <1>2 DEF Init, Typed
  <1>4. Held
    BY DEF Init, Held, At, NoSession
  <1>5. Fits
    BY DEF Init, Fits, Opened, Ordered, NoSession, NoCloud, Out, Early, Open
  <1> QED BY <1>3, <1>4, <1>5 DEF Inv

(* One socket moves to records that fit; the others stay.                   *)
LEMMA MoveFits ==
    ASSUME Typed, Fits, NEW s \in Sockets, NEW n \in SessionType, NEW c \in CloudType,
           Moves(s, n, c), Opened(n, c), Ordered(n, c)
    PROVE  Typed' /\ Fits'
  <1>1. Typed'
    BY DEF Typed, Moves
  <1>2. session'[s] = n /\ cloud'[s] = c
    BY DEF Typed, Moves
  <1>3. \A t \in Sockets \ {s} : session'[t] = session[t] /\ cloud'[t] = cloud[t]
    BY DEF Typed, Moves
  <1>4. ASSUME NEW t \in Sockets
        PROVE  (Opened(session[t], cloud[t]) /\ Ordered(session[t], cloud[t]))'
    <2>1. CASE t = s
      BY <1>2, <2>1 DEF Opened, Ordered
    <2>2. CASE t # s
      BY <1>3, <2>2 DEF Fits, Opened, Ordered
    <2> QED BY <2>1, <2>2
  <1> QED BY <1>1, <1>4 DEF Fits

(* The lease stays as long as the socket stays between upgrade and drop.     *)
LEMMA MoveKeepsLease ==
    ASSUME Typed, Held, NEW s \in Sockets, NEW n \in SessionType, UNCHANGED lease,
           session' = [session EXCEPT ![s] = n],
           (session[s].pc \in Out) <=> (n.pc \in Out)
    PROVE  Held'
  <1>1. session'[s] = n /\ \A t \in Sockets \ {s} : session'[t] = session[t]
    BY DEF Typed
  <1> QED BY <1>1 DEF Held, At, Out

LEMMA LoopKeepsInv ==
    ASSUME Inv, NEW s \in Sockets, At(s, "running"), LoopStep(s)
    PROVE  Inv'
  <1>1. PICK n \in SessionType, c \in CloudType :
            /\ Moves(s, n, c)
            /\ n.pc \in {"running", "closing"}
            /\ SameOpening(c, cloud[s])
            /\ Ordered(n, c)
    BY DEF LoopStep
  <1>2. Opened(n, c)
    BY <1>1 DEF Inv, Fits, Opened, SameOpening, At, Out, Early, Open
  <1>3. Typed' /\ Fits'
    BY <1>1, <1>2, MoveFits DEF Inv
  <1>4. Held'
    BY <1>1, MoveKeepsLease DEF Inv, LoopStep, Moves, At, Out
  <1> QED BY <1>3, <1>4 DEF Inv

----------------------------------------------------------------------------
(* The loop, command by command.                                            *)
RunningFits(n, c) == Opened(n, c) /\ Ordered(n, c) /\ n.pc = "running"

LEMMA RunningState ==
    ASSUME Inv, NEW s \in Sockets, At(s, "running")
    PROVE  /\ session[s] \in SessionType /\ cloud[s] \in CloudType
           /\ RunningFits(session[s], cloud[s])
  BY DEF Inv, Typed, Fits, At, RunningFits

(* A command that is sent: what is asked of the session and of the provider  *)
(* when it arrives, whether or not it does.                                  *)
LEMMA SendIsLoopStep ==
    ASSUME Inv, NEW s \in Sockets, At(s, "running"),
           NEW n \in SessionType, NEW c \in CloudType,
           n.pc = "running", n.id = session[s].id, n.cooling = session[s].cooling,
           SameOpening(c, cloud[s]), c.ids = cloud[s].ids,
           n.activated => c.active,
           c.mic => c.active /\ c.options /\ ~n.cooling,
           Send(s, n, c)
    PROVE  LoopStep(s)
  <1> DEFINE heard == Sent(s, c)
             stopped == [n EXCEPT !.pc = "closing"]
  <1>1. session[s] \in SessionType /\ cloud[s] \in CloudType /\ RunningFits(session[s], cloud[s])
    BY RunningState
  <1>2. session[s].id \in SessionIds \cup {NoId}
    BY <1>1 DEF SessionType, Ids
  <1>3. /\ heard \in CloudType
        /\ heard.ids = c.ids \cup ({session[s].id} \ {NoId})
        /\ SameOpening(heard, c)
        /\ heard.active = c.active /\ heard.options = c.options /\ heard.mic = c.mic
    BY <1>2 DEF Sent, CloudType, SameOpening
  <1>4. /\ stopped \in SessionType /\ stopped.pc = "closing" /\ stopped.cooling = n.cooling
    BY DEF SessionType, Pcs
  <1>5. Ordered(n, heard)
    BY <1>1, <1>3 DEF Ordered, RunningFits
  <1>6. \A d \in {cloud[s], heard} : Ordered(stopped, d)
    BY <1>1, <1>3, <1>4 DEF Ordered, RunningFits
  <1>7. \A d \in {cloud[s], heard} : d \in CloudType /\ SameOpening(d, cloud[s])
    BY <1>1, <1>3 DEF SameOpening
  <1>8. CASE Keep(s, n) /\ cloud' = [cloud EXCEPT ![s] = heard]
    BY <1>5, <1>7, <1>8 DEF LoopStep, Moves, Keep
  <1>9. CASE Stop(s, n) /\ \E d \in {cloud[s], heard} : cloud' = [cloud EXCEPT ![s] = d]
    BY <1>4, <1>6, <1>7, <1>9 DEF LoopStep, Moves, Stop
  <1> QED BY <1>8, <1>9 DEF Send

(* The loop stops without a command, with the microphone as it was or off.   *)
LEMMA StopIsLoopStep ==
    ASSUME Inv, NEW s \in Sockets, At(s, "running"),
           NEW n \in SessionType, NEW c \in CloudType,
           SameOpening(c, cloud[s]),
           c.mic => c.active /\ c.options /\ ~n.cooling,
           Stop(s, n), cloud' = [cloud EXCEPT ![s] = c]
    PROVE  LoopStep(s)
  <1> DEFINE stopped == [n EXCEPT !.pc = "closing"]
  <1>1. stopped \in SessionType /\ stopped.pc = "closing" /\ stopped.cooling = n.cooling
    BY DEF SessionType, Pcs
  <1>2. Ordered(stopped, c)
    BY <1>1 DEF Ordered
  <1> QED BY <1>1, <1>2 DEF LoopStep, Moves, Stop

(* The same with nothing changed but the session.                            *)
LEMMA QuietStop ==
    ASSUME Inv, NEW s \in Sockets, At(s, "running"), NEW n \in SessionType,
           n.cooling = session[s].cooling, Stop(s, n), UNCHANGED cloud
    PROVE  LoopStep(s)
  <1>1. session[s] \in SessionType /\ cloud[s] \in CloudType /\ RunningFits(session[s], cloud[s])
    BY RunningState
  <1>2. cloud' = [cloud EXCEPT ![s] = cloud[s]]
    BY DEF Inv, Typed
  <1>3. cloud[s].mic => cloud[s].active /\ cloud[s].options /\ ~n.cooling
    BY <1>1 DEF RunningFits, Ordered
  <1> QED BY <1>1, <1>2, <1>3, StopIsLoopStep DEF SameOpening

LEMMA IceSteps ==
    ASSUME Inv, NEW s \in Sockets, At(s, "running"), Ice(s)
    PROVE  LoopStep(s)
  <1> DEFINE n == [session[s] EXCEPT !.candidates = @ + 1]
             full == [n EXCEPT !.candidates = MaxCandidates]
  <1>1. session[s] \in SessionType /\ cloud[s] \in CloudType /\ RunningFits(session[s], cloud[s])
    BY RunningState
  <1>2. session[s].candidates \in 0 .. MaxCandidates /\ n.candidates = session[s].candidates + 1
    BY <1>1 DEF SessionType
  <1>3. CASE n.candidates > MaxCandidates
    <2>1. MaxCandidates \in 0 .. MaxCandidates
      BY SignalingAssumption
    <2>2. full = [session[s] EXCEPT !.candidates = MaxCandidates]
      BY <1>1 DEF SessionType
    <2>3. full \in SessionType /\ full.cooling = session[s].cooling
      BY <1>1, <2>1, <2>2 DEF SessionType
    <2>4. Stop(s, full) /\ UNCHANGED cloud
      BY <1>3 DEF Ice
    <2> QED BY <2>3, <2>4, QuietStop
  <1>4. CASE ~(n.candidates > MaxCandidates)
    <2>1. n.candidates \in 0 .. MaxCandidates
      BY <1>2, <1>4, SignalingAssumption
    <2>2. n \in SessionType
      BY <1>1, <2>1 DEF SessionType
    <2>3. /\ n.pc = "running" /\ n.id = session[s].id /\ n.cooling = session[s].cooling
          /\ n.activated = session[s].activated
      BY <1>1 DEF SessionType, RunningFits
    <2>4. /\ n.activated => cloud[s].active
          /\ cloud[s].mic => cloud[s].active /\ cloud[s].options /\ ~n.cooling
      BY <1>1, <2>3 DEF RunningFits, Ordered
    <2>5. Send(s, n, cloud[s])
      BY <1>4 DEF Ice
    <2> HIDE DEF n
    <2> QED BY <1>1, <2>2, <2>3, <2>4, <2>5, SendIsLoopStep DEF SameOpening
  <1> QED BY <1>3, <1>4

LEMMA RelaySteps ==
    ASSUME Inv, NEW s \in Sockets, At(s, "running"), Relay(s)
    PROVE  LoopStep(s) \/ UNCHANGED vars
  <1>1. session[s] \in SessionType /\ cloud[s] \in CloudType /\ RunningFits(session[s], cloud[s])
    BY RunningState
  <1>2. /\ session[s].activated => cloud[s].active
        /\ cloud[s].mic => cloud[s].active /\ cloud[s].options /\ ~session[s].cooling
    BY <1>1 DEF RunningFits, Ordered
  <1>3. CASE Send(s, session[s], cloud[s])
    BY <1>1, <1>2, <1>3, SendIsLoopStep DEF RunningFits, SameOpening
  <1> QED BY <1>3 DEF Relay, Ignore

LEMMA ActivateSteps ==
    ASSUME Inv, NEW s \in Sockets, At(s, "running"), Activate(s)
    PROVE  LoopStep(s) \/ UNCHANGED vars
  <1> DEFINE n == [session[s] EXCEPT !.activated = TRUE]
             c == [cloud[s] EXCEPT !.active = TRUE]
  <1>1. session[s] \in SessionType /\ cloud[s] \in CloudType /\ RunningFits(session[s], cloud[s])
    BY RunningState
  <1>2. /\ n \in SessionType /\ n.pc = "running" /\ n.id = session[s].id
        /\ n.cooling = session[s].cooling
    BY <1>1 DEF SessionType, RunningFits
  <1>3. /\ c \in CloudType /\ SameOpening(c, cloud[s]) /\ c.ids = cloud[s].ids /\ c.active
        /\ c.mic = cloud[s].mic /\ c.options = cloud[s].options
    BY <1>1 DEF CloudType, SameOpening
  <1>4. c.mic => c.active /\ c.options /\ ~n.cooling
    BY <1>1, <1>2, <1>3 DEF RunningFits, Ordered
  <1>5. CASE Send(s, n, c)
    <2> HIDE DEF n, c
    <2> QED BY <1>2, <1>3, <1>4, <1>5, SendIsLoopStep
  <1> QED BY <1>5 DEF Activate, Ignore

LEMMA MicrophoneOffSteps ==
    ASSUME Inv, NEW s \in Sockets, At(s, "running"), MicrophoneOff(s)
    PROVE  LoopStep(s) \/ UNCHANGED vars
  <1> DEFINE c == [cloud[s] EXCEPT !.mic = FALSE]
  <1>1. session[s] \in SessionType /\ cloud[s] \in CloudType /\ RunningFits(session[s], cloud[s])
    BY RunningState
  <1>2. /\ c \in CloudType /\ SameOpening(c, cloud[s]) /\ c.ids = cloud[s].ids /\ ~c.mic
        /\ c.active = cloud[s].active
    BY <1>1 DEF CloudType, SameOpening
  <1>3. session[s].activated => c.active
    BY <1>1, <1>2 DEF RunningFits, Ordered
  <1>4. CASE Send(s, session[s], c)
    <2> HIDE DEF c
    <2> QED BY <1>1, <1>2, <1>3, <1>4, SendIsLoopStep DEF RunningFits
  <1> QED BY <1>4 DEF MicrophoneOff, Ignore

LEMMA MicrophoneOnSteps ==
    ASSUME Inv, NEW s \in Sockets, At(s, "running"), MicrophoneOn(s)
    PROVE  LoopStep(s) \/ UNCHANGED vars
  <1> DEFINE n == [session[s] EXCEPT !.prepared = TRUE]
             options == [cloud[s] EXCEPT !.options = TRUE]
             c == [options EXCEPT !.mic = TRUE]
             heard == Sent(s, options)
  <1>1. session[s] \in SessionType /\ cloud[s] \in CloudType /\ RunningFits(session[s], cloud[s])
    BY RunningState
  <1>2. CASE ~MayTalk(s)
    BY <1>2 DEF MicrophoneOn, Ignore
  <1>3. CASE MayTalk(s) /\ Send(s, n, c)
    <2>1. /\ n \in SessionType /\ n.pc = "running" /\ n.id = session[s].id
          /\ n.cooling = session[s].cooling
      BY <1>1 DEF SessionType, RunningFits
    <2>2. /\ c \in CloudType /\ SameOpening(c, cloud[s]) /\ c.ids = cloud[s].ids /\ c.options
          /\ c.active = cloud[s].active
      BY <1>1 DEF CloudType, SameOpening
    <2>3. c.active /\ ~n.cooling
      BY <1>1, <1>3, <2>1, <2>2 DEF RunningFits, Ordered, MayTalk
    <2> HIDE DEF n, c
    <2> QED BY <1>3, <2>1, <2>2, <2>3, SendIsLoopStep
  <1>4. CASE Stop(s, session[s]) /\ \E d \in {cloud[s], heard} : cloud' = [cloud EXCEPT ![s] = d]
    <2>1. PICK d \in {cloud[s], heard} : cloud' = [cloud EXCEPT ![s] = d]
      BY <1>4
    <2>2. session[s].id \in SessionIds \cup {NoId}
      BY <1>1 DEF SessionType, Ids
    <2>3. /\ options \in CloudType /\ SameOpening(options, cloud[s]) /\ options.options
          /\ options.mic = cloud[s].mic /\ options.active = cloud[s].active
      BY <1>1 DEF CloudType, SameOpening
    <2>4. /\ heard \in CloudType /\ SameOpening(heard, options) /\ heard.options = options.options
          /\ heard.mic = options.mic /\ heard.active = options.active
      BY <2>2, <2>3 DEF Sent, CloudType, SameOpening
    <2>5. /\ d \in CloudType /\ SameOpening(d, cloud[s])
          /\ d.mic => d.active /\ d.options /\ ~session[s].cooling
      BY <1>1, <2>1, <2>3, <2>4 DEF RunningFits, Ordered, SameOpening
    <2> HIDE DEF heard
    <2> QED BY <1>1, <1>4, <2>1, <2>5, StopIsLoopStep
  <1> QED BY <1>2, <1>3, <1>4 DEF MicrophoneOn

LEMMA BrowserFrameSteps ==
    ASSUME Inv, NEW s \in Sockets, BrowserFrame(s)
    PROVE  LoopStep(s) \/ UNCHANGED vars
  <1>1. At(s, "running") /\ session[s] \in SessionType
    BY RunningState DEF BrowserFrame
  <1>2. CASE Stop(s, session[s]) /\ UNCHANGED cloud
    BY <1>1, <1>2, QuietStop
  <1> QED BY <1>1, <1>2, IceSteps, RelaySteps, ActivateSteps, MicrophoneOffSteps,
             MicrophoneOnSteps DEF BrowserFrame

----------------------------------------------------------------------------
(* The loop, provider frames.                                               *)

(* What a frame of the provider teaches: an id only when there was none.     *)
LEMMA LearnedFits ==
    ASSUME Inv, NEW s \in Sockets, At(s, "running"), NEW e \in Envelopes, ~Foreign(s, e)
    PROVE  /\ Learned(s, e) \in SessionType
           /\ Learned(s, e).cooling = session[s].cooling
           /\ Learned(s, e).activated = session[s].activated
           /\ Learned(s, e).pc = "running"
           /\ session[s].id # NoId => Learned(s, e).id = session[s].id
  <1>1. session[s] \in SessionType /\ session[s].pc = "running"
    BY RunningState DEF RunningFits
  <1>2. e.id \in Ids
    BY DEF Envelopes
  <1>3. 0 \in 0 .. MaxMissed
    BY SignalingAssumption
  <1> QED BY <1>1, <1>2, <1>3 DEF Learned, SessionType, Foreign, InSession

LEMMA UpdatedFits ==
    ASSUME NEW e \in Envelopes, NEW n \in SessionType
    PROVE  /\ UpdateState(e, n) \in SessionType
           /\ UpdateState(e, n).pc = n.pc
           /\ UpdateState(e, n).id = n.id
           /\ UpdateState(e, n).activated = n.activated
           /\ UpdateState(e, n).cooling = (n.cooling \/ e.method = "mic_overridden")
  <1>1. CASE e.method = "answer"
    BY <1>1 DEF UpdateState, SessionType
  <1>2. CASE e.method = "mic_overridden"
    BY <1>2 DEF UpdateState, SessionType
  <1>3. CASE e.method \notin {"answer", "mic_overridden"}
    BY <1>3 DEF UpdateState, SessionType
  <1> QED BY <1>1, <1>2, <1>3

LEMMA ForwardProviderSteps ==
    ASSUME Inv, NEW s \in Sockets, At(s, "running"), NEW e \in Envelopes, ForwardProvider(s, e)
    PROVE  LoopStep(s) \/ UNCHANGED vars
  <1> DEFINE learned == Learned(s, e)
             next == UpdateState(e, learned)
             quiet == [cloud[s] EXCEPT !.mic = FALSE]
             heard == IF e.method = "mic_overridden" THEN quiet ELSE cloud[s]
  <1>1. session[s] \in SessionType /\ cloud[s] \in CloudType /\ RunningFits(session[s], cloud[s])
    BY RunningState
  <1>2. CASE ~ValidServer(e) \/ (~Foreign(s, e) /\ ~Correlated(e))
    BY <1>2 DEF ForwardProvider, Ignore, Correlated
  <1>3. CASE ValidServer(e) /\ Foreign(s, e)
    <2>1. Stop(s, session[s]) /\ UNCHANGED cloud
      BY <1>3 DEF ForwardProvider
    <2> QED BY <1>1, <2>1, QuietStop
  <1>4. CASE ~Foreign(s, e) /\ Correlated(e)
    <2>1. /\ learned \in SessionType /\ learned.cooling = session[s].cooling
          /\ learned.activated = session[s].activated /\ learned.pc = "running"
          /\ session[s].id # NoId => learned.id = session[s].id
      BY <1>4, LearnedFits
    <2>2. /\ next \in SessionType /\ next.pc = "running" /\ next.id = learned.id
          /\ next.activated = learned.activated
          /\ next.cooling = (learned.cooling \/ e.method = "mic_overridden")
      BY <2>1, UpdatedFits
    <2>3. cloud' = cloud => cloud' = [cloud EXCEPT ![s] = cloud[s]]
      BY DEF Inv, Typed
    <2>4. Overridden(s, e) => cloud' = [cloud EXCEPT ![s] = heard]
      BY <2>3 DEF Overridden, Inv, Typed
    <2>5. /\ heard \in CloudType /\ SameOpening(heard, cloud[s]) /\ heard.ids = cloud[s].ids
          /\ heard.active = cloud[s].active /\ heard.options = cloud[s].options
          /\ heard.mic => cloud[s].mic /\ e.method # "mic_overridden"
      BY <1>1 DEF CloudType, SameOpening
    <2>6. cloud[s].ids \subseteq {learned.id} \ {NoId}
      BY <1>1, <2>1 DEF RunningFits, Ordered
    <2>7. heard.mic => heard.active /\ heard.options /\ ~next.cooling
      BY <1>1, <2>1, <2>2, <2>5 DEF RunningFits, Ordered
    <2>8. Ordered(learned, cloud[s])
      BY <1>1, <2>1, <2>6 DEF RunningFits, Ordered
    <2>9. Ordered(next, heard)
      BY <1>1, <2>1, <2>2, <2>5, <2>6, <2>7 DEF RunningFits, Ordered
    <2> HIDE DEF learned, next, heard
    <2>10. CASE Keep(s, learned) /\ UNCHANGED cloud
      BY <1>1, <2>1, <2>3, <2>8, <2>10 DEF LoopStep, Moves, Keep, SameOpening
    <2>11. CASE Keep(s, next) /\ Overridden(s, e)
      BY <2>2, <2>4, <2>5, <2>9, <2>11 DEF LoopStep, Moves, Keep
    <2>12. CASE Stop(s, next) /\ Overridden(s, e)
      BY <2>2, <2>4, <2>5, <2>7, <2>12, StopIsLoopStep
    <2>13. CASE e.method = "legacy" /\ Stop(s, [next EXCEPT !.fallback = TRUE]) /\ UNCHANGED cloud
      <3>1. /\ [next EXCEPT !.fallback = TRUE] \in SessionType
            /\ [next EXCEPT !.fallback = TRUE].cooling = next.cooling
        BY <2>2 DEF SessionType
      <3>2. next.cooling = session[s].cooling
        BY <1>1, <2>1, <2>2, <2>13 DEF SessionType
      <3> QED BY <2>13, <3>1, <3>2, QuietStop
    <2> QED BY <1>4, <2>10, <2>11, <2>12, <2>13 DEF ForwardProvider, Correlated, learned, next
  <1> QED BY <1>2, <1>3, <1>4

LEMMA ProviderFrameSteps ==
    ASSUME Inv, NEW s \in Sockets, ProviderFrame(s)
    PROVE  LoopStep(s) \/ UNCHANGED vars
  <1>1. At(s, "running") /\ session[s] \in SessionType
    BY RunningState DEF ProviderFrame
  <1>2. CASE Stop(s, session[s]) /\ UNCHANGED cloud
    BY <1>1, <1>2, QuietStop
  <1> QED BY <1>1, <1>2, ForwardProviderSteps DEF ProviderFrame

----------------------------------------------------------------------------
(* The loop, timers.                                                        *)
LEMMA PingSteps ==
    ASSUME Inv, NEW s \in Sockets, Ping(s)
    PROVE  LoopStep(s)
  <1> DEFINE n == [session[s] EXCEPT !.missed = @ + 1]
  <1>1. At(s, "running")
    BY DEF Ping
  <1>2. session[s] \in SessionType /\ cloud[s] \in CloudType /\ RunningFits(session[s], cloud[s])
    BY <1>1, RunningState
  <1>3. CASE session[s].missed >= MaxMissed
    BY <1>1, <1>2, <1>3, QuietStop DEF Ping
  <1>4. CASE ~(session[s].missed >= MaxMissed)
    <2>1. session[s].missed + 1 \in 0 .. MaxMissed
      BY <1>2, <1>4, SignalingAssumption DEF SessionType
    <2>2. n \in SessionType
      BY <1>2, <2>1 DEF SessionType
    <2>3. /\ n.pc = "running" /\ n.id = session[s].id /\ n.cooling = session[s].cooling
          /\ n.activated = session[s].activated
      BY <1>2 DEF SessionType, RunningFits
    <2>4. /\ n.activated => cloud[s].active
          /\ cloud[s].mic => cloud[s].active /\ cloud[s].options /\ ~n.cooling
      BY <1>2, <2>3 DEF RunningFits, Ordered
    <2>5. Send(s, n, cloud[s])
      BY <1>4 DEF Ping
    <2> HIDE DEF n
    <2> QED BY <1>1, <1>2, <2>2, <2>3, <2>4, <2>5, SendIsLoopStep DEF SameOpening
  <1> QED BY <1>3, <1>4

LEMMA TimerSteps ==
    ASSUME Inv, NEW s \in Sockets, CooldownEnds(s) \/ NegotiationEnds(s) \/ Deadline(s)
    PROVE  LoopStep(s)
  <1> DEFINE n == [session[s] EXCEPT !.cooling = FALSE]
  <1>1. At(s, "running")
    BY DEF CooldownEnds, NegotiationEnds, Deadline
  <1>2. session[s] \in SessionType /\ cloud[s] \in CloudType /\ RunningFits(session[s], cloud[s])
    BY <1>1, RunningState
  <1>3. CASE CooldownEnds(s)
    <2>1. n \in SessionType /\ n.pc = "running" /\ n.id = session[s].id
          /\ n.activated = session[s].activated /\ ~n.cooling
      BY <1>2 DEF SessionType, RunningFits
    <2>2. Ordered(n, cloud[s])
      BY <1>2, <2>1 DEF RunningFits, Ordered
    <2>3. Moves(s, n, cloud[s]) /\ UNCHANGED lease
      BY <1>3 DEF CooldownEnds, Keep, Moves, Inv, Typed
    <2> HIDE DEF n
    <2> QED BY <1>2, <2>1, <2>2, <2>3 DEF LoopStep, SameOpening
  <1>4. CASE NegotiationEnds(s) \/ Deadline(s)
    BY <1>1, <1>2, <1>4, QuietStop DEF NegotiationEnds, Deadline
  <1> QED BY <1>3, <1>4

LEMMA LoopSteps ==
    ASSUME Inv, NEW s \in Sockets, Loop(s) \/ Deadline(s)
    PROVE  Inv'
  <1>1. (At(s, "running") /\ LoopStep(s)) \/ UNCHANGED vars
    BY BrowserFrameSteps, ProviderFrameSteps, PingSteps, TimerSteps
       DEF Loop, BrowserFrame, ProviderFrame, Ping, CooldownEnds, NegotiationEnds, Deadline
  <1>2. CASE UNCHANGED vars
    BY <1>2 DEF vars, Inv, Typed, Held, Fits, Opened, Ordered, At
  <1> QED BY <1>1, <1>2, LoopKeepsInv

----------------------------------------------------------------------------
(* Before and after the loop.                                               *)

(* A socket moves, by records that fit, without taking or giving the lease.  *)
LEMMA MoveKeepsInv ==
    ASSUME Inv, NEW s \in Sockets, NEW n \in SessionType, NEW c \in CloudType,
           Moves(s, n, c), UNCHANGED lease, (session[s].pc \in Out) <=> (n.pc \in Out),
           Opened(n, c), Ordered(n, c)
    PROVE  Inv'
  <1>1. Typed' /\ Fits'
    BY MoveFits DEF Inv
  <1>2. Held'
    BY MoveKeepsLease DEF Inv, Moves
  <1> QED BY <1>1, <1>2 DEF Inv

(* The same for a step that only goes on, and leaves the provider alone.     *)
LEMMA GoOn ==
    ASSUME Inv, NEW s \in Sockets, NEW p \in Pcs, session[s].pc \notin Out, p \notin Out,
           session' = [session EXCEPT ![s].pc = p], UNCHANGED <<lease, cloud>>,
           session[s].pc \in Early, p \in Early, cloud[s].socket => p \in Open
    PROVE  Inv'
  <1> DEFINE n == [session[s] EXCEPT !.pc = p]
  <1>1. session[s] \in SessionType /\ cloud[s] \in CloudType
    BY DEF Inv, Typed
  <1>2. /\ n \in SessionType /\ n.pc = p /\ n.activated = session[s].activated
        /\ n.cooling = session[s].cooling
    BY <1>1 DEF SessionType
  <1>3. Moves(s, n, cloud[s])
    BY DEF Moves, Inv, Typed
  <1>4. Opened(session[s], cloud[s]) /\ Ordered(session[s], cloud[s])
    BY DEF Inv, Fits
  <1>5. Opened(n, cloud[s]) /\ Ordered(n, cloud[s])
    BY <1>2, <1>4 DEF Opened, Ordered, Early, Open, Out
  <1> HIDE DEF n
  <1> QED BY <1>1, <1>2, <1>3, <1>5, MoveKeepsInv

(* A function of the broker returns, with the provider's live view closed.   *)
LEMMA ReturnKeepsInv ==
    ASSUME Inv, NEW s \in Sockets, Return(s), session[s].pc \in Early \cup {"disconnecting"}
    PROVE  Inv'
  <1> DEFINE n == [session[s] EXCEPT !.pc = "dropping"]
             c == [cloud[s] EXCEPT !.socket = FALSE]
  <1>1. session[s] \in SessionType /\ cloud[s] \in CloudType
    BY DEF Inv, Typed
  <1>2. n \in SessionType /\ n.pc = "dropping" /\ n.cooling = session[s].cooling
    BY <1>1 DEF SessionType, Pcs
  <1>3. /\ c \in CloudType /\ ~c.socket /\ c.live = cloud[s].live /\ c.closes = cloud[s].closes
        /\ c.mic = cloud[s].mic /\ c.active = cloud[s].active /\ c.options = cloud[s].options
    BY <1>1 DEF CloudType
  <1>4. Moves(s, n, c) /\ UNCHANGED lease
    BY DEF Moves, Return, Inv, Typed
  <1>5. Opened(session[s], cloud[s]) /\ Ordered(session[s], cloud[s])
    BY DEF Inv, Fits
  <1>6. Opened(n, c) /\ Ordered(n, c)
    BY <1>2, <1>3, <1>5 DEF Opened, Ordered, Early, Open, Out
  <1>7. (session[s].pc \in Out) <=> (n.pc \in Out)
    BY <1>2 DEF Out, Early
  <1> HIDE DEF n, c
  <1> QED BY <1>2, <1>3, <1>4, <1>6, <1>7, MoveKeepsInv

LEMMA UpgradeKeepsInv == ASSUME Inv, NEW s \in Sockets, Upgrade(s) PROVE Inv'
  <1> DEFINE n == [session[s] EXCEPT !.pc = "target"]
  <1>1. session[s] \in SessionType /\ cloud[s] \in CloudType /\ session[s].pc = "idle"
    BY DEF Inv, Typed, Upgrade, At
  <1>2. /\ n \in SessionType /\ n.pc = "target" /\ n.activated = session[s].activated
        /\ n.cooling = session[s].cooling
    BY <1>1 DEF SessionType, Pcs
  <1>3. Moves(s, n, cloud[s])
    BY DEF Moves, Upgrade, Inv, Typed
  <1>4. Opened(session[s], cloud[s]) /\ Ordered(session[s], cloud[s])
    BY DEF Inv, Fits
  <1>5. Opened(n, cloud[s]) /\ Ordered(n, cloud[s])
    BY <1>1, <1>2, <1>4 DEF Opened, Ordered, Early, Open, Out
  <1>6. Typed' /\ Fits'
    BY <1>1, <1>2, <1>3, <1>5, MoveFits DEF Inv
  <1>7. session'[s].pc = "target" /\ \A t \in Sockets \ {s} : session'[t] = session[t]
    BY <1>1, <1>2, <1>3 DEF Moves, Inv, Typed
  <1>8. \A t \in Sockets : session[t].pc \in Out
    BY DEF Inv, Held, Upgrade, At, Out
  <1>9. Held'
    BY <1>7, <1>8 DEF Held, Upgrade, At, Out
  <1> QED BY <1>6, <1>9 DEF Inv

LEMMA TargetKeepsInv == ASSUME Inv, NEW s \in Sockets, Target(s) PROVE Inv'
  <1>1. session[s].pc = "target" /\ ~cloud[s].socket
    BY DEF Target, At, Inv, Fits, Opened, Open
  <1>2. CASE Return(s)
    BY <1>1, <1>2, ReturnKeepsInv DEF Early
  <1>3. CASE session' = [session EXCEPT ![s].pc = "connecting"] /\ UNCHANGED <<lease, cloud>>
    BY <1>1, <1>3, GoOn DEF Pcs, Out, Early
  <1> QED BY <1>2, <1>3 DEF Target

LEMMA OfferKeepsInv == ASSUME Inv, NEW s \in Sockets, Offer(s) PROVE Inv'
  <1>1. session[s].pc = "offer"
    BY DEF Offer, At
  <1>2. CASE Return(s)
    BY <1>1, <1>2, ReturnKeepsInv DEF Early
  <1>3. CASE session' = [session EXCEPT ![s].pc = "starting"] /\ UNCHANGED <<lease, cloud>>
    BY <1>1, <1>3, GoOn DEF Pcs, Out, Early, Open
  <1> QED BY <1>2, <1>3 DEF Offer

LEMMA ConnectKeepsInv == ASSUME Inv, NEW s \in Sockets, Connect(s) PROVE Inv'
  <1> DEFINE n == [session[s] EXCEPT !.pc = "offer"]
             c == [cloud[s] EXCEPT !.socket = TRUE]
  <1>1. session[s] \in SessionType /\ cloud[s] \in CloudType /\ session[s].pc = "connecting"
    BY DEF Inv, Typed, Connect, At
  <1>2. CASE Return(s)
    BY <1>1, <1>2, ReturnKeepsInv DEF Early
  <1>3. CASE Moves(s, n, c) /\ UNCHANGED lease
    <2>1. /\ n \in SessionType /\ n.pc = "offer" /\ n.activated = session[s].activated
          /\ n.cooling = session[s].cooling
      BY <1>1 DEF SessionType, Pcs
    <2>2. /\ c \in CloudType /\ c.live = cloud[s].live /\ c.closes = cloud[s].closes
          /\ c.mic = cloud[s].mic /\ c.ids = cloud[s].ids
      BY <1>1 DEF CloudType
    <2>3. Opened(session[s], cloud[s]) /\ Ordered(session[s], cloud[s])
      BY DEF Inv, Fits
    <2>4. Opened(n, c) /\ Ordered(n, c)
      BY <1>1, <2>1, <2>2, <2>3 DEF Opened, Ordered, Early, Open, Out
    <2>5. (session[s].pc \in Out) <=> (n.pc \in Out)
      BY <1>1, <2>1 DEF Out
    <2> HIDE DEF n, c
    <2> QED BY <1>3, <2>1, <2>2, <2>4, <2>5, MoveKeepsInv
  <1>4. Return(s) \/ (Moves(s, n, c) /\ UNCHANGED lease)
    BY DEF Connect, Moves, Inv, Typed
  <1> QED BY <1>2, <1>3, <1>4

LEMMA LiveViewKeepsInv == ASSUME Inv, NEW s \in Sockets, LiveView(s) PROVE Inv'
  <1> DEFINE n == [session[s] EXCEPT !.pc = "running"]
             c == [cloud[s] EXCEPT !.live = TRUE]
  <1>1. session[s] \in SessionType /\ cloud[s] \in CloudType /\ session[s].pc = "starting"
    BY DEF Inv, Typed, LiveView, At
  <1>2. CASE Return(s)
    BY <1>1, <1>2, ReturnKeepsInv DEF Early
  <1>3. CASE Moves(s, n, c) /\ UNCHANGED lease
    <2>1. /\ n \in SessionType /\ n.pc = "running" /\ n.activated = session[s].activated
          /\ n.cooling = session[s].cooling
      BY <1>1 DEF SessionType, Pcs
    <2>2. /\ c \in CloudType /\ c.live /\ c.closes = cloud[s].closes
          /\ c.mic = cloud[s].mic /\ c.ids = cloud[s].ids
      BY <1>1 DEF CloudType
    <2>3. /\ Opened(session[s], cloud[s]) /\ Ordered(session[s], cloud[s])
          /\ ~cloud[s].live /\ ~cloud[s].mic /\ cloud[s].ids = {} /\ cloud[s].closes = 0
          /\ ~session[s].activated
      BY <1>1 DEF Inv, Fits, Opened, Early
    <2>4. Opened(n, c) /\ Ordered(n, c)
      BY <2>1, <2>2, <2>3 DEF Opened, Ordered, Early, Open, Out
    <2>5. (session[s].pc \in Out) <=> (n.pc \in Out)
      BY <1>1, <2>1 DEF Out
    <2> HIDE DEF n, c
    <2> QED BY <1>3, <2>1, <2>2, <2>4, <2>5, MoveKeepsInv
  <1>4. Return(s) \/ (Moves(s, n, c) /\ UNCHANGED lease)
    BY DEF LiveView, Moves, Inv, Typed
  <1> QED BY <1>2, <1>3, <1>4

LEMMA CloseKeepsInv == ASSUME Inv, NEW s \in Sockets, Close(s) PROVE Inv'
  <1> DEFINE n == [session[s] EXCEPT !.pc = "disconnecting"]
             heard == Sent(s, cloud[s])
             c == [heard EXCEPT !.closes = @ + 1]
  <1>1. session[s] \in SessionType /\ cloud[s] \in CloudType /\ session[s].pc = "closing"
    BY DEF Inv, Typed, Close, At
  <1>2. /\ n \in SessionType /\ n.pc = "disconnecting" /\ n.cooling = session[s].cooling
    BY <1>1 DEF SessionType, Pcs
  <1>3. Opened(session[s], cloud[s]) /\ Ordered(session[s], cloud[s])
    BY DEF Inv, Fits
  <1>4. cloud[s].live /\ cloud[s].closes = 0
    BY <1>1, <1>3 DEF Opened
  <1>5. session[s].id \in SessionIds \cup {NoId}
    BY <1>1 DEF SessionType, Ids
  <1>6. /\ heard \in CloudType /\ heard.live = cloud[s].live /\ heard.closes = cloud[s].closes
        /\ heard.mic = cloud[s].mic /\ heard.active = cloud[s].active
        /\ heard.options = cloud[s].options
    BY <1>1, <1>5 DEF Sent, CloudType
  <1>7. heard.closes + 1 = 1 /\ 1 \in 0 .. 1
    BY <1>4, <1>6
  <1> HIDE DEF heard
  <1>8. /\ c \in CloudType /\ c.live /\ c.closes = 1
        /\ c.mic = heard.mic /\ c.active = heard.active /\ c.options = heard.options
    BY <1>4, <1>6, <1>7 DEF CloudType
  <1>9. Opened(n, c) /\ Ordered(n, c)
    BY <1>1, <1>2, <1>3, <1>6, <1>8 DEF Opened, Ordered, Early, Open, Out
  <1>10. Moves(s, n, c) /\ UNCHANGED lease
    BY DEF Close, Moves, Inv, Typed, heard
  <1>11. (session[s].pc \in Out) <=> (n.pc \in Out)
    BY <1>1, <1>2 DEF Out
  <1> HIDE DEF n, c
  <1> QED BY <1>2, <1>8, <1>9, <1>10, <1>11, MoveKeepsInv

LEMMA DropLeaseKeepsInv == ASSUME Inv, NEW s \in Sockets, DropLease(s) PROVE Inv'
  <1> DEFINE n == [NoSession EXCEPT !.pc = "telling", !.fallback = session[s].fallback]
  <1>1. session[s] \in SessionType /\ session[s].pc = "dropping"
    BY DEF Inv, Typed, DropLease, At
  <1>2. 0 \in 0 .. MaxCandidates /\ 0 \in 0 .. MaxMissed
    BY SignalingAssumption
  <1>3. n \in SessionType /\ n.pc = "telling" /\ ~n.activated /\ ~n.cooling
    BY <1>1, <1>2 DEF SessionType, NoSession, Pcs, Ids
  <1>4. NoCloud \in CloudType
    BY DEF NoCloud, CloudType
  <1>5. Moves(s, n, NoCloud)
    BY DEF DropLease, Moves
  <1>6. Opened(n, NoCloud) /\ Ordered(n, NoCloud)
    BY <1>3 DEF Opened, Ordered, NoCloud, Early, Open, Out
  <1> HIDE DEF n
  <1>7. Typed' /\ Fits'
    BY <1>3, <1>4, <1>5, <1>6, MoveFits DEF Inv
  <1>8. session'[s].pc = "telling" /\ \A t \in Sockets \ {s} : session'[t] = session[t]
    BY <1>3, <1>5 DEF Moves, Inv, Typed
  <1>9. lease = {s} /\ lease' = {}
    BY <1>1 DEF Inv, Held, DropLease, At
  <1>10. \A t \in Sockets \ {s} : session[t].pc \in Out
    BY <1>9 DEF Inv, Held, At, Out
  <1>11. Held'
    BY <1>8, <1>9, <1>10 DEF Held, At, Out
  <1> QED BY <1>7, <1>11 DEF Inv

LEMMA TellKeepsInv == ASSUME Inv, NEW s \in Sockets, Tell(s) PROVE Inv'
  <1>1. cloud[s] \in CloudType /\ session[s].pc = "telling"
    BY DEF Inv, Typed, Tell, At
  <1>2. 0 \in 0 .. MaxCandidates /\ 0 \in 0 .. MaxMissed
    BY SignalingAssumption
  <1>3. NoSession \in SessionType /\ NoSession.pc = "idle" /\ ~NoSession.activated
    BY <1>2 DEF SessionType, NoSession, Pcs, Ids
  <1>4. Moves(s, NoSession, cloud[s]) /\ UNCHANGED lease
    BY DEF Tell, Moves, Inv, Typed
  <1>5. Opened(session[s], cloud[s])
    BY DEF Inv, Fits
  <1>6. Opened(NoSession, cloud[s]) /\ Ordered(NoSession, cloud[s])
    BY <1>1, <1>3, <1>5 DEF Opened, Ordered, Early, Open, Out
  <1>7. (session[s].pc \in Out) <=> (NoSession.pc \in Out)
    BY <1>1, <1>3 DEF Out
  <1> QED BY <1>1, <1>3, <1>4, <1>6, <1>7, MoveKeepsInv

LEMMA NextKeepsInv == ASSUME Inv, [Next]_vars PROVE Inv'
  <1>1. ASSUME NEW s \in Sockets, Upgrade(s) \/ Straight(s) \/ Loop(s) \/ Deadline(s)
        PROVE  Inv'
    <2>1. CASE Loop(s) \/ Deadline(s)
      BY <2>1, LoopSteps
    <2>2. CASE Upgrade(s) \/ Target(s) \/ Connect(s) \/ Offer(s) \/ LiveView(s)
      BY <2>2, UpgradeKeepsInv, TargetKeepsInv, ConnectKeepsInv, OfferKeepsInv, LiveViewKeepsInv
    <2>3. CASE Disconnect(s)
      BY <2>3, ReturnKeepsInv DEF Disconnect, At
    <2>4. CASE Close(s) \/ DropLease(s) \/ Tell(s)
      BY <2>4, CloseKeepsInv, DropLeaseKeepsInv, TellKeepsInv
    <2> QED BY <1>1, <2>1, <2>2, <2>3, <2>4 DEF Straight
  <1>2. CASE UNCHANGED vars
    BY <1>2 DEF vars, Inv, Typed, Held, Fits, Opened, Ordered, At
  <1> QED BY <1>1, <1>2 DEF Next

----------------------------------------------------------------------------
(* The theorems. *)

LEMMA InvHolds == Spec => []Inv
  BY InitHolds, NextKeepsInv, PTL DEF Spec

(* Sessions, provider sockets and the lease keep their types; candidates and *)
(* lost pings never pass their limits.                                       *)
THEOREM TypeCorrect == Spec => []TypeOK
  <1>1. Inv => TypeOK
    BY DEF Inv, Typed, Held, TypeOK, SessionType, CloudType
  <1> QED BY <1>1, InvHolds, PTL

(* However a session of the broker ends, its provider socket is inside its   *)
(* lease, its live view is closed once, and the lease is free by the time    *)
(* the browser is told to use the compatible stream.                        *)
THEOREM LeaseCovers == Spec => []LeaseCoversSession
  <1>1. Inv => OneLivePerCamera
    BY DEF Inv, Held, Fits, Opened, OneLivePerCamera, At, Open
  <1>2. Inv => LiveIsClosed
    BY DEF Inv, Fits, Opened, LiveIsClosed
  <1>3. Inv => FallbackIsFree
    BY DEF Inv, Held, FallbackIsFree, At
  <1> QED BY <1>1, <1>2, <1>3, InvHolds, PTL DEF LeaseCoversSession

(* What the provider hears on one socket belongs to one session, and the     *)
(* microphone is never on before the session is activated and its options    *)
(* are sent, nor during the cooldown of an override.                        *)
THEOREM CommandsStayInOrder == Spec => []CommandsAreInOrder
  <1>1. Inv => OneSessionId
    BY DEF Inv, Fits, Ordered, OneSessionId, At
  <1>2. Inv => MicIsPrepared
    BY DEF Inv, Fits, Ordered, MicIsPrepared
  <1> QED BY <1>1, <1>2, InvHolds, PTL DEF CommandsAreInOrder
============================================================================
