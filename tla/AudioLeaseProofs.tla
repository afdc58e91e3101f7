-------------------------- MODULE AudioLeaseProofs --------------------------
(***************************************************************************)
(* Proofs about AudioLease for every number of sockets, connections and    *)
(* epochs: type correctness, one talker, AAC between its own Start and     *)
(* Stop, and no change that the waiting stream has missed.                 *)
(***************************************************************************)
EXTENDS AudioLease, TLAPS

(* The inductive invariant, in two halves.  Ownership: no lease, queued      *)
(* frame or frame in hand is from a future epoch, two sockets never hold     *)
(* the same epoch, and an owner is a socket of the open connection.          *)
EpochsAreBounded ==
    /\ \A s \in Sockets : lease[s].epoch <= audio.epoch
    /\ \A i \in 1 .. Len(queue) : queue[i].epoch <= audio.epoch
    /\ link.frame.epoch <= audio.epoch
LeasesDiffer ==
    \A s, t \in Sockets : lease[s].epoch # 0 /\ lease[s].epoch = lease[t].epoch => s = t
OwnerIsSocket ==
    /\ audio.connected <=> link.pc # "closed"
    /\ audio.owned => /\ audio.connected /\ PolicyAllows
                      /\ audio.epoch > 0
                      /\ \E s \in Sockets : Holds(s)
Ownership == EpochsAreBounded /\ LeasesDiffer /\ OwnerIsSocket

(* The transport: the Uplink remembers what the camera was told; a frame     *)
(* about to be written, if still current, is of the epoch that was started; *)
(* and what the stream has read is up to date unless it has been woken.     *)
Told ==
    /\ remote.talk = link.started /\ remote.command = link.sent
    /\ link.pc = "closed" => link.started = 0 /\ link.sent = "none"
FrameStarted ==
    audio.multi = "yes" =>
        /\ link.pc = "begin" /\ Current(link.frame) => link.started = link.frame.epoch
        /\ link.pc = "writing" => link.started = link.frame.epoch

CommandKnown ==
    /\ link.pc = "commanding" => link.word = audio.request
    /\ link.pc \in {"desire", "stopping", "recheck", "starting", "verify", "pairing", "select"}
           => audio.request \in {"none", link.sent}
TalkKnown ==
    audio.multi = "yes" =>
        /\ link.pc = "recheck" => link.started \in {0, Desired}
        /\ link.pc \in {"starting", "verify"} => link.aim = Desired
        /\ link.pc = "select" => link.started = Desired
UpToDate ==
    /\ ~ changed => CommandKnown /\ TalkKnown /\ link.pc # "pairing"
    /\ link.pc = "verify" => link.started = link.aim
    /\ link.pc \in {"stopping", "recheck", "starting", "verify", "pairing"} => audio.multi = "yes"
Transport == Told /\ FrameStarted /\ UpToDate

(* Types, the queue apart. *)
StateOK ==
    /\ audio \in AudioType /\ link \in LinkType /\ remote \in RemoteType
    /\ changed \in BOOLEAN /\ viewer \in BOOLEAN
SocketsOK ==
    /\ lease \in [Sockets -> LeaseType]
    /\ joined \in [Sockets -> BOOLEAN] /\ unseen \in [Sockets -> BOOLEAN]
QueueOK == queue \in Seq(LeaseType) /\ Len(queue) <= QueueDepth

USE DEF sharedVars, socketVars

-----------------------------------------------------------------------------
(* Type correctness. *)

LEMMA RevokedKeepsType ==
    ASSUME NEW a \in AudioType
    PROVE  Revoked(a) \in AudioType
  <1>1. a.epoch + 1 \in Nat
    BY DEF AudioType
  <1> QED
    BY <1>1 DEF Revoked, AudioType

LEMMA AudioStep == StateOK /\ SocketsOK /\ QueueOK /\ [Next]_vars => audio' \in AudioType
  <1> SUFFICES ASSUME StateOK, SocketsOK, QueueOK, [Next]_vars PROVE audio' \in AudioType
    OBVIOUS
  <1> USE DEF StateOK
  <1>h. MaxGeneration \in Nat
    BY AudioAssumption
  <1>r. Revoked(audio) \in AudioType
    BY RevokedKeepsType
  <1>c. Closed => audio' \in AudioType
    BY <1>r DEF Closed, AudioType
  <1>d. ASSUME NEW s \in Sockets PROVE Dropped(s) => audio' \in AudioType
    BY <1>r DEF Dropped
  <1>1. CASE Connect
    <2>1. PICK policy \in Policies :
             audio' = [Revoked(audio) EXCEPT
                         !.generation = @ + 1, !.format = "none", !.counted = FALSE,
                         !.connected = TRUE, !.multi = policy, !.available = "unknown",
                         !.request = "none"]
      BY <1>1 DEF Connect
    <2>2. Revoked(audio).generation + 1 \in 0 .. MaxGeneration
      BY <1>1, <1>h, <1>r DEF Connect, Revoked, AudioType
    <2> QED
      BY <2>1, <2>2, <1>r DEF AudioType
  <1>2. CASE Disconnect \/ LoopTop \/ Tick \/ Receive
    BY <1>2, <1>c DEF Disconnect, LoopTop, Tick, Receive, Go
  <1>3. ASSUME NEW yes \in {"yes", "no"}, ObserveAvailability(yes) PROVE audio' \in AudioType
    <2>1. [audio EXCEPT !.available = yes] \in AudioType
      BY DEF AudioType
    <2> QED
      BY <1>3, <2>1, RevokedKeepsType DEF ObserveAvailability, Observed, Available
  <1>4. ASSUME NEW format \in Offers, ObserveOffer(format) PROVE audio' \in AudioType
    <2>1. Offered(format) \in AudioType
      BY <1>r DEF Offered, AudioType
    <2> QED
      BY <1>4, <2>1 DEF ObserveOffer, Observed
  <1>5. ASSUME NEW s \in Sockets, Socket(s) PROVE audio' \in AudioType
    <2>1. CASE Claim(s)
      <3>1. audio.epoch + 1 \in Nat
        BY DEF AudioType
      <3> QED
        BY <2>1, <3>1 DEF Claim, AudioType
    <2> QED
      BY <1>5, <2>1, <1>d DEF Socket, JoinSocket, LeaveSocket, StopMicrophone, DropLease, Submit,
         SubmitStale, StatusChanged
  <1>6. ASSUME NEW word \in Commands, RequestRecording(word) PROVE audio' \in AudioType
    BY <1>6 DEF RequestRecording, AudioType
  <1>7. CASE FrameWritten
    BY <1>7 DEF FrameWritten, AudioType
  <1>8. CASE CommandWritten \/ StopWritten \/ StartWritten
    BY <1>8 DEF CommandWritten, StopWritten, StartWritten
  <1>9. CASE ReadRequest \/ ReadDesire \/ Recheck \/ Verify \/ CheckFrame \/ ConfirmStart
             \/ BeginFrame \/ Wake \/ Read \/ EventsProcessed
    BY <1>9 DEF ReadRequest, ReadDesire, Recheck, Verify, CheckFrame, ConfirmStart, BeginFrame,
       Wake, Read, EventsProcessed, Go
  <1>10. CASE ObserveRecording \/ ViewerChanges \/ SetSessionClock \/ UNCHANGED vars
    BY <1>10 DEF SetSessionClock, ObserveRecording, ViewerChanges, vars
  <1> QED
    BY <1>1, <1>2, <1>3, <1>4, <1>5, <1>6, <1>7, <1>8, <1>9, <1>10
    DEF Next, Write, Look, Select, Observe

LEMMA LinkStep == StateOK /\ QueueOK /\ [Next]_vars => link' \in LinkType /\ remote' \in RemoteType
  <1> SUFFICES ASSUME StateOK, QueueOK, [Next]_vars PROVE link' \in LinkType /\ remote' \in RemoteType
    OBVIOUS
  <1> USE DEF StateOK
  <1>u. UNCHANGED <<link, remote>> => link' \in LinkType /\ remote' \in RemoteType
    OBVIOUS
  <1>d. Desired \in Nat
    BY DEF Desired, AudioType
  <1>c. Closed => link' \in LinkType /\ remote' \in RemoteType
    BY DEF Closed, Idle, Untold, LinkType, RemoteType, NoFrame, NoLease, LeaseType, Places
  <1>r. Reconciled(link) \in LinkType
    BY DEF Reconciled, LinkType, Places
  <1>s. Discard \in LinkType
    BY DEF Discard, LinkType, Places, NoFrame, NoLease, LeaseType
  <1>1. CASE Connect
    BY <1>1 DEF Connect, Idle, LinkType, NoFrame, NoLease, LeaseType, Places
  <1>2. CASE Disconnect \/ LoopTop \/ Tick
    <2>1. [link EXCEPT !.pc = "request", !.frame = NoFrame] \in LinkType
      BY DEF LinkType, NoFrame, NoLease, LeaseType, Places
    <2>2. [link EXCEPT !.pc = "top"] \in LinkType
      BY DEF LinkType, Places
    <2> QED
      BY <1>2, <1>c, <2>1, <2>2 DEF Disconnect, LoopTop, Tick, Go
  <1>3. CASE Receive
    <2>1. queue # << >> => Head(queue) \in LeaseType
      BY DEF QueueOK
    <2> QED
      BY <1>3, <1>c, <2>1 DEF Receive, LinkType, Places
  <1>4. CASE ReadRequest \/ CommandWritten
    BY <1>4 DEF ReadRequest, CommandWritten, Go, LinkType, RemoteType, AudioType, Places
  <1>5. CASE ReadDesire \/ Recheck \/ Verify
    BY <1>5, <1>r, <1>d DEF ReadDesire, Recheck, Verify, Go, LinkType, Places
  <1>6. CASE StartWritten
    BY <1>6 DEF StartWritten, LinkType, RemoteType, Places
  <1>7. CASE StopWritten
    BY <1>7 DEF StopWritten, Reconciled, LinkType, RemoteType, Places
  <1>8. CASE CheckFrame \/ ConfirmStart \/ BeginFrame
    BY <1>8, <1>s DEF CheckFrame, ConfirmStart, BeginFrame, Go, LinkType, Places
  <1>9. CASE FrameWritten
    BY <1>9, <1>s DEF FrameWritten
  <1>10. CASE Wake \/ Read \/ EventsProcessed
    BY <1>10 DEF Wake, Read, EventsProcessed, Go, LinkType, Places
  <1>11. CASE Observe
    BY <1>11, <1>u DEF Observe, ObserveAvailability, ObserveOffer, ObserveRecording, Observed
  <1>12. ASSUME NEW s \in Sockets, Socket(s) PROVE UNCHANGED <<link, remote>>
    BY <1>12 DEF Socket, JoinSocket, LeaveSocket, StopMicrophone, Claim, Submit, SubmitStale,
       StatusChanged
  <1>13. ASSUME NEW word \in Commands, RequestRecording(word) PROVE UNCHANGED <<link, remote>>
    BY <1>13 DEF RequestRecording
  <1>14. CASE ViewerChanges \/ SetSessionClock \/ UNCHANGED vars
    BY <1>14, <1>u DEF ViewerChanges, SetSessionClock, vars
  <1> QED
    BY <1>1, <1>2, <1>3, <1>4, <1>5, <1>6, <1>7, <1>8, <1>9, <1>10, <1>11, <1>12, <1>13, <1>14, <1>u
    DEF Next, Write, Look, Select

LEMMA SocketsStep == StateOK /\ SocketsOK /\ [Next]_vars => SocketsOK'
  <1> SUFFICES ASSUME StateOK, SocketsOK, [Next]_vars PROVE SocketsOK'
    OBVIOUS
  <1> USE DEF SocketsOK
  <1>p. (Publish \/ Silent) /\ UNCHANGED <<lease, joined>> => SocketsOK'
    BY DEF Publish, Silent
  <1>c. Closed => SocketsOK'
    BY DEF Closed
  <1>1. CASE Connect
    BY <1>1, <1>p DEF Connect
  <1>2. CASE Disconnect \/ LoopTop \/ Tick \/ Receive
    BY <1>2, <1>c DEF Disconnect, LoopTop, Tick, Receive, Go
  <1>3. CASE Observe
    BY <1>3, <1>p DEF Observe, ObserveAvailability, ObserveOffer, ObserveRecording, Observed
  <1>4. ASSUME NEW s \in Sockets, Socket(s) PROVE SocketsOK'
    <2>n. NoLease \in LeaseType
      BY DEF NoLease, LeaseType
    <2>d. Dropped(s) => Publish \/ Silent
      BY DEF Dropped
    <2>1. CASE JoinSocket(s) \/ LeaveSocket(s) \/ StatusChanged(s)
      BY <2>1, <2>n DEF JoinSocket, LeaveSocket, StatusChanged
    <2>2. CASE StopMicrophone(s) \/ SubmitStale(s)
      BY <2>2, <2>n, <2>d DEF SubmitStale, StopMicrophone, DropLease, Publish, Silent
    <2>3. CASE Claim(s)
      <3>1. [generation |-> audio.generation, epoch |-> audio.epoch + 1] \in LeaseType
        BY DEF StateOK, AudioType, LeaseType
      <3> QED
        BY <2>3, <3>1 DEF Claim, Publish
    <2>4. CASE Submit(s)
      BY <2>4 DEF Submit
    <2> QED
      BY <1>4, <2>1, <2>2, <2>3, <2>4 DEF Socket
  <1>5. ASSUME NEW word \in Commands, RequestRecording(word) PROVE SocketsOK'
    BY <1>5, <1>p DEF RequestRecording
  <1>6. CASE FrameWritten
    BY <1>6, <1>p DEF FrameWritten
  <1>7. CASE CommandWritten \/ StopWritten \/ StartWritten
    BY <1>7 DEF CommandWritten, StopWritten, StartWritten
  <1>8. CASE ReadRequest \/ ReadDesire \/ Recheck \/ Verify \/ CheckFrame \/ ConfirmStart
             \/ BeginFrame \/ Wake \/ Read \/ EventsProcessed
    BY <1>8 DEF ReadRequest, ReadDesire, Recheck, Verify, CheckFrame, ConfirmStart, BeginFrame,
       Wake, Read, EventsProcessed, Go
  <1>9. CASE ViewerChanges \/ SetSessionClock \/ UNCHANGED vars
    BY <1>9 DEF ViewerChanges, SetSessionClock, vars
  <1> QED
    BY <1>1, <1>2, <1>3, <1>4, <1>5, <1>6, <1>7, <1>8, <1>9 DEF Next, Write, Look, Select

LEMMA QueueStep == StateOK /\ SocketsOK /\ QueueOK /\ [Next]_vars => QueueOK' /\ viewer' \in BOOLEAN /\ changed' \in BOOLEAN
  <1> SUFFICES ASSUME StateOK, SocketsOK, QueueOK, [Next]_vars
               PROVE  QueueOK' /\ viewer' \in BOOLEAN /\ changed' \in BOOLEAN
    OBVIOUS
  <1> DEFINE OK == QueueOK' /\ viewer' \in BOOLEAN /\ changed' \in BOOLEAN
  <1> USE DEF QueueOK
  <1>h. QueueDepth \in Nat \ {0}
    BY AudioAssumption
  <1>v. viewer \in BOOLEAN /\ changed \in BOOLEAN
    BY DEF StateOK
  <1>e. << >> \in Seq(LeaseType) /\ Len(<< >>) = 0
    OBVIOUS
  <1>p. (Publish \/ Silent) /\ UNCHANGED <<queue, viewer>> => OK
    BY <1>v DEF Publish, Silent
  <1>c. Closed => OK
    <2>1. Closed => queue' = << >> /\ viewer' = viewer /\ changed' = FALSE
      BY DEF Closed
    <2>2. Closed => QueueOK'
      BY <2>1, <1>e, <1>h
    <2>3. Closed => viewer' \in BOOLEAN /\ changed' \in BOOLEAN
      BY <2>1, <1>v
    <2> QED
      BY <2>2, <2>3
  <1>1. CASE Connect
    <2>1. queue' = << >> /\ viewer' = viewer /\ changed' = TRUE
      BY <1>1 DEF Connect, Publish
    <2> QED
      BY <2>1, <1>e, <1>h, <1>v
  <1>2. CASE Disconnect \/ LoopTop \/ Tick
    BY <1>2, <1>c, <1>v DEF Disconnect, LoopTop, Tick, Go
  <1>3. CASE Receive
    <2>1. queue # << >> => Tail(queue) \in Seq(LeaseType) /\ Len(Tail(queue)) <= QueueDepth
      BY <1>h
    <2> QED
      BY <1>3, <1>c, <2>1, <1>v DEF Receive
  <1>4. CASE Observe
    BY <1>4, <1>p DEF Observe, ObserveAvailability, ObserveOffer, ObserveRecording, Observed
  <1>5. ASSUME NEW s \in Sockets, Socket(s) PROVE OK
    <2>1. CASE Submit(s)
      <3>1. lease[s] \in LeaseType
        BY DEF SocketsOK
      <3>2. Append(queue, lease[s]) \in Seq(LeaseType) /\ Len(Append(queue, lease[s])) = Len(queue) + 1
        BY <3>1
      <3> QED
        BY <2>1, <3>2, <1>h, <1>v DEF Submit, HasRoom
    <2>2. Dropped(s) => Publish \/ Silent
      BY DEF Dropped
    <2> QED
      BY <1>5, <2>1, <2>2, <1>p, <1>v DEF Socket, JoinSocket, LeaveSocket, StopMicrophone, DropLease, Claim,
         SubmitStale, StatusChanged
  <1>6. ASSUME NEW word \in Commands, RequestRecording(word) PROVE OK
    BY <1>6, <1>p DEF RequestRecording
  <1>7. CASE FrameWritten
    BY <1>7, <1>p DEF FrameWritten
  <1>8. CASE CommandWritten \/ StopWritten \/ StartWritten
    BY <1>8, <1>v DEF CommandWritten, StopWritten, StartWritten
  <1>9. CASE ReadRequest \/ ReadDesire \/ Recheck \/ Verify \/ CheckFrame \/ ConfirmStart
             \/ BeginFrame \/ Wake \/ Read \/ EventsProcessed
    BY <1>9, <1>v DEF ReadRequest, ReadDesire, Recheck, Verify, CheckFrame, ConfirmStart, BeginFrame,
       Wake, Read, EventsProcessed, Go
  <1>10. CASE ViewerChanges \/ SetSessionClock \/ UNCHANGED vars
    BY <1>10, <1>v DEF ViewerChanges, SetSessionClock, vars
  <1> QED
    BY <1>1, <1>2, <1>3, <1>4, <1>5, <1>6, <1>7, <1>8, <1>9, <1>10 DEF Next, Write, Look, Select

-----------------------------------------------------------------------------
(* Ownership. *)

Typed == StateOK /\ SocketsOK /\ QueueOK

(* A step that touches neither the leases nor the owner, and at most lets go *)
(* of the frame in hand.                                                    *)
LeaseQuiet ==
    /\ UNCHANGED <<queue, lease>>
    /\ link'.frame \in {link.frame, NoFrame}
    /\ link'.pc # "closed" <=> link.pc # "closed"
    /\ audio'.generation = audio.generation /\ audio'.epoch = audio.epoch
    /\ audio'.owned = audio.owned /\ audio'.connected = audio.connected
    /\ PolicyAllows => PolicyAllows'

LEMMA LeaseQuietStep == Typed /\ Ownership /\ LeaseQuiet => Ownership'
  <1> SUFFICES ASSUME Typed, Ownership, LeaseQuiet PROVE Ownership'
    OBVIOUS
  <1> USE DEF Ownership, LeaseQuiet
  <1>1. EpochsAreBounded'
    BY DEF EpochsAreBounded, NoFrame, NoLease, Typed, StateOK, AudioType
  <1>2. LeasesDiffer'
    BY DEF LeasesDiffer
  <1>3. OwnerIsSocket'
    BY DEF OwnerIsSocket, Holds
  <1> QED
    BY <1>1, <1>2, <1>3

(* A step that revokes: the epoch moves on, nobody owns it, and leases,      *)
(* frames and queue only lose members.                                      *)
Revoking ==
    /\ audio'.epoch = audio.epoch + 1 /\ audio'.owned = FALSE
    /\ lease' = lease \/ \E s \in Sockets : lease' = [lease EXCEPT ![s] = NoLease]
    /\ queue' \in {queue, << >>}
    /\ link'.frame \in {link.frame, NoFrame}
    /\ audio'.connected <=> link'.pc # "closed"

LEMMA RevokingStep == Typed /\ Ownership /\ Revoking => Ownership'
  <1> SUFFICES ASSUME Typed, Ownership, Revoking PROVE Ownership'
    OBVIOUS
  <1> USE DEF Ownership, Revoking
  <1>e. audio.epoch \in Nat /\ link.frame.epoch \in Nat /\ Len(queue) \in Nat
    BY DEF Typed, StateOK, AudioType, LinkType, LeaseType, QueueOK
  <1>l. \A s \in Sockets : lease[s].epoch \in Nat /\ lease'[s] \in {lease[s], NoLease}
    BY DEF Typed, SocketsOK, LeaseType
  <1>q. ASSUME NEW i \in 1 .. Len(queue) PROVE queue[i].epoch \in Nat
    <2>1. queue[i] \in LeaseType
      BY DEF Typed, QueueOK
    <2> QED
      BY <2>1 DEF LeaseType
  <1>1. EpochsAreBounded'
    <2>1. ASSUME NEW s \in Sockets PROVE lease'[s].epoch <= audio'.epoch
      <3>1. CASE lease'[s] = lease[s]
        BY <3>1, <1>e, <1>l DEF EpochsAreBounded
      <3>2. CASE lease'[s] = NoLease
        BY <3>2, <1>e DEF NoLease
      <3> QED
        BY <3>1, <3>2, <1>l
    <2>2. \A i \in 1 .. Len(queue') : queue'[i].epoch <= audio'.epoch
      <3>1. CASE queue' = queue
        BY <3>1, <1>e, <1>q DEF EpochsAreBounded
      <3>2. CASE queue' = << >>
        BY <3>2
      <3> QED
        BY <3>1, <3>2
    <2>3. link'.frame.epoch <= audio'.epoch
      BY <1>e DEF EpochsAreBounded, NoFrame, NoLease
    <2> QED
      BY <2>1, <2>2, <2>3 DEF EpochsAreBounded
  <1>2. LeasesDiffer'
    <2>1. \A s \in Sockets : lease'[s].epoch \in {lease[s].epoch, 0}
      BY <1>l DEF NoLease
    <2> QED
      BY <2>1 DEF LeasesDiffer
  <1>3. OwnerIsSocket'
    BY DEF OwnerIsSocket
  <1> QED
    BY <1>1, <1>2, <1>3

(* A socket whose lease does not own the microphone lets go of it. *)
LEMMA LetGoStep ==
    ASSUME NEW s \in Sockets, Typed, Ownership, ~ Holds(s), UNCHANGED <<audio, queue, link>>,
           lease' = [lease EXCEPT ![s] = NoLease]
    PROVE  Ownership'
  <1> USE DEF Ownership
  <1>e. audio.epoch \in Nat
    BY DEF Typed, StateOK, AudioType
  <1>l. ASSUME NEW t \in Sockets PROVE lease'[t] = IF t = s THEN NoLease ELSE lease[t]
    BY DEF Typed, SocketsOK
  <1>1. EpochsAreBounded'
    <2>1. ASSUME NEW t \in Sockets PROVE lease'[t].epoch <= audio.epoch
      BY <1>e, <1>l DEF EpochsAreBounded, NoLease
    <2> QED
      BY <2>1 DEF EpochsAreBounded
  <1>2. LeasesDiffer'
    <2>1. \A t \in Sockets : lease'[t].epoch \in {lease[t].epoch, 0}
      BY <1>l DEF NoLease
    <2> QED
      BY <2>1 DEF LeasesDiffer
  <1>3. OwnerIsSocket'
    <2>1. ASSUME NEW t \in Sockets, Holds(t) PROVE Holds(t)'
      <3>1. t # s
        BY <2>1
      <3> QED
        BY <2>1, <3>1, <1>l DEF Holds
    <2>2. PolicyAllows' = PolicyAllows
      BY DEF PolicyAllows
    <2> QED
      BY <2>1, <2>2 DEF OwnerIsSocket
  <1> QED
    BY <1>1, <1>2, <1>3

LEMMA ClaimStep ==
    ASSUME NEW s \in Sockets, Typed, Ownership, Claim(s)
    PROVE  Ownership'
  <1> USE DEF Ownership
  <1>e. audio.epoch \in Nat /\ link.frame.epoch \in Nat
    BY DEF Typed, StateOK, AudioType, LinkType, LeaseType
  <1>t. ASSUME NEW t \in Sockets PROVE lease[t].epoch \in Nat
    BY DEF Typed, SocketsOK, LeaseType
  <1>a. /\ audio'.epoch = audio.epoch + 1 /\ audio'.owned
        /\ audio'.connected = audio.connected /\ audio'.generation = audio.generation
        /\ audio'.multi = audio.multi /\ audio'.available = audio.available
    BY DEF Claim, Typed, StateOK, AudioType
  <1>l. ASSUME NEW t \in Sockets
        PROVE  lease'[t] = IF t = s THEN [generation |-> audio.generation, epoch |-> audio.epoch + 1]
                           ELSE lease[t]
    BY DEF Claim, Typed, SocketsOK
  <1>u. UNCHANGED <<queue, link>> /\ audio.connected /\ PolicyAllows
    BY DEF Claim
  <1>1. EpochsAreBounded'
    <2>1. ASSUME NEW t \in Sockets PROVE lease'[t].epoch <= audio'.epoch
      BY <1>e, <1>t, <1>l, <1>a DEF EpochsAreBounded
    <2>2. ASSUME NEW i \in 1 .. Len(queue) PROVE queue[i].epoch <= audio'.epoch
      <3>1. queue[i] \in LeaseType
        BY DEF Typed, QueueOK
      <3> QED
        BY <3>1, <1>e, <1>a DEF EpochsAreBounded, LeaseType
    <2> QED
      BY <2>1, <2>2, <1>e, <1>a, <1>u DEF EpochsAreBounded
  <1>2. LeasesDiffer'
    <2>1. ASSUME NEW t \in Sockets PROVE lease[t].epoch # audio.epoch + 1
      BY <1>e, <1>t DEF EpochsAreBounded
    <2> QED
      BY <2>1, <1>l DEF LeasesDiffer
  <1>3. OwnerIsSocket'
    <2>1. Holds(s)'
      BY <1>l, <1>a DEF Holds
    <2>2. PolicyAllows'
      BY <1>a, <1>u DEF PolicyAllows
    <2> QED
      BY <2>1, <2>2, <1>a, <1>e, <1>u DEF OwnerIsSocket
  <1> QED
    BY <1>1, <1>2, <1>3

(* Frames enter the queue and leave it: the owner is not concerned. *)
LEMMA FramesStep ==
    ASSUME Typed, Ownership, UNCHANGED <<audio, lease>>,
           link'.pc # "closed" <=> link.pc # "closed",
           \/ \E s \in Sockets : Submit(s)
           \/ queue # << >> /\ queue' = Tail(queue) /\ link'.frame = Head(queue)
    PROVE  Ownership'
  <1> USE DEF Ownership
  <1>q. queue \in Seq(LeaseType)
    BY DEF Typed, QueueOK
  <1>1. EpochsAreBounded'
    <2>1. ASSUME NEW s \in Sockets, Submit(s) PROVE EpochsAreBounded'
      <3>1. lease[s] \in LeaseType /\ lease[s].epoch <= audio.epoch
        BY DEF Typed, SocketsOK, EpochsAreBounded
      <3>2. queue' = Append(queue, lease[s]) /\ link' = link
        BY <2>1 DEF Submit
      <3>3. ASSUME NEW i \in 1 .. Len(queue') PROVE queue'[i].epoch <= audio.epoch
        BY <1>q, <3>1, <3>2, <3>3 DEF EpochsAreBounded
      <3> QED
        BY <3>2, <3>3 DEF EpochsAreBounded
    <2>2. CASE queue # << >> /\ queue' = Tail(queue) /\ link'.frame = Head(queue)
      <3>1. ASSUME NEW i \in 1 .. Len(Tail(queue)) PROVE Tail(queue)[i].epoch <= audio.epoch
        <4>1. i + 1 \in 1 .. Len(queue) /\ Tail(queue)[i] = queue[i + 1]
          BY <1>q, <2>2
        <4> QED
          BY <4>1 DEF EpochsAreBounded
      <3>2. Head(queue).epoch <= audio.epoch
        <4>1. 1 \in 1 .. Len(queue) /\ Head(queue) = queue[1]
          BY <1>q, <2>2
        <4> QED
          BY <4>1 DEF EpochsAreBounded
      <3> QED
        BY <2>2, <3>1, <3>2 DEF EpochsAreBounded
    <2> QED
      BY <2>1, <2>2
  <1>2. LeasesDiffer'
    BY DEF LeasesDiffer
  <1>3. OwnerIsSocket'
    BY DEF OwnerIsSocket, Holds, PolicyAllows
  <1> QED
    BY <1>1, <1>2, <1>3

(* Each step is of one of these kinds. *)
LEMMA CloseRevokes == Typed /\ Closed => Revoking
  BY DEF Closed, Revoked, Revoking, Idle, Typed, StateOK, AudioType

LEMMA DropStep ==
    ASSUME NEW s \in Sockets, Typed, Ownership, DropLease(s), UNCHANGED <<queue, link>>
    PROVE  Ownership'
  <1>1. CASE Holds(s)
    <2>1. Revoking
      BY <1>1 DEF DropLease, Dropped, Holds, Revoked, Revoking, Ownership, OwnerIsSocket,
         Typed, StateOK, AudioType
    <2> QED
      BY <2>1, RevokingStep
  <1>2. CASE ~ Holds(s)
    BY <1>2, LetGoStep DEF DropLease, Dropped
  <1> QED
    BY <1>1, <1>2

LEMMA ObserveStep ==
    ASSUME Typed, Ownership, Observe
    PROVE  Ownership'
  <1>t. audio \in AudioType
    BY DEF Typed, StateOK
  <1>s. UNCHANGED <<queue, lease, link>>
    BY DEF Observe, ObserveAvailability, ObserveOffer, ObserveRecording, Observed
  <1>c. audio.connected <=> link.pc # "closed"
    BY DEF Ownership, OwnerIsSocket
  <1>q. UNCHANGED audio => LeaseQuiet
    BY <1>s DEF LeaseQuiet, PolicyAllows
  <1>1. ASSUME NEW yes \in {"yes", "no"}, ObserveAvailability(yes) PROVE LeaseQuiet \/ Revoking
    <2>1. CASE audio' = audio
      BY <2>1, <1>q
    <2>2. CASE yes = "no" /\ audio.multi = "yes" /\ audio' = Available(yes)
      BY <2>2, <1>t, <1>s, <1>c DEF Available, Revoked, Revoking, AudioType
    <2>3. CASE ~ (yes = "no" /\ audio.multi = "yes") /\ audio' = Available(yes)
      BY <2>3, <1>t, <1>s DEF Available, LeaseQuiet, PolicyAllows, AudioType
    <2> QED
      BY <1>1, <2>1, <2>2, <2>3 DEF ObserveAvailability, Observed
  <1>2. ASSUME NEW format \in Offers, ObserveOffer(format) PROVE LeaseQuiet \/ Revoking
    <2>1. CASE audio' = audio
      BY <2>1, <1>q
    <2>2. CASE audio' = Offered(format)
      BY <2>2, <1>t, <1>s, <1>c DEF Offered, Revoked, Revoking, AudioType
    <2> QED
      BY <1>2, <2>1, <2>2 DEF ObserveOffer, Observed
  <1>3. ObserveRecording => LeaseQuiet
    BY <1>q DEF ObserveRecording
  <1> QED
    BY <1>1, <1>2, <1>3, LeaseQuietStep, RevokingStep DEF Observe

LEMMA SocketStep ==
    ASSUME NEW s \in Sockets, Typed, Ownership, Socket(s)
    PROVE  Ownership'
  <1>q. UNCHANGED <<audio, queue, lease, link>> => LeaseQuiet
    BY DEF LeaseQuiet, PolicyAllows
  <1>1. CASE JoinSocket(s) \/ LeaveSocket(s)
    BY <1>1, <1>q, LeaseQuietStep DEF JoinSocket, LeaveSocket
  <1>2. CASE StopMicrophone(s) \/ SubmitStale(s)
    BY <1>2, DropStep DEF StopMicrophone, SubmitStale
  <1>3. CASE Claim(s)
    BY <1>3, ClaimStep
  <1>4. CASE Submit(s)
    BY <1>4, FramesStep DEF Submit
  <1>5. CASE StatusChanged(s)
    <2>1. CASE audio.owned
      <3>1. lease' = lease
        BY <1>5, <2>1 DEF StatusChanged, Typed, SocketsOK
      <3> QED
        BY <1>5, <3>1, <1>q, LeaseQuietStep DEF StatusChanged
    <2>2. CASE ~ audio.owned
      <3>1. lease' = [lease EXCEPT ![s] = NoLease] /\ UNCHANGED <<audio, queue, link>>
        BY <1>5, <2>2 DEF StatusChanged
      <3> QED
        BY <2>2, <3>1, LetGoStep DEF Holds
    <2> QED
      BY <2>1, <2>2
  <1> QED
    BY <1>1, <1>2, <1>3, <1>4, <1>5 DEF Socket

LEMMA OwnershipStep == Typed /\ Ownership /\ [Next]_vars => Ownership'
  <1> SUFFICES ASSUME Typed, Ownership, [Next]_vars PROVE Ownership'
    OBVIOUS
  <1>t. audio \in AudioType /\ link \in LinkType
    BY DEF Typed, StateOK
  <1>q. /\ UNCHANGED <<audio, queue, lease>>
        /\ link'.frame \in {link.frame, NoFrame}
        /\ link'.pc # "closed" <=> link.pc # "closed"
        => LeaseQuiet
    BY DEF LeaseQuiet, PolicyAllows
  <1>c. Closed => Ownership'
    BY CloseRevokes, RevokingStep
  <1>1. CASE Connect
    <2>1. Revoking
      BY <1>1, <1>t DEF Connect, Revoked, Revoking, Idle, AudioType
    <2> QED
      BY <2>1, RevokingStep
  <1>2. CASE LoopTop
    BY <1>2, <1>c, <1>q, <1>t, LeaseQuietStep DEF LoopTop, LinkType
  <1>3. CASE Tick
    BY <1>3, <1>c, <1>q, <1>t, LeaseQuietStep DEF Tick, Go, LinkType
  <1>4. CASE Receive
    <2>1. CASE Closed
      BY <2>1, <1>c
    <2>2. CASE ~ Closed
      <3>1. /\ UNCHANGED <<audio, lease>> /\ queue # << >> /\ queue' = Tail(queue)
            /\ link'.frame = Head(queue) /\ link'.pc # "closed" /\ link.pc # "closed"
        BY <1>4, <2>2, <1>t DEF Receive, LinkType
      <3> QED
        BY <3>1, FramesStep
    <2> QED
      BY <2>1, <2>2
  <1>5. CASE CommandWritten \/ StopWritten \/ StartWritten
    BY <1>5, <1>q, <1>t, LeaseQuietStep DEF CommandWritten, StopWritten, StartWritten, Reconciled, LinkType
  <1>6. CASE FrameWritten
    <2>1. LeaseQuiet
      BY <1>6, <1>t DEF FrameWritten, Discard, LeaseQuiet, PolicyAllows, AudioType, LinkType
    <2> QED
      BY <2>1, LeaseQuietStep
  <1>7. CASE ReadRequest \/ ReadDesire \/ Recheck \/ Verify
    BY <1>7, <1>q, <1>t, LeaseQuietStep
    DEF ReadRequest, ReadDesire, Recheck, Verify, Go, Reconciled, LinkType
  <1>8. CASE CheckFrame \/ ConfirmStart \/ BeginFrame \/ Wake \/ Read \/ EventsProcessed
    BY <1>8, <1>q, <1>t, LeaseQuietStep
    DEF CheckFrame, ConfirmStart, BeginFrame, Wake, Read, EventsProcessed, Go, Discard, LinkType
  <1>9. ASSUME NEW word \in Commands, RequestRecording(word) PROVE Ownership'
    <2>1. LeaseQuiet
      BY <1>9, <1>t DEF RequestRecording, LeaseQuiet, PolicyAllows, AudioType
    <2> QED
      BY <2>1, LeaseQuietStep
  <1>10. CASE ViewerChanges \/ SetSessionClock \/ UNCHANGED vars
    BY <1>10, <1>q, LeaseQuietStep DEF ViewerChanges, SetSessionClock, vars
  <1> QED
    BY <1>1, <1>2, <1>3, <1>4, <1>5, <1>6, <1>7, <1>8, <1>9, <1>10, <1>c, ObserveStep, SocketStep
    DEF Next, Disconnect, Write, Look, Select

-----------------------------------------------------------------------------
(* The transport. *)

(* A step of somebody else: whoever changes what the stream should do wakes  *)
(* it, and a lease that is no longer current never becomes current again.   *)
Bystander ==
    /\ UNCHANGED <<link, remote>>
    /\ audio'.multi = audio.multi
    /\ ~ changed' => ~ changed /\ Desired' = Desired /\ audio'.request = audio.request
    /\ link.pc = "begin" => (Current(link.frame)' => Current(link.frame))

LEMMA BystanderStep == Transport /\ Bystander => Transport'
  <1> SUFFICES ASSUME Transport, Bystander PROVE Transport'
    OBVIOUS
  <1> USE DEF Transport, Bystander
  <1>1. Told'
    BY DEF Told
  <1>2. FrameStarted'
    BY DEF FrameStarted
  <1>3. UpToDate'
    <2>1. ASSUME ~ changed' PROVE (CommandKnown /\ TalkKnown /\ link.pc # "pairing")'
      <3>1. CommandKnown /\ TalkKnown /\ link.pc # "pairing"
        BY <2>1 DEF UpToDate
      <3> QED
        BY <2>1, <3>1 DEF CommandKnown, TalkKnown
    <2> QED
      BY <2>1 DEF UpToDate
  <1> QED
    BY <1>1, <1>2, <1>3

LEMMA DropWakes ==
    ASSUME NEW s \in Sockets, Typed, Dropped(s), UNCHANGED <<link, remote>>
    PROVE  Bystander
  <1>1. CASE Holds(s)
    BY <1>1 DEF Dropped, Revoked, Publish, Bystander, Current, Typed, StateOK, AudioType
  <1>2. CASE ~ Holds(s)
    BY <1>2 DEF Dropped, Silent, Bystander, Current, Desired, PolicyAllows
  <1> QED
    BY <1>1, <1>2

LEMMA BystandersWake ==
    ASSUME Typed, Ownership,
           \/ Observe \/ ViewerChanges \/ SetSessionClock
           \/ \E s \in Sockets : Socket(s)
           \/ \E word \in Commands : RequestRecording(word)
    PROVE  Bystander
  <1>t. audio \in AudioType
    BY DEF Typed, StateOK
  <1>q. UNCHANGED <<audio, changed, link, remote>> => Bystander
    BY DEF Bystander, Current, Desired, PolicyAllows
  <1>1. ASSUME NEW yes \in {"yes", "no"}, ObserveAvailability(yes) PROVE Bystander
    <2>1. CASE audio' = audio
      BY <1>1, <2>1, <1>q DEF ObserveAvailability, Observed, Silent
    <2>2. CASE audio' = Available(yes) /\ audio' # audio
      BY <1>1, <2>2, <1>t
      DEF ObserveAvailability, Observed, Available, Revoked, Publish, Bystander, AudioType
    <2> QED
      BY <1>1, <2>1, <2>2 DEF ObserveAvailability, Observed
  <1>2. ASSUME NEW format \in Offers, ObserveOffer(format) PROVE Bystander
    <2>1. CASE audio' = audio
      BY <1>2, <2>1, <1>q DEF ObserveOffer, Observed, Silent
    <2>2. CASE audio' = Offered(format) /\ audio' # audio
      BY <1>2, <2>2, <1>t
      DEF ObserveOffer, Observed, Offered, Revoked, Publish, Bystander, AudioType
    <2> QED
      BY <1>2, <2>1, <2>2 DEF ObserveOffer, Observed
  <1>3. CASE ObserveRecording
    BY <1>3 DEF ObserveRecording, Publish, Bystander, Current, PolicyAllows
  <1>4. CASE ViewerChanges \/ SetSessionClock
    BY <1>4, <1>q DEF ViewerChanges, SetSessionClock
  <1>5. ASSUME NEW s \in Sockets, Socket(s) PROVE Bystander
    <2>1. CASE JoinSocket(s) \/ LeaveSocket(s) \/ Submit(s) \/ StatusChanged(s)
      BY <2>1, <1>q DEF JoinSocket, LeaveSocket, Submit, StatusChanged
    <2>2. CASE StopMicrophone(s) \/ SubmitStale(s)
      BY <2>2, DropWakes DEF StopMicrophone, SubmitStale, DropLease
    <2>3. CASE Claim(s)
      <3>1. ~ Current(link.frame)'
        <4>1. link.frame.epoch <= audio.epoch /\ link.frame.epoch \in Nat /\ audio.epoch \in Nat
          BY <1>t DEF Ownership, EpochsAreBounded, Typed, StateOK, LinkType, LeaseType, AudioType
        <4>2. audio'.epoch = audio.epoch + 1 /\ link' = link
          BY <2>3, <1>t DEF Claim, AudioType
        <4> QED
          BY <4>1, <4>2 DEF Current
      <3> QED
        BY <2>3, <3>1, <1>t DEF Claim, Publish, Bystander, AudioType
    <2> QED
      BY <1>5, <2>1, <2>2, <2>3 DEF Socket
  <1>6. ASSUME NEW word \in Commands, RequestRecording(word) PROVE Bystander
    BY <1>6, <1>t DEF RequestRecording, Publish, Bystander, Current, PolicyAllows, AudioType
  <1> QED
    BY <1>1, <1>2, <1>3, <1>4, <1>5, <1>6 DEF Observe

(* A step of the stream that neither learns nor tells anything. *)
Restful ==
    /\ UNCHANGED remote /\ link'.started = link.started /\ link'.sent = link.sent
    /\ link'.pc \in {"top", "request", "events", "check", "confirm"}

LEMMA RestfulStep == Transport /\ Restful => Transport'
  BY DEF Transport, Restful, Told, FrameStarted, UpToDate, CommandKnown, TalkKnown

LEMMA CloseStep == Transport /\ Closed => Transport'
  BY DEF Closed, Idle, Untold, Transport, Told, FrameStarted, UpToDate, CommandKnown, TalkKnown

(* The places of reconcile() keep what has been read of an unchanged state. *)
LEMMA ReconcileStep ==
    ASSUME Typed, Transport, ReadRequest \/ ReadDesire \/ Recheck \/ Verify
    PROVE  Transport'
  <1> USE DEF Transport
  <1>t. link \in LinkType
    BY DEF Typed, StateOK
  <1>u. UNCHANGED <<audio, changed, remote>> /\ Desired' = Desired
    BY DEF ReadRequest, ReadDesire, Recheck, Verify, Go, Desired, PolicyAllows
  <1>s. link'.started = link.started /\ link'.sent = link.sent
    BY <1>t DEF ReadRequest, ReadDesire, Recheck, Verify, Go, Reconciled, LinkType
  <1>p. link'.pc \notin {"begin", "writing", "closed"}
    BY <1>t DEF ReadRequest, ReadDesire, Recheck, Verify, Go, Reconciled, LinkType
  <1>1. Told'
    BY <1>u, <1>s, <1>p DEF Told
  <1>2. FrameStarted'
    BY <1>p DEF FrameStarted
  <1>3. CASE ReadRequest
    BY <1>1, <1>2, <1>3, <1>t, <1>u, <1>s
    DEF ReadRequest, Go, UpToDate, CommandKnown, TalkKnown, LinkType
  <1>4. CASE ReadDesire
    BY <1>1, <1>2, <1>4, <1>t, <1>u, <1>s
    DEF ReadDesire, Go, Reconciled, MustStop, UpToDate, CommandKnown, TalkKnown, LinkType
  <1>5. CASE Recheck
    <2>1. CASE Desired \in {0, link.started}
      <3>1. link'.pc \in {"select", "check"}
        BY <1>5, <2>1, <1>t DEF Recheck, Go, Reconciled, LinkType
      <3> QED
        BY <1>1, <1>2, <1>5, <2>1, <3>1, <1>u, <1>s DEF Recheck, UpToDate, CommandKnown, TalkKnown
    <2>2. CASE Desired \notin {0, link.started}
      <3>1. link'.pc = "starting" /\ link'.aim = Desired
        BY <1>5, <2>2, <1>t DEF Recheck, Go, LinkType
      <3> QED
        BY <1>1, <1>2, <1>5, <3>1, <1>u, <1>s DEF Recheck, UpToDate, CommandKnown, TalkKnown
    <2> QED
      BY <2>1, <2>2
  <1>6. CASE Verify
    <2>1. CASE Desired # link.aim
      <3>1. link'.pc = "pairing"
        BY <1>6, <2>1, <1>t DEF Verify, Go, LinkType
      <3> QED
        BY <1>1, <1>2, <1>6, <2>1, <3>1, <1>u, <1>s DEF Verify, UpToDate, CommandKnown, TalkKnown
    <2>2. CASE Desired = link.aim
      <3>1. link'.pc \in {"select", "check"}
        BY <1>6, <2>2, <1>t DEF Verify, Go, Reconciled, LinkType
      <3> QED
        BY <1>1, <1>2, <1>6, <2>2, <3>1, <1>u, <1>s DEF Verify, UpToDate, CommandKnown, TalkKnown
    <2> QED
      BY <2>1, <2>2
  <1> QED
    BY <1>3, <1>4, <1>5, <1>6

LEMMA ControlWriteStep ==
    ASSUME Typed, Transport, CommandWritten \/ StopWritten \/ StartWritten
    PROVE  Transport'
  <1> USE DEF Transport
  <1>t. link \in LinkType /\ remote \in RemoteType
    BY DEF Typed, StateOK
  <1>u. UNCHANGED <<audio, changed>> /\ Desired' = Desired
    BY DEF CommandWritten, StopWritten, StartWritten, Desired, PolicyAllows
  <1>1. CASE CommandWritten
    BY <1>1, <1>t, <1>u DEF CommandWritten, Told, FrameStarted, UpToDate, CommandKnown, TalkKnown,
       LinkType, RemoteType
  <1>2. CASE StopWritten
    <2>1. /\ link'.started = 0 /\ link'.sent = link.sent
          /\ remote'.talk = 0 /\ remote'.command = remote.command
          /\ link'.pc = IF link.pc = "stopping" THEN "recheck"
                        ELSE IF link.frame = NoFrame THEN "select" ELSE "check"
      BY <1>2, <1>t DEF StopWritten, Reconciled, LinkType, RemoteType
    <2> QED
      BY <1>2, <2>1, <1>u DEF StopWritten, Told, FrameStarted, UpToDate, CommandKnown, TalkKnown
  <1>3. CASE StartWritten
    BY <1>3, <1>t, <1>u DEF StartWritten, Told, FrameStarted, UpToDate, CommandKnown, TalkKnown,
       LinkType, RemoteType
  <1> QED
    BY <1>1, <1>2, <1>3

(* A frame that passes the last two looks is of the epoch that was started.  *)
LEMMA FrameStep ==
    ASSUME Typed, Transport, ConfirmStart \/ BeginFrame
    PROVE  Transport'
  <1> USE DEF Transport
  <1>t. link \in LinkType
    BY DEF Typed, StateOK
  <1>d. Restful => Transport'
    BY RestfulStep
  <1>1. CASE ConfirmStart
    <2>1. CASE link' = Discard
      BY <1>1, <2>1, <1>d, <1>t DEF ConfirmStart, Go, Discard, Restful, LinkType
    <2>2. CASE link' = [link EXCEPT !.pc = "begin"] /\ link' # Discard
      <3>1. audio.multi = "yes" /\ Current(link.frame) => link.started = link.frame.epoch
        BY <1>1, <2>2, <1>t DEF ConfirmStart, Go, Current, Desired, LinkType
      <3> QED
        BY <1>1, <2>2, <3>1, <1>t DEF ConfirmStart, Go, Told, FrameStarted, Current, PolicyAllows,
           UpToDate, CommandKnown, TalkKnown, LinkType
    <2> QED
      BY <1>1, <2>1, <2>2 DEF ConfirmStart, Go
  <1>2. CASE BeginFrame
    <2>1. CASE link' = Discard
      BY <1>2, <2>1, <1>d, <1>t DEF BeginFrame, Go, Discard, Restful, LinkType
    <2>2. CASE link' = [link EXCEPT !.pc = "writing"] /\ Authorized(link.frame)
      BY <1>2, <2>2, <1>t DEF BeginFrame, Go, Authorized, Told, FrameStarted, Current,
         UpToDate, CommandKnown, TalkKnown, LinkType
    <2> QED
      BY <1>2, <2>1, <2>2 DEF BeginFrame, Go
  <1> QED
    BY <1>1, <1>2

LEMMA TransportStep == Typed /\ Ownership /\ Transport /\ [Next]_vars => Transport'
  <1> SUFFICES ASSUME Typed, Ownership, Transport, [Next]_vars PROVE Transport'
    OBVIOUS
  <1>t. link \in LinkType
    BY DEF Typed, StateOK
  <1>1. CASE Connect
    <2>1. link'.started = 0 /\ link'.sent = "none" /\ link'.pc = "top" /\ remote' = remote
      BY <1>1 DEF Connect, Idle
    <2>2. link.started = 0 /\ link.sent = "none"
      BY <1>1 DEF Connect, Transport, Told
    <2> QED
      BY <2>1, <2>2, RestfulStep DEF Restful
  <1>2. CASE Disconnect \/ LoopTop \/ Tick \/ Receive
    BY <1>2, <1>t, CloseStep, RestfulStep DEF Disconnect, LoopTop, Tick, Receive, Go, Restful, LinkType
  <1>3. CASE CommandWritten \/ StopWritten \/ StartWritten
    BY <1>3, ControlWriteStep
  <1>4. CASE FrameWritten
    BY <1>4, <1>t, RestfulStep DEF FrameWritten, Discard, Restful, LinkType
  <1>5. CASE CheckFrame \/ Wake \/ Read \/ EventsProcessed
    BY <1>5, <1>t, RestfulStep DEF CheckFrame, Wake, Read, EventsProcessed, Go, Discard, Restful, LinkType
  <1>6. CASE ConfirmStart \/ BeginFrame
    BY <1>6, FrameStep
  <1>7. CASE UNCHANGED vars
    <2>1. Bystander
      BY <1>7 DEF vars, Bystander, Current, Desired, PolicyAllows
    <2> QED
      BY <2>1, BystanderStep
  <1> QED
    BY <1>1, <1>2, <1>3, <1>4, <1>5, <1>6, <1>7, ReconcileStep, BystandersWake, BystanderStep
    DEF Next, Write, Look, Select

-----------------------------------------------------------------------------
AudioInv == Typed /\ Ownership /\ Transport

LEMMA AudioInit == Init => AudioInv
  <1> SUFFICES ASSUME Init PROVE AudioInv
    OBVIOUS
  <1> USE DEF Init
  <1>h. MaxGeneration \in Nat /\ QueueDepth \in Nat \ {0}
    BY AudioAssumption
  <1>1. StateOK
    <2>1. Unconnected \in AudioType
      BY <1>h DEF Unconnected, AudioType
    <2>2. Idle \in LinkType /\ Untold \in RemoteType
      BY DEF Idle, Untold, LinkType, RemoteType, LeaseType, NoFrame, NoLease, Places
    <2> QED
      BY <2>1, <2>2 DEF StateOK
  <1>2. SocketsOK
    BY DEF SocketsOK, LeaseType, NoLease
  <1>3. QueueOK
    BY <1>h DEF QueueOK
  <1>4. Ownership
    BY DEF Ownership, EpochsAreBounded, LeasesDiffer, OwnerIsSocket, Unconnected, Idle, NoFrame, NoLease
  <1>5. Transport
    BY DEF Transport, Told, FrameStarted, UpToDate, CommandKnown, TalkKnown, Unconnected, Idle, Untold
  <1> QED
    BY <1>1, <1>2, <1>3, <1>4, <1>5 DEF AudioInv, Typed

LEMMA AudioNext == AudioInv /\ [Next]_vars => AudioInv'
  BY AudioStep, LinkStep, SocketsStep, QueueStep, OwnershipStep, TransportStep
  DEF AudioInv, Typed, StateOK

LEMMA AudioAlways == Spec => []AudioInv
  BY AudioInit, AudioNext, PTL DEF Spec

(* Every variable keeps its type, and the frame queue its bound. *)
THEOREM TypeCorrect == Spec => []TypeOK
<1>1. AudioInv => TypeOK
  BY DEF AudioInv, Typed, StateOK, SocketsOK, QueueOK, TypeOK
<1> QED
  BY <1>1, AudioAlways, PTL

(* An owned microphone has exactly one socket, for any number of sockets,    *)
(* connections and revocations.                                             *)
THEOREM OneSocketTalks == Spec => []OneTalker
<1>1. AudioInv => OneTalker
  <2> SUFFICES ASSUME AudioInv, audio.owned
               PROVE  \E s \in Sockets : Holds(s) /\ \A t \in Sockets \ {s} : ~ Holds(t)
    BY DEF OneTalker
  <2>1. PICK s \in Sockets : Holds(s)
    BY DEF AudioInv, Ownership, OwnerIsSocket
  <2>2. ASSUME NEW t \in Sockets, Holds(t) PROVE t = s
    <3>1. lease[s].epoch = lease[t].epoch /\ lease[s].epoch > 0
      BY <2>1, <2>2 DEF AudioInv, Ownership, OwnerIsSocket, Holds
    <3>2. lease[s].epoch # 0
      BY <3>1
    <3> QED
      BY <3>1, <3>2 DEF AudioInv, Ownership, LeasesDiffer
  <2> QED
    BY <2>1, <2>2
<1> QED
  BY <1>1, AudioAlways, PTL

(* Start and Stop bracket the AAC of a multi-client camera, wherever the     *)
(* stream awaited and whatever happened to the lease meanwhile.             *)
THEOREM AacIsBracketed == Spec => []StartBracketsAac
<1>1. AudioInv => StartBracketsAac
  BY DEF AudioInv, Transport, Told, FrameStarted, StartBracketsAac
<1> QED
  BY <1>1, AudioAlways, PTL

(* No change is lost between reconcile() and the wait: a stream that waits   *)
(* unwoken has told the camera everything.                                  *)
THEOREM NoMissedChange == Spec => []QuietAgrees
<1>1. AudioInv => QuietAgrees
  BY DEF AudioInv, Transport, Told, UpToDate, CommandKnown, TalkKnown, QuietAgrees
<1> QED
  BY <1>1, AudioAlways, PTL

(* The two looks at the lease before a frame's first byte authorize it. *)
THEOREM FramesAreAuthorized == Spec => AacIsAuthorized
<1> DEFINE Begun == link.pc # "writing" /\ link'.pc = "writing" => Current(link.frame)
<1>1. AudioInv /\ [Next]_vars => Begun
  <2> SUFFICES ASSUME AudioInv, [Next]_vars, link.pc # "writing", link'.pc = "writing"
               PROVE  Current(link.frame)
    OBVIOUS
  <2>t. link \in LinkType
    BY DEF AudioInv, Typed, StateOK
  <2>1. CASE BeginFrame
    BY <2>1, <2>t DEF BeginFrame, Go, Discard, Authorized, LinkType
  <2>2. CASE \/ Observe \/ ViewerChanges \/ SetSessionClock \/ \E s \in Sockets : Socket(s)
             \/ \E word \in Commands : RequestRecording(word)
    BY <2>2, BystandersWake DEF AudioInv, Bystander
  <2>3. ~ Closed
    BY DEF Closed, Idle
  <2>4. CASE Connect \/ Write \/ (Look /\ ~ BeginFrame) \/ Select
    BY <2>3, <2>4, <2>t DEF Connect, Idle, Write, CommandWritten, StopWritten, StartWritten, FrameWritten,
       Look, LoopTop, ReadRequest, ReadDesire, Recheck, Verify, CheckFrame, ConfirmStart, Go, Reconciled,
       Discard, Select, Wake, Tick, Receive, Read, EventsProcessed, LinkType
  <2> QED
    BY <2>1, <2>2, <2>3, <2>4 DEF Next, Disconnect, vars
<1>2. Begun => [Begun]_vars
  OBVIOUS
<1> QED
  BY <1>1, <1>2, AudioAlways, PTL DEF Spec, AacIsAuthorized

(* What a socket does with a stale lease never ends another socket's. *)
LEMMA OthersLeaveIt ==
    ASSUME AudioInv, NEW s \in Sockets, Holds(s), NEW t \in Sockets, Socket(t)
    PROVE  Holds(s)' \/ lease'[s] = NoLease
  <1>o. audio.owned
    BY DEF Holds
  <1>l. lease \in [Sockets -> LeaseType]
    BY DEF AudioInv, Typed, SocketsOK
  <1>k. ASSUME audio' = audio, lease'[s] = lease[s] PROVE Holds(s)'
    BY <1>k DEF Holds
  <1>1. CASE JoinSocket(t) \/ LeaveSocket(t) \/ Submit(t) \/ StatusChanged(t)
    <2>1. audio' = audio /\ lease'[s] = lease[s]
      BY <1>1, <1>o, <1>l DEF JoinSocket, LeaveSocket, Submit, StatusChanged
    <2> QED
      BY <2>1, <1>k
  <1>2. CASE StopMicrophone(t) \/ SubmitStale(t)
    <2>d. DropLease(t)
      BY <1>2 DEF StopMicrophone, SubmitStale
    <2>1. CASE t = s
      BY <2>1, <2>d, <1>l DEF DropLease
    <2>2. CASE t # s
      <3>1. ~ Holds(t)
        <4>1. audio.epoch > 0 /\ lease[s].epoch = audio.epoch
          BY <1>o DEF AudioInv, Ownership, OwnerIsSocket, Holds
        <4>2. lease[s].epoch # 0
          BY <4>1
        <4> QED
          BY <2>2, <4>1, <4>2 DEF AudioInv, Ownership, LeasesDiffer, Holds
      <3>2. audio' = audio /\ lease'[s] = lease[s]
        BY <2>2, <2>d, <3>1, <1>l DEF DropLease, Dropped
      <3> QED
        BY <3>2, <1>k
    <2> QED
      BY <2>1, <2>2
  <1>3. ~ Claim(t)
    BY <1>o DEF Claim
  <1> QED
    BY <1>1, <1>2, <1>3 DEF Socket

(* A lease ends only by its own socket, the connection, an offer or an       *)
(* audio-wait event.                                                        *)
THEOREM LeasesEndForCause == Spec => LeaseEndsForCause
<1> DEFINE Ended(s) ==
      Holds(s) /\ ~ Holds(s)' =>
          \/ lease'[s] = NoLease
          \/ ~ audio'.connected
          \/ audio'.format # audio.format
          \/ audio'.available # "yes"
<1> DEFINE Step == \A s \in Sockets : Ended(s)
<1>1. AudioInv /\ [Next]_vars => Step
  <2> SUFFICES ASSUME AudioInv, [Next]_vars, NEW s \in Sockets, Holds(s), ~ Holds(s)'
               PROVE  \/ lease'[s] = NoLease
                      \/ ~ audio'.connected
                      \/ audio'.format # audio.format
                      \/ audio'.available # "yes"
    OBVIOUS
  <2>t. audio \in AudioType /\ link \in LinkType
    BY DEF AudioInv, Typed, StateOK
  <2>o. audio.owned /\ link.pc # "closed"
    BY DEF AudioInv, Ownership, OwnerIsSocket, Holds
  <2>k. ASSUME audio'.generation = audio.generation, audio'.epoch = audio.epoch,
               audio'.owned = audio.owned, lease' = lease
        PROVE  FALSE
    BY <2>k DEF Holds
  <2>1. Closed => ~ audio'.connected
    BY <2>t DEF Closed, Revoked, AudioType
  <2>2. ASSUME NEW t \in Sockets, Socket(t) PROVE lease'[s] = NoLease
    BY <2>2, OthersLeaveIt
  <2>3. ASSUME NEW yes \in {"yes", "no"}, ObserveAvailability(yes) PROVE audio'.available # "yes"
    <3>1. lease' = lease
      BY <2>3 DEF ObserveAvailability, Observed
    <3>2. audio' = Available(yes) /\ yes = "no"
      BY <2>3, <3>1, <2>k, <2>t DEF ObserveAvailability, Observed, Available, AudioType
    <3> QED
      BY <3>2, <2>t DEF Available, Revoked, AudioType
  <2>4. ASSUME NEW format \in Offers, ObserveOffer(format) PROVE audio'.format # audio.format
    <3>1. lease' = lease
      BY <2>4 DEF ObserveOffer, Observed
    <3>2. audio' = Offered(format) /\ audio.format # format
      BY <2>4, <3>1, <2>k DEF ObserveOffer, Observed
    <3> QED
      BY <3>2, <2>t DEF Offered, Revoked, AudioType
  <2>5. ~ (FrameWritten \/ \E word \in Commands : RequestRecording(word))
    BY <2>k, <2>t DEF FrameWritten, RequestRecording, AudioType
  <2>6. ~ (CommandWritten \/ StopWritten \/ StartWritten \/ ObserveRecording \/ ViewerChanges
           \/ SetSessionClock \/ UNCHANGED vars)
    BY <2>k DEF CommandWritten, StopWritten, StartWritten, ObserveRecording, ViewerChanges, SetSessionClock, vars
  <2>7. ~ (ReadRequest \/ ReadDesire \/ Recheck \/ Verify \/ CheckFrame \/ ConfirmStart \/ BeginFrame
           \/ Wake \/ Read \/ EventsProcessed)
    BY <2>k DEF ReadRequest, ReadDesire, Recheck, Verify, CheckFrame, ConfirmStart, BeginFrame,
       Wake, Read, EventsProcessed, Go
  <2>8. LoopTop \/ Tick \/ Receive => Closed
    BY <2>k DEF LoopTop, Tick, Receive, Go
  <2>9. ~ Connect
    BY <2>o DEF Connect
  <2> QED
    BY <2>1, <2>2, <2>3, <2>4, <2>5, <2>6, <2>7, <2>8, <2>9 DEF Next, Disconnect, Write, Look, Select, Observe
<1>2. Step => [Step]_vars
  OBVIOUS
<1> QED
  BY <1>1, <1>2, AudioAlways, PTL DEF Spec, LeaseEndsForCause
=============================================================================
