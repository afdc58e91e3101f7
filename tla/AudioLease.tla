----------------------------- MODULE AudioLease -----------------------------
(***************************************************************************)
(* The microphone of one camera: immi_audio_lease.rs with its connection,  *)
(* live_audio.rs and live_audio_uplink.rs, the Walnut sockets and the      *)
(* provider-managed recording of api_recordings.rs.                        *)
(*                                                                         *)
(* A lease is an epoch of a generation.  Sockets claim and drop it, the    *)
(* IMMI stream observes offers and availability, and the one future that   *)
(* owns the transport serializes Start, AAC and Stop with awaits between   *)
(* its looks at the shared state.  Each critical section of the state      *)
(* mutex is one step, and each write is two: its begin and its end.        *)
(*                                                                         *)
(* The connections of a camera follow one another, since one publisher     *)
(* guard owns them all: the generation of the runtime is that of the open  *)
(* connection.  Samples, ages and packet counters are abstracted: any      *)
(* frame may be found too old whenever its age is looked at.               *)
(***************************************************************************)
EXTENDS Naturals, Sequences, FiniteSets

CONSTANTS
    Sockets,        \* Walnut browser sockets of the camera
    Policies,       \* multi_client of a descriptor: "no", "yes" or "unknown"
    Commands,       \* provider-recording commands: "save", "discard"
    QueueDepth,     \* AUDIO_QUEUE_DEPTH
    MaxGeneration,  \* bound: connections in one behaviour
    MaxEpoch        \* bound: no lease or offer begins beyond this epoch

ASSUME AudioAssumption ==
    /\ Policies \subseteq {"no", "yes", "unknown"}
    /\ "none" \notin Commands
    /\ QueueDepth \in Nat \ {0}
    /\ MaxGeneration \in Nat /\ MaxEpoch \in Nat

VARIABLES
    audio,    \* immi_audio_lease.rs: State
    queue,    \* frames sent to the stream and not received
    changed,  \* whether the stream's control receiver is behind
    link,     \* the future of receive_stream: its place and its Uplink
    remote,   \* what the camera has been told on this connection
    lease,    \* per socket, the lease of its Microphone
    joined,   \* per socket, whether its session runs
    unseen,   \* per socket, whether its status receiver is behind
    viewer    \* whether somebody else watches the camera

sharedVars == <<audio, queue, changed, unseen>>
socketVars == <<lease, joined, viewer>>
vars == <<sharedVars, socketVars, link, remote>>

NoLease == [generation |-> 0, epoch |-> 0]
NoFrame == NoLease
Offers == {"aac", "other"}

-----------------------------------------------------------------------------
(* Predicates of the shared state. *)

(* policy_allows *)
PolicyAllows == audio.multi = "no" \/ (audio.multi = "yes" /\ audio.available = "yes")

(* control(): the epoch that should talk, 0 for none. *)
Desired == IF audio.owned /\ PolicyAllows THEN audio.epoch ELSE 0

(* The checks that submit() and valid_frame() share. *)
CurrentAnyEpoch(l) == l.generation = audio.generation /\ audio.owned /\ PolicyAllows
Current(l) ==
    /\ l.generation = audio.generation
    /\ l.epoch = audio.epoch
    /\ audio.owned /\ PolicyAllows

(* The lease that an AudioLease's drop would end. *)
Holds(s) ==
    /\ lease[s].generation = audio.generation
    /\ lease[s].epoch = audio.epoch
    /\ audio.owned

HasSubscribers == viewer \/ \E s \in Sockets : joined[s]

(* publish(): every receiver is behind. *)
Publish ==
    /\ changed' = TRUE
    /\ unseen' = joined
Silent == UNCHANGED <<changed, unseen>>

-----------------------------------------------------------------------------
(* The shared state's operations. *)

(* Revoked: the epoch moves on and nobody owns it. *)
Revoked(a) == [a EXCEPT !.epoch = @ + 1, !.owned = FALSE]

(* Drop of an AudioLease: only the current owner revokes. *)
DroppedUnowned(s) ==
    IF Holds(s) THEN audio' = [audio EXCEPT !.epoch = @ + 1] /\ Publish
    ELSE UNCHANGED audio /\ Silent
DroppedQuietly(s) ==
    /\ audio' = IF Holds(s) THEN Revoked(audio) ELSE audio
    /\ Silent
Dropped(s) ==
    IF Holds(s) THEN audio' = Revoked(audio) /\ Publish
    ELSE UNCHANGED audio /\ Silent
DropLease(s) ==
    /\ Dropped(s)
    /\ lease' = [lease EXCEPT ![s] = NoLease]

Idle == [pc |-> "closed", frame |-> NoFrame, started |-> 0, sent |-> "none",
         aim |-> 0, word |-> "none"]
Untold == [talk |-> 0, command |-> "none"]
Unconnected == [generation |-> 0, epoch |-> 0, format |-> "none", owned |-> FALSE,
                counted |-> FALSE, connected |-> FALSE, multi |-> "unknown",
                available |-> "unknown", request |-> "none"]

Init ==
    /\ audio = Unconnected
    /\ queue = << >>
    /\ changed = FALSE
    /\ link = Idle
    /\ remote = Untold
    /\ lease = [s \in Sockets |-> NoLease]
    /\ joined = [s \in Sockets |-> FALSE]
    /\ unseen = [s \in Sockets |-> FALSE]
    /\ viewer = FALSE

-----------------------------------------------------------------------------
(* The connection. *)

(* start_live() learns the session's clock before it connects. *)
SetSessionClock ==
    /\ link.pc = "closed"
    /\ unseen' = joined
    /\ UNCHANGED <<audio, queue, changed, socketVars, link, remote>>

(* connect_with_policy(): a reconnect invalidates all owners and frames. *)
Connect ==
    /\ link.pc = "closed"
    /\ audio.generation < MaxGeneration
    /\ \E policy \in Policies :
        audio' = [Revoked(audio) EXCEPT
                    !.generation = @ + 1, !.format = "none", !.counted = FALSE,
                    !.connected = TRUE, !.multi = policy, !.available = "unknown",
                    !.request = "none"]
    /\ Publish
    /\ queue' = << >>
    /\ link' = [Idle EXCEPT !.pc = "top"]
    /\ UNCHANGED <<socketVars, remote>>

(* Drop of the AudioConnection, with the rest of the stream's future. *)
Closed ==
    /\ audio' = [Revoked(audio) EXCEPT
                    !.format = "none", !.connected = FALSE, !.multi = "unknown",
                    !.available = "unknown", !.request = "none"]
    /\ unseen' = joined
    /\ changed' = FALSE
    /\ queue' = << >>
    /\ link' = Idle
    /\ remote' = Untold
    /\ UNCHANGED <<socketVars>>

(* A failed or late write, the end of the stream, a framing error or the     *)
(* session's deadline ends the future wherever it stands.                   *)
Disconnect == link.pc # "closed" /\ Closed

(* Only the stream's future moves. *)
Go(l) == link' = l /\ UNCHANGED <<sharedVars, socketVars, remote>>

(* The top of the loop: leave when nobody watches, mark the changes seen. *)
LoopTop ==
    /\ link.pc = "top"
    /\ \/ ~ HasSubscribers /\ Closed
       \/ /\ HasSubscribers
          /\ changed' = FALSE
          /\ link' = [link EXCEPT !.pc = "request", !.frame = NoFrame]
          /\ UNCHANGED <<audio, queue, unseen, socketVars, remote>>

(* reconcile(): the provider-recording command first. *)
ReadRequest ==
    /\ link.pc = "request"
    /\ Go(IF audio.request \notin {"none", link.sent}
          THEN [link EXCEPT !.pc = "commanding", !.word = audio.request]
          ELSE [link EXCEPT !.pc = "desire"])

CommandWritten ==
    /\ link.pc = "commanding"
    /\ link' = [link EXCEPT !.pc = "desire", !.sent = link.word]
    /\ remote' = [remote EXCEPT !.command = link.word]
    /\ UNCHANGED <<sharedVars, socketVars>>

(* Where reconcile() returns to: send() with the frame, or the select. *)
Reconciled(l) == [l EXCEPT !.pc = IF link.frame = NoFrame THEN "select" ELSE "check"]

(* Stop first whatever was started for another epoch. *)
StopOnlyToRestart == Desired # 0 /\ link.started \notin {0, Desired}
MustStop == link.started \notin {0, Desired}
ReadDesire ==
    /\ link.pc = "desire"
    /\ Go(IF audio.multi # "yes" THEN Reconciled(link)
          ELSE IF MustStop THEN [link EXCEPT !.pc = "stopping"]
          ELSE [link EXCEPT !.pc = "recheck"])

StopWritten ==
    /\ link.pc \in {"stopping", "pairing"}
    /\ LET l == [link EXCEPT !.started = 0]
       IN  link' = IF link.pc = "stopping" THEN [l EXCEPT !.pc = "recheck"] ELSE Reconciled(l)
    /\ remote' = [remote EXCEPT !.talk = 0]
    /\ UNCHANGED <<sharedVars, socketVars>>

(* The stop may have awaited while the ownership changed again. *)
Recheck ==
    /\ link.pc = "recheck"
    /\ Go(IF Desired \in {0, link.started} THEN Reconciled(link)
          ELSE [link EXCEPT !.pc = "starting", !.aim = Desired])

StartWritten ==
    /\ link.pc = "starting"
    /\ link' = [link EXCEPT !.pc = "verify", !.started = link.aim]
    /\ remote' = [remote EXCEPT !.talk = link.aim]
    /\ UNCHANGED <<sharedVars, socketVars>>

(* A completed stale Start is paired with a Stop. *)
Verify ==
    /\ link.pc = "verify"
    /\ Go(IF Desired # link.aim THEN [link EXCEPT !.pc = "pairing"] ELSE Reconciled(link))

-----------------------------------------------------------------------------
(* The select of the loop. *)
Wake == link.pc = "select" /\ changed /\ Go([link EXCEPT !.pc = "top"])

(* The one-second tick: has_subscribers(), then the keepalive packet. *)
Tick ==
    /\ link.pc = "select"
    /\ \/ ~ HasSubscribers /\ Closed
       \/ HasSubscribers /\ Go([link EXCEPT !.pc = "top"])

Receive ==
    /\ link.pc = "select"
    /\ queue # << >>
    /\ \/ ~ HasSubscribers /\ Closed
       \/ /\ HasSubscribers
          /\ queue' = Tail(queue)
          /\ link' = [link EXCEPT !.pc = "request", !.frame = Head(queue)]
          /\ UNCHANGED <<audio, changed, unseen, socketVars, remote>>

Read == link.pc = "select" /\ Go([link EXCEPT !.pc = "events"])
EventsProcessed == link.pc = "events" /\ Go([link EXCEPT !.pc = "top"])

(* process(): the observations of a read, one event at a time. *)
Observed(a) ==
    /\ audio' = a
    /\ IF a = audio THEN Silent ELSE Publish
    /\ UNCHANGED <<queue, socketVars, link, remote>>

Available(yes) ==
    LET a == [audio EXCEPT !.available = yes]
    IN  IF yes = "no" /\ audio.multi = "yes" THEN Revoked(a) ELSE a
ObserveAvailability(yes) ==
    /\ link.pc = "events"
    /\ audio.epoch < MaxEpoch
    /\ Observed(IF audio.available = yes THEN audio ELSE Available(yes))

Offered(format) ==
    [Revoked(audio) EXCEPT !.format = format,
        !.available = IF audio.format # "none" /\ audio.multi = "yes" THEN "unknown" ELSE @]
ObserveOffer(format) ==
    /\ link.pc = "events"
    /\ audio.epoch < MaxEpoch
    /\ Observed(IF audio.format = format THEN audio ELSE Offered(format))

(* Blink's answer to a command is only shown to the sockets and callers. *)
ObserveRecording ==
    /\ link.pc = "events"
    /\ Publish
    /\ UNCHANGED <<audio, queue, socketVars, link, remote>>

-----------------------------------------------------------------------------
(* send() and write_frame(), after their reconcile(). *)
Discard == [link EXCEPT !.pc = "top", !.frame = NoFrame]

CheckFrame ==
    /\ link.pc = "check"
    /\ \/ Go(Discard)                                     \* too old
       \/ Go(IF Current(link.frame) THEN [link EXCEPT !.pc = "confirm"] ELSE Discard)

ConfirmStart ==
    /\ link.pc = "confirm"
    /\ Go(IF audio.multi = "yes" /\ Desired = link.frame.epoch /\ link.started # Desired
          THEN Discard ELSE [link EXCEPT !.pc = "begin"])

(* Recheck immediately before writing, with no intervening queue or await. *)
AuthorizedBefore(f) == TRUE
Authorized(f) == Current(f)
BeginFrame ==
    /\ link.pc = "begin"
    /\ \/ Go(Discard)                                     \* too old
       \/ Go(IF Authorized(link.frame) THEN [link EXCEPT !.pc = "writing"] ELSE Discard)

(* frame_sent(): counted only for the current epoch, published when first    *)
(* and at every sixteenth.                                                  *)
FrameWritten ==
    /\ link.pc = "writing"
    /\ link' = Discard
    /\ IF link.frame.epoch = audio.epoch /\ audio.owned
       THEN /\ audio' = [audio EXCEPT !.counted = TRUE]
            /\ Publish \/ (audio.counted /\ Silent)
       ELSE UNCHANGED audio /\ Silent
    /\ UNCHANGED <<queue, socketVars, remote>>

-----------------------------------------------------------------------------
(* The Walnut sockets and the other viewers. *)

(* upgrade() and the start of session(): status.mark_changed(). *)
JoinSocket(s) ==
    /\ ~ joined[s]
    /\ joined' = [joined EXCEPT ![s] = TRUE]
    /\ unseen' = [unseen EXCEPT ![s] = TRUE]
    /\ UNCHANGED <<audio, queue, changed, lease, viewer, link, remote>>

(* Stop, a lost ping, a lagging or ended stream: the microphone goes first. *)
StopMicrophone(s) ==
    /\ lease[s] # NoLease
    /\ DropLease(s)
    /\ UNCHANGED <<queue, joined, viewer, link, remote>>

LeaveSocket(s) ==
    /\ joined[s] /\ lease[s] = NoLease
    /\ joined' = [joined EXCEPT ![s] = FALSE]
    /\ unseen' = [unseen EXCEPT ![s] = FALSE]
    /\ UNCHANGED <<audio, queue, changed, lease, viewer, link, remote>>

(* Microphone::start: claim(), which the codec's failure may undo at once. *)
Claim(s) ==
    /\ joined[s] /\ lease[s] = NoLease
    /\ audio.connected /\ audio.format = "aac" /\ ~ audio.owned /\ PolicyAllows
    /\ audio.epoch < MaxEpoch
    /\ audio' = [audio EXCEPT !.epoch = @ + 1, !.owned = TRUE, !.counted = FALSE]
    /\ lease' = [lease EXCEPT ![s] = [generation |-> audio.generation, epoch |-> audio.epoch + 1]]
    /\ Publish
    /\ UNCHANGED <<queue, joined, viewer, link, remote>>

(* forward() and submit(): a full queue drops the frame. *)
HasRoom == Len(queue) < QueueDepth
Submit(s) ==
    /\ lease[s] # NoLease
    /\ Current(lease[s])
    /\ HasRoom
    /\ queue' = Append(queue, lease[s])
    /\ UNCHANGED <<audio, changed, unseen, socketVars, link, remote>>

(* A stale lease is an error of forward(), which stops the microphone. *)
StaleIsDropped(l) == FALSE
StaleIsError(l) == ~ Current(l)
SubmitStale(s) ==
    /\ lease[s] # NoLease
    /\ StaleIsError(lease[s])
    /\ StopMicrophone(s)

(* status.changed(): a microphone that nobody owns is stopped. *)
StatusChanged(s) ==
    /\ joined[s] /\ unseen[s]
    /\ unseen' = [unseen EXCEPT ![s] = FALSE]
    /\ lease' = [lease EXCEPT ![s] = IF audio.owned THEN @ ELSE NoLease]
    /\ UNCHANGED <<audio, queue, changed, joined, viewer, link, remote>>

(* Another subscriber of the camera's hub comes or goes. *)
ViewerChanges ==
    /\ viewer' = ~ viewer
    /\ UNCHANGED <<sharedVars, lease, joined, link, remote>>

-----------------------------------------------------------------------------
(* request_recording(): what provider_recording_status() asks; its eight      *)
(* seconds of waiting for a status change nothing.                          *)
RequestRecording(word) ==
    /\ audio.connected
    /\ audio' = [audio EXCEPT !.request = word]
    /\ Publish
    /\ UNCHANGED <<queue, socketVars, link, remote>>

-----------------------------------------------------------------------------
Write == CommandWritten \/ StopWritten \/ StartWritten \/ FrameWritten
Look == LoopTop \/ ReadRequest \/ ReadDesire \/ Recheck \/ Verify \/ CheckFrame
        \/ ConfirmStart \/ BeginFrame
Select == Wake \/ Tick \/ Receive \/ Read \/ EventsProcessed
Observe ==
    \/ \E yes \in {"yes", "no"} : ObserveAvailability(yes)
    \/ \E format \in Offers : ObserveOffer(format)
    \/ ObserveRecording
Socket(s) ==
    \/ JoinSocket(s) \/ LeaveSocket(s) \/ StopMicrophone(s)
    \/ Claim(s) \/ Submit(s) \/ SubmitStale(s) \/ StatusChanged(s)

Next ==
    \/ SetSessionClock \/ Connect \/ Disconnect
    \/ Write \/ Look \/ Select \/ Observe
    \/ \E s \in Sockets : Socket(s)
    \/ ViewerChanges
    \/ \E word \in Commands : RequestRecording(word)

Spec == Init /\ [][Next]_vars

(* Scheduling.  A write ends or times out within five seconds; the stream's  *)
(* future runs on, is woken, and its timer ticks; an encoder fed by a        *)
(* browser brings a fresh frame again and again, and one that is not fed is  *)
(* found idle.                                                              *)
StreamRuns == WF_vars(Write) /\ WF_vars(Look) /\ WF_vars(EventsProcessed) /\ WF_vars(Wake)
SocketRuns == \A s \in Sockets : WF_vars(SubmitStale(s)) /\ WF_vars(StatusChanged(s))
FairSpec == Spec /\ StreamRuns /\ SocketRuns

-----------------------------------------------------------------------------
LeaseType == [generation : Nat, epoch : Nat]
AudioType == [generation : 0 .. MaxGeneration, epoch : Nat, format : Offers \cup {"none"},
              owned : BOOLEAN, counted : BOOLEAN, connected : BOOLEAN,
              multi : Policies \cup {"unknown"}, available : {"yes", "no", "unknown"},
              request : Commands \cup {"none"}]
Places == {"closed", "top", "request", "commanding", "desire", "stopping", "recheck",
           "starting", "verify", "pairing", "select", "events", "check", "confirm",
           "begin", "writing"}
LinkType == [pc : Places, frame : LeaseType, started : Nat, sent : Commands \cup {"none"},
             aim : Nat, word : Commands \cup {"none"}]
RemoteType == [talk : Nat, command : Commands \cup {"none"}]

(* Every variable keeps its type, and the queue its bound. *)
TypeOK ==
    /\ audio \in AudioType /\ link \in LinkType /\ remote \in RemoteType
    /\ queue \in Seq(LeaseType) /\ Len(queue) <= QueueDepth
    /\ changed \in BOOLEAN /\ viewer \in BOOLEAN
    /\ lease \in [Sockets -> LeaseType]
    /\ joined \in [Sockets -> BOOLEAN] /\ unseen \in [Sockets -> BOOLEAN]

(* The microphone is owned exactly when one socket holds its epoch: no owner  *)
(* without a socket, which would keep everybody out, and no second talker.   *)
OneTalker ==
    audio.owned => \E s \in Sockets : Holds(s) /\ \A t \in Sockets \ {s} : ~ Holds(t)

(* AUDIO_CODEC.md: "StartAudio and StopAudio are serialized with AAC on the   *)
(* same verified transport".  While a frame of a multi-client session is on   *)
(* the wire, the camera has been told Start for that very epoch and no Stop. *)
StartBracketsAac ==
    link.pc = "writing" /\ audio.multi = "yes" => remote.talk = link.frame.epoch

(* A frame's first byte is written only under the lease it was recorded for,  *)
(* whatever was revoked or claimed while the stream awaited other writes.    *)
AacIsAuthorized ==
    [][link.pc # "writing" /\ link'.pc = "writing" => Current(link.frame)]_vars

(* A Start is never written over another: the epoch before is stopped first.  *)
StopBeforeStart ==
    [][remote'.talk # remote.talk => 0 \in {remote.talk, remote'.talk}]_vars

(* A lease ends by its own socket, a lost connection, a new offer or an       *)
(* audio-wait event, and never by what another socket does with a stale one. *)
LeaseEndsForCause ==
    [][\A s \in Sockets : Holds(s) /\ ~ Holds(s)' =>
          \/ lease'[s] = NoLease
          \/ ~ audio'.connected
          \/ audio'.format # audio.format
          \/ audio'.available # "yes"]_vars

(* A stream that waits with nothing new to see has told the camera all it    *)
(* should: the talker, if any, and the last provider-recording command.      *)
QuietAgrees ==
    link.pc = "select" /\ ~ changed =>
        /\ audio.multi = "yes" => remote.talk = Desired
        /\ audio.request \in {"none", remote.command}

(* Revocation stops the transmission: the camera is told Stop, or gone. *)
Overstays(e) == remote.talk = e /\ Desired # e
RevokedIsStopped == \A e \in 1 .. MaxEpoch : Overstays(e) ~> remote.talk # e

(* A socket whose lease was revoked stops its microphone, also when another   *)
(* socket claims the lease before it looks at the status.                   *)
StaleMicrophone(s) == lease[s] # NoLease /\ ~ Holds(s)
RevokedIsTold == \A s \in Sockets : StaleMicrophone(s) ~> ~ StaleMicrophone(s)
=============================================================================
