------------------------------- MODULE Motion -------------------------------
(***************************************************************************)
(* Motion events, from Blink's list to the answers of /v1/motion:          *)
(* motion.rs, motion_poller.rs, motion_recorder.rs, motion_settings.rs,    *)
(* motion_still.rs, blink_media_v4.rs and api_motion.rs.  One poller task  *)
(* absorbs the events Blink lists and hands the new ones to the recorder;  *)
(* still tasks add a picture to an event; whoever changes the tracker      *)
(* bumps its sequence and then wakes the long polls; and an answer is read *)
(* lock by lock while all this goes on.                                    *)
(*                                                                         *)
(* Events are numbered in the order of created_at.  Blink lists them late  *)
(* and out of order, adds a thumbnail later, and drops the oldest from the *)
(* lookback.  The poller's waits are left to the clock.  A camera's entry  *)
(* in an answer is its latest event and where its picture comes from; the  *)
(* motion window, which only the clock changes, is left out.               *)
(***************************************************************************)
EXTENDS Naturals, Sequences, FiniteSets, Functions

CONSTANTS
    Cameras,
    MaxEvents,     \* bound: events of one behaviour
    CameraOf,      \* the camera an event is about
    LiveViews,     \* events that are the cameras' own live views
    PollLimit,     \* events of one poll: MAX_PAGES pages
    SeenLimit,     \* SEEN_LIMIT
    ThumbLimit,    \* THUMBNAIL_LIMIT
    StillLimit,    \* STILL_LIMIT
    Encoders,      \* permits of ENCODERS
    MaxRestarts    \* bound: engine restarts

Events == 1 .. MaxEvents
Permits == 1 .. Encoders

ASSUME MotionAssumption ==
    /\ MaxEvents \in Nat
    /\ CameraOf \in [Events -> Cameras]
    /\ LiveViews \subseteq Events
    /\ {PollLimit, SeenLimit, ThumbLimit, StillLimit, Encoders} \subseteq Nat \ {0}
    /\ MaxRestarts \in Nat

VARIABLES
    blink,      \* per event: not listed, listed, with a thumbnail, out of the lookback
    tracker,    \* MotionTracker.inner: warmed, seen, thumbnails, cameras
    stills,     \* StillStore: the events that have a local still, oldest first
    sequence,   \* MotionTracker.sequence
    poll,       \* motion_poller::run: where it stands, and what it read
    still,      \* per permit of ENCODERS, the still task that holds it
    req,        \* a long poll
    handed,     \* per event, how often it was given to the recorder
    restarts

engineVars == <<blink, tracker, stills, sequence, poll, still, handed, restarts>>
vars == <<engineVars, req>>

NoEvent == 0
NoStill == [event |-> NoEvent, at |-> "none"]
Entry(event, source) == [event |-> event, source |-> source]
NoRequest == [pc |-> "idle", since |-> 0, woken |-> FALSE, seq |-> 0, got |-> <<>>]
Fresh == [warmed |-> FALSE, seen |-> <<>>, thumbs |-> <<>>,
          latest |-> [c \in Cameras |-> NoEvent]]
Asleep == [pc |-> "sleep", fresh |-> <<>>]
Handling(fresh) == IF fresh = <<>> THEN Asleep ELSE [pc |-> "handle", fresh |-> fresh]

(* Where the picture of an event would come from, if asked now.             *)
Source(e) ==
    IF e \in Range(tracker.thumbs) THEN "blink"
    ELSE IF e \in Range(stills) THEN "local" ELSE "none"
View == [c \in Cameras |-> Entry(tracker.latest[c], Source(tracker.latest[c]))]

-----------------------------------------------------------------------------
Init ==
    /\ blink = [e \in Events |-> "no"]
    /\ tracker = Fresh
    /\ stills = <<>>
    /\ sequence = 0
    /\ poll = Asleep
    /\ still = [p \in Permits |-> NoStill]
    /\ req = NoRequest
    /\ handed = [e \in Events |-> 0]
    /\ restarts = 0

-----------------------------------------------------------------------------
(* Blink.  A live view is listed only because a recording opened one; nobody *)
(* reads its thumbnail.                                                     *)
Listed == {e \in Events : blink[e] \in {"listed", "thumbnail"}}

Publish(e) ==
    /\ blink[e] = "no"
    /\ e \in LiveViews => \E h \in Events : handed[h] > 0
    /\ blink' = [blink EXCEPT ![e] = "listed"]

PublishThumbnail(e) ==
    /\ blink[e] = "listed"
    /\ e \notin LiveViews
    /\ blink' = [blink EXCEPT ![e] = "thumbnail"]

LeaveLookback(e) ==
    /\ e \in Listed
    /\ \A f \in Listed : f >= e
    /\ blink' = [f \in Events |-> IF f <= e THEN "gone" ELSE blink[f]]

Blink ==
    /\ \E e \in Events : Publish(e) \/ PublishThumbnail(e) \/ LeaveLookback(e)
    /\ UNCHANGED <<tracker, stills, sequence, poll, still, req, handed, restarts>>

(* motion_events: the newest pages of the lookback; parse_event drops the    *)
(* live views after the pages are counted.                                  *)
Newest(n) == {e \in Listed : Cardinality({f \in Listed : f >= e}) <= n}
Polled == Newest(PollLimit) \ LiveViews

-----------------------------------------------------------------------------
(* The sequence and its waiters: mark_changed is a fetch_add, then a wakeup  *)
(* of every Notified that is enabled at that moment.                        *)
Bump == sequence' = sequence + 1
WokenIfWaiting == IF req.pc = "waiting" THEN [req EXCEPT !.woken = TRUE] ELSE req
Woken == IF req.pc \in {"enabled", "compared", "waiting"} THEN [req EXCEPT !.woken = TRUE] ELSE req

-----------------------------------------------------------------------------
(* absorb, under the tracker's write lock.                                  *)
Unbounded(s, n) == s
Bounded(s, n) == IF Len(s) > n THEN SubSeq(s, Len(s) - n + 1, Len(s)) ELSE s

WithThumbnail(t, e) ==
    IF blink[e] = "thumbnail" /\ e \notin Range(t.thumbs)
    THEN [t EXCEPT !.thumbs = Bounded(Append(@, e), ThumbLimit), !.changed = TRUE]
    ELSE t

AlwaysNewer(t, e) == TRUE
Newer(t, e) == t.latest[CameraOf[e]] < e
Remembered(t, e, warmed) ==
    [t EXCEPT !.seen = Bounded(Append(@, e), SeenLimit),
              !.latest[CameraOf[e]] = IF Newer(t, e) THEN e ELSE @,
              !.changed = @ \/ Newer(t, e),
              !.fresh = IF warmed THEN Append(@, e) ELSE @]
Observed(t, e, warmed) ==
    IF e \in Range(t.seen) THEN t ELSE Remembered(t, e, warmed)

NothingNew ==
    [seen |-> tracker.seen, thumbs |-> tracker.thumbs, latest |-> tracker.latest,
     changed |-> FALSE, fresh |-> <<>>]
Absorb(t, e, events) ==
    IF e \in events THEN Observed(WithThumbnail(t, e), e, tracker.warmed) ELSE t

(* The loop over the events of a poll, the newest first.                    *)
Absorbed(events) ==
    LET upTo[n \in 0 .. MaxEvents] ==
            IF n = 0 THEN NothingNew ELSE Absorb(upTo[n - 1], MaxEvents + 1 - n, events)
    IN  upTo[MaxEvents]

-----------------------------------------------------------------------------
(* The poller.                                                              *)

(* A poll that is refused, limited or unanswered changes no tracker: only    *)
(* the sleep after it differs.                                              *)
Poll ==
    /\ poll.pc = "sleep"
    /\ LET t == Absorbed(Polled)
       IN  /\ tracker' = [warmed |-> TRUE, seen |-> t.seen, thumbs |-> t.thumbs,
                          latest |-> t.latest]
           /\ poll' = IF t.changed THEN [pc |-> "mark", fresh |-> t.fresh] ELSE Handling(t.fresh)
    /\ UNCHANGED <<sequence, req, still, handed>>

PollMarks ==
    /\ poll.pc = "mark"
    /\ Bump
    /\ poll' = [poll EXCEPT !.pc = "notify"]
    /\ UNCHANGED <<tracker, req, still, handed>>

PollNotifies ==
    /\ poll.pc = "notify"
    /\ req' = Woken
    /\ poll' = Handling(poll.fresh)
    /\ UNCHANGED <<tracker, sequence, still, handed>>

(* motion_still::spawn: no still of an event that has one, and none without  *)
(* a permit, which the task holds until it ends.                            *)
StillBegins(e) ==
    /\ e \notin Range(stills)
    /\ \E p \in Permits :
          /\ still[p] = NoStill
          /\ still' = [still EXCEPT ![p] = [event |-> e, at |-> "running"]]

(* motion_recorder::handle, an event at a time: skipped (recording off, an   *)
(* unknown or unselected camera, a disarmed network), or given to           *)
(* start_motion; a still is taken when a recording starts or already runs.   *)
Handle ==
    /\ poll.pc = "handle"
    /\ LET e == Head(poll.fresh)
       IN  \/ UNCHANGED <<still, handed>>
           \/ /\ handed' = [handed EXCEPT ![e] = @ + 1]
              /\ still' = still \/ StillBegins(e)
    /\ poll' = Handling(Tail(poll.fresh))
    /\ UNCHANGED <<tracker, sequence, req>>

Poller ==
    /\ Poll \/ PollMarks \/ PollNotifies \/ Handle
    /\ UNCHANGED <<blink, stills, restarts>>

-----------------------------------------------------------------------------
(* A still task: the capture fails, or store_still.                         *)
Advance(p, stage) == still' = [still EXCEPT ![p].at = stage]
Ends(p) == still' = [still EXCEPT ![p] = NoStill]

StillGivesUp(p) ==
    /\ still[p].at = "running"
    /\ Ends(p)
    /\ UNCHANGED <<stills, sequence, req>>

Kept(e) ==
    IF e \in Range(stills) THEN stills ELSE Bounded(Append(stills, e), StillLimit)
StillStored(p) ==
    /\ still[p].at = "running"
    /\ stills' = Kept(still[p].event)
    /\ Advance(p, "stored")
    /\ UNCHANGED <<sequence, req>>

StillMarks(p) ==
    /\ still[p].at = "stored"
    /\ Bump
    /\ Advance(p, "marked")
    /\ UNCHANGED <<stills, req>>

StillNotifies(p) ==
    /\ still[p].at = "marked"
    /\ req' = Woken
    /\ Ends(p)
    /\ UNCHANGED <<stills, sequence>>

StillStep(p) ==
    /\ StillGivesUp(p) \/ StillStored(p) \/ StillMarks(p) \/ StillNotifies(p)
    /\ UNCHANGED <<blink, tracker, poll, handed, restarts>>

-----------------------------------------------------------------------------
(* GET /v1/motion in the engine.  wait_for_change enables its Notified, then *)
(* compares the sequence, then waits.                                       *)
Request ==
    /\ req.pc = "idle"
    /\ \E since \in {0, sequence} : req' = [NoRequest EXCEPT !.pc = "enabled", !.since = since]

Compare ==
    /\ req.pc = "enabled"
    /\ req' = [req EXCEPT !.pc = IF sequence # req.since THEN "sequence" ELSE "compared"]

WaitBegins ==
    /\ req.pc = "compared"
    /\ req' = [req EXCEPT !.pc = "waiting"]

WaitEnds ==
    /\ req.pc = "waiting"
    /\ req.woken
    /\ req' = [req EXCEPT !.pc = "sequence"]

WaitTimesOut ==
    /\ req.pc = "waiting"
    /\ req' = [req EXCEPT !.pc = "sequence"]

(* The answer: the sequence, then per camera its latest event and, later,    *)
(* that event's picture.                                                    *)
ReadSequence ==
    /\ req.pc = "sequence"
    /\ req' = [NoRequest EXCEPT !.pc = "build", !.seq = sequence]

Unread == {c \in Cameras : c \notin DOMAIN req.got}
Reading == {c \in DOMAIN req.got : req.got[c].source = "unread"}
Got(c, entry) ==
    req' = [req EXCEPT !.got = [d \in DOMAIN @ \cup {c} |-> IF d = c THEN entry ELSE @[d]]]

ReadLatest(c) ==
    /\ req.pc = "build"
    /\ Reading = {}
    /\ c \in Unread
    /\ LET e == tracker.latest[c]
       IN  Got(c, Entry(e, IF e = NoEvent THEN "none" ELSE "unread"))

ReadSource(c) ==
    /\ c \in Reading
    /\ LET e == req.got[c].event
       IN  Got(c, Entry(e, Source(e)))

(* Nothing is left to read: the answer is on its way.                       *)
Answered == req.pc = "build" /\ Unread \cup Reading = {}

Delivered ==
    /\ Answered
    /\ req' = NoRequest

HandlerSteps ==
    \/ Compare \/ WaitBegins \/ WaitEnds \/ ReadSequence \/ Delivered
    \/ \E c \in Cameras : ReadLatest(c) \/ ReadSource(c)
Handler == HandlerSteps /\ UNCHANGED engineVars
Client == (Request \/ WaitTimesOut) /\ UNCHANGED engineVars

(* The engine restarts: its memory is gone and its requests fail.           *)
Restart ==
    /\ restarts < MaxRestarts
    /\ restarts' = restarts + 1
    /\ tracker' = Fresh
    /\ stills' = <<>>
    /\ sequence' = 0
    /\ poll' = Asleep
    /\ still' = [p \in Permits |-> NoStill]
    /\ req' = NoRequest
    /\ UNCHANGED <<blink, handed>>

Next ==
    \/ Blink
    \/ Poller
    \/ \E p \in Permits : StillStep(p)
    \/ Handler
    \/ Client
    \/ Restart

Spec == Init /\ [][Next]_vars

-----------------------------------------------------------------------------
(* The type invariant of the tracker, its requests and what is shown.       *)
Entries == [event : Events \cup {NoEvent},
            source : {"blink", "local", "none", "unread"}]
Tasks == [event : Events \cup {NoEvent}, at : {"none", "running", "stored", "marked"}]
TypeOK ==
    /\ tracker.warmed \in BOOLEAN
    /\ Range(tracker.seen) \cup Range(tracker.thumbs) \cup Range(stills) \subseteq Events
    /\ Len(tracker.seen) <= SeenLimit /\ Len(tracker.thumbs) <= ThumbLimit
    /\ Len(stills) <= StillLimit
    /\ tracker.latest \in [Cameras -> Events \cup {NoEvent}]
    /\ sequence \in Nat
    /\ poll.pc \in {"sleep", "mark", "notify", "handle"}
    /\ still \in [Permits -> Tasks]
    /\ req.pc \in {"idle", "enabled", "compared", "waiting", "sequence", "build"}
    /\ \A c \in DOMAIN req.got : req.got[c] \in Entries

(* Changed, and not yet told: the writer has left the lock and not bumped.   *)
MarkPending == poll.pc = "mark" \/ \E p \in Permits : still[p].at = "stored"
WakePending == poll.pc = "notify" \/ \E p \in Permits : still[p].at = "marked"

(* A long poll sleeps only while its sequence is the tracker's, or while the *)
(* task that moved it is about to wake it.                                  *)
NoLostWakeup ==
    req.pc = "waiting" /\ ~req.woken => sequence = req.since \/ WakePending

(* An answer built lock by lock that carries the tracker's sequence is the   *)
(* tracker's state, unless a change is about to bump it: nothing the adapter *)
(* acknowledges with that sequence is lost.                                 *)
AnswersAreCurrent ==
    Answered /\ req.seq = sequence /\ ~MarkPending => req.got = View

NothingIsMissed == NoLostWakeup /\ AnswersAreCurrent

(* An event starts at most one recording, whatever is listed again, late or  *)
(* out of order, and across restarts; a live view, which each recording      *)
(* adds to Blink's list, never starts another.                              *)
RecordedOnce == \A e \in Events : handed[e] <= IF e \in LiveViews THEN 0 ELSE 1

(* An event is neither missed by Home Assistant nor recorded twice.          *)
EventsAreKept == NothingIsMissed /\ RecordedOnce

(* A camera's latest event never goes back to an older one, however late     *)
(* and in whatever order Blink lists the events.                            *)
LatestNeverGoesBack ==
    [][restarts' = restarts => \A c \in Cameras : tracker'.latest[c] >= tracker.latest[c]]_vars
=============================================================================
