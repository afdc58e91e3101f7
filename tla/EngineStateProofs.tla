------------------------- MODULE EngineStateProofs -------------------------
(***************************************************************************)
(* Theorems about what the engine knows of Blink from polling it: its      *)
(* motion tracker (Motion), and its copy of the programs with their        *)
(* toggles (ProviderState).                                                *)
(*                                                                         *)
(* Motion, for every number of cameras, events, stills and restarts.       *)
(* "Wakes" says who is about to wake a long poll whose sequence is not the *)
(* tracker's any more; "Reads" relates each entry of an answer, as it was  *)
(* read lock by lock, to the tracker now; "Once" says where an event that  *)
(* was handed to the recorder still is: among the seen, or beyond the      *)
(* pages of any poll.  The loop over the events of a poll is a recursive   *)
(* function; that it exists and what each of its steps keeps follows from  *)
(* the least event it would go wrong at ("Induction").                     *)
(*                                                                         *)
(* ProviderState, for every number of networks, refreshes and toggles.  A  *)
(* toggle posts its change without looking at Blink again.  What it        *)
(* verifies afterwards is nevertheless its own write or the app's, because *)
(* what it had read under the lock was not what it wants ("Deciding"): if  *)
(* Blink shows what it wants when the POST arrives, the app has been at it *)
(* meanwhile.                                                              *)
(***************************************************************************)
EXTENDS Motion, ProviderState, FiniteSetTheorems, SequenceTheorems, WellFoundedInduction, TLAPS

USE DEF engineVars

(* Motion's inductive invariant, the types first. *)
Latest == [Cameras -> Events \cup {NoEvent}]
Trackers == [warmed : BOOLEAN, seen : Seq(Events), thumbs : Seq(Events), latest : Latest]
Polls == [pc : {"sleep", "mark", "notify", "handle"}, fresh : Seq(Events)]
Answers == UNION {[S -> Entries] : S \in SUBSET Cameras}
Requests == [pc : {"idle", "enabled", "compared", "waiting", "sequence", "build"},
             since : Nat, woken : BOOLEAN, seq : Nat, got : Answers]
TrackerOK ==
    /\ tracker \in Trackers
    /\ Len(tracker.seen) <= SeenLimit /\ Len(tracker.thumbs) <= ThumbLimit
PollOK ==
    /\ poll \in Polls
    /\ poll.pc = "sleep" => poll.fresh = <<>>
    /\ poll.pc = "handle" => poll.fresh # <<>>
StillsOK ==
    /\ stills \in Seq(Events) /\ Len(stills) <= StillLimit
    /\ still \in [Permits -> Tasks]
    /\ \A p \in Permits : still[p].at # "none" => still[p].event \in Events
RequestOK == req \in Requests /\ sequence \in Nat
BlinkOK ==
    /\ blink \in [Events -> {"no", "listed", "thumbnail", "gone"}]
    /\ handed \in [Events -> Nat]
    /\ restarts \in Nat
Typed == TrackerOK /\ PollOK /\ StillsOK /\ RequestOK /\ BlinkOK

LEMMA Bounds ==
    /\ MaxEvents \in Nat /\ CameraOf \in [Events -> Cameras] /\ LiveViews \subseteq Events
    /\ PollLimit \in Nat \ {0} /\ SeenLimit \in Nat \ {0} /\ ThumbLimit \in Nat \ {0}
    /\ StillLimit \in Nat \ {0} /\ Encoders \in Nat \ {0}
  BY MotionAssumption

LEMMA EventsAreNumbers == Events = 1 .. MaxEvents /\ NoEvent \notin Events /\ NoEvent = 0
  BY Bounds DEF Events, NoEvent

LEMMA SomeEvents ==
    ASSUME NEW S \in SUBSET Events PROVE IsFiniteSet(S) /\ Cardinality(S) \in Nat
  <1>1. IsFiniteSet(Events)
    BY Bounds, FS_Interval DEF Events
  <1> QED
    BY <1>1, FS_Subset, FS_CardinalityType

-----------------------------------------------------------------------------
(* What is true of no event and stays true with the next is true of all: a   *)
(* least counterexample has a predecessor.                                  *)
Smaller == {p \in Nat \X Nat : p[1] < p[2]}

LEMMA Least ==
    ASSUME NEW S \in SUBSET Nat, S # {}
    PROVE \E x \in S : \A y \in S : x <= y
  <1>1. OpToRel(<, Nat) = Smaller
    BY Zenon DEF OpToRel, Smaller
  <1>2. IsWellFoundedOn(Smaller, Nat)
    BY <1>1, NatLessThanWellFounded, Zenon
  <1>3. PICK x \in S : \A y \in S : ~ (<<y, x>> \in Smaller)
    BY <1>2, WFMin
  <1>4. ASSUME NEW y \in S PROVE x <= y
    <2>1. y < x => <<y, x>> \in Smaller
      BY DEF Smaller
    <2> QED
      BY <1>3, <2>1
  <1> QED
    BY <1>4

LEMMA Induction ==
    ASSUME NEW good, 0 \in good,
           \A n \in 1 .. MaxEvents : n - 1 \in good => n \in good
    PROVE  \A n \in 0 .. MaxEvents : n \in good
  <1>1. MaxEvents \in Nat
    BY Bounds
  <1> DEFINE bad == {n \in 0 .. MaxEvents : n \notin good}
  <1>2. CASE bad # {}
    <2>1. bad \in SUBSET Nat
      BY <1>1
    <2>2. PICK x \in bad : \A y \in bad : x <= y
      BY <1>2, <2>1, Least
    <2>3. x \in 1 .. MaxEvents /\ x \notin good
      BY <1>1
    <2>4. x - 1 \in 0 .. MaxEvents /\ ~ (x <= x - 1)
      BY <1>1, <2>3
    <2>5. x - 1 \in good
      BY <2>2, <2>4
    <2> QED
      BY <2>3, <2>5
  <1> QED
    BY <1>2

(* The loop of absorb, as the function Absorbed chooses. *)
Loops(h, events, n) ==
    h = [m \in 0 .. n |-> IF m = 0 THEN NothingNew ELSE Absorb(h[m - 1], MaxEvents + 1 - m, events)]
Loop(events) == CHOOSE h : Loops(h, events, MaxEvents)

LEMMA AbsorbedIsLoop == ASSUME NEW events PROVE Absorbed(events) = Loop(events)[MaxEvents]
  BY DEF Absorbed, Loop, Loops

LEMMA LoopExists == ASSUME NEW events PROVE \E h : Loops(h, events, MaxEvents)
  <1> DEFINE good == {n \in 0 .. MaxEvents : \E h : Loops(h, events, n)}
  <1>z. MaxEvents \in Nat
    BY Bounds
  <1>0. 0 \in good
    <2>1. Loops([m \in 0 .. 0 |-> NothingNew], events, 0)
      BY DEF Loops
    <2> QED
      BY <1>z, <2>1
  <1>1. ASSUME NEW n \in 1 .. MaxEvents, n - 1 \in good PROVE n \in good
    <2>1. PICK h : Loops(h, events, n - 1)
      BY <1>1
    <2> DEFINE g == [m \in 0 .. n |->
                        IF m = n THEN Absorb(h[n - 1], MaxEvents + 1 - n, events) ELSE h[m]]
    <2>2. ASSUME NEW m \in 0 .. n
          PROVE  g[m] = IF m = 0 THEN NothingNew ELSE Absorb(g[m - 1], MaxEvents + 1 - m, events)
      <3>1. CASE m = n
        <4>1. m - 1 \in 0 .. n /\ m - 1 # n /\ m # 0
          BY <1>z, <3>1
        <4> QED
          BY <3>1, <4>1
      <3>2. CASE m # n
        <4>1. m \in 0 .. n - 1 /\ (m # 0 => m - 1 \in 0 .. n /\ m - 1 # n)
          BY <1>z, <3>2
        <4>2. h[m] = IF m = 0 THEN NothingNew ELSE Absorb(h[m - 1], MaxEvents + 1 - m, events)
          BY <2>1, <4>1 DEF Loops
        <4> QED
          BY <3>2, <4>1, <4>2
      <3> QED
        BY <3>1, <3>2
    <2>3. g = [m \in 0 .. n |-> g[m]]
      OBVIOUS
    <2>4. g = [m \in 0 .. n |->
                  IF m = 0 THEN NothingNew ELSE Absorb(g[m - 1], MaxEvents + 1 - m, events)]
      <3> HIDE DEF g
      <3> QED
        BY <2>2, <2>3
    <2>5. Loops(g, events, n)
      BY <2>4 DEF Loops
    <2> QED
      BY <1>z, <2>5
  <1>2. \A n \in 0 .. MaxEvents : n \in good
    <2> HIDE DEF good
    <2> QED
      BY <1>0, <1>1, Induction
  <1> QED
    BY <1>z, <1>2

(* An invariant of the loop holds of what absorb leaves behind. *)
LEMMA AbsorbedKeeps ==
    ASSUME NEW events, NEW good, <<0, NothingNew>> \in good,
           \A n \in 1 .. MaxEvents : \A t :
               <<n - 1, t>> \in good => <<n, Absorb(t, MaxEvents + 1 - n, events)>> \in good
    PROVE  <<MaxEvents, Absorbed(events)>> \in good
  <1>z. MaxEvents \in Nat
    BY Bounds
  <1> DEFINE h == Loop(events)
             held == {n \in 0 .. MaxEvents : <<n, h[n]>> \in good}
  <1>1. Loops(h, events, MaxEvents)
    BY LoopExists DEF Loop
  <1> HIDE DEF h
  <1>2. \A n \in 0 .. MaxEvents :
            h[n] = IF n = 0 THEN NothingNew ELSE Absorb(h[n - 1], MaxEvents + 1 - n, events)
    BY <1>1 DEF Loops
  <1>3. 0 \in held
    BY <1>2, <1>z
  <1>4. ASSUME NEW n \in 1 .. MaxEvents, n - 1 \in held PROVE n \in held
    <2>1. n \in 0 .. MaxEvents /\ n # 0 /\ <<n - 1, h[n - 1]>> \in good
      BY <1>4, <1>z
    <2>2. h[n] = Absorb(h[n - 1], MaxEvents + 1 - n, events)
      BY <1>2, <2>1
    <2> QED
      BY <2>1, <2>2
  <1>5. \A n \in 0 .. MaxEvents : n \in held
    <2> HIDE DEF held
    <2> QED
      BY <1>3, <1>4, Induction
  <1> QED
    BY <1>5, <1>z, AbsorbedIsLoop DEF h

-----------------------------------------------------------------------------
(* A list that forgets its oldest entry. *)
LEMMA Remembering ==
    ASSUME NEW s \in Seq(Events), NEW e \in Events, NEW n \in Nat \ {0}, Len(s) <= n
    PROVE  /\ Bounded(Append(s, e), n) \in Seq(Events)
           /\ Len(Bounded(Append(s, e), n)) <= n
           /\ Len(s) < n => Bounded(Append(s, e), n) = Append(s, e)
  <1>1. Append(s, e) \in Seq(Events) /\ Len(Append(s, e)) = Len(s) + 1
    OBVIOUS
  <1>2. CASE Len(s) < n
    BY <1>1, <1>2 DEF Bounded
  <1>3. CASE Len(s) = n
    <2>1. Bounded(Append(s, e), n) = SubSeq(Append(s, e), 2, n + 1)
      BY <1>1, <1>3 DEF Bounded
    <2>2. SubSeq(Append(s, e), 2, n + 1) \in Seq(Events) /\ Len(SubSeq(Append(s, e), 2, n + 1)) = n
      BY <1>1, <1>3
    <2> QED
      BY <1>3, <2>1, <2>2
  <1> QED
    BY <1>2, <1>3

LEMMA Ranges ==
    ASSUME NEW s \in Seq(Events) PROVE Range(s) \in SUBSET Events
  BY DEF Range

LEMMA RangeAppend ==
    ASSUME NEW s \in Seq(Events), NEW e \in Events
    PROVE  /\ Range(Append(s, e)) = Range(s) \cup {e}
           /\ IsInjective(s) /\ e \notin Range(s) => IsInjective(Append(s, e))
  <1>1. DOMAIN Append(s, e) = DOMAIN s \cup {Len(s) + 1} /\ Append(s, e)[Len(s) + 1] = e
    OBVIOUS
  <1>2. \A i \in DOMAIN s : Append(s, e)[i] = s[i] /\ i # Len(s) + 1
    OBVIOUS
  <1> QED
    BY <1>1, <1>2 DEF Range, IsInjective

LEMMA RangeTail ==
    ASSUME NEW s \in Seq(Events), s # <<>>
    PROVE  /\ Tail(s) \in Seq(Events) /\ Head(s) \in Events /\ Head(s) \in Range(s)
           /\ Range(Tail(s)) \in SUBSET Range(s)
           /\ IsInjective(s) => IsInjective(Tail(s)) /\ Head(s) \notin Range(Tail(s))
  <1>1. /\ Tail(s) \in Seq(Events) /\ Len(Tail(s)) = Len(s) - 1 /\ Len(s) \in Nat \ {0}
        /\ \A i \in DOMAIN Tail(s) : i + 1 \in DOMAIN s /\ Tail(s)[i] = s[i + 1] /\ i + 1 # 1
        /\ Head(s) = s[1] /\ 1 \in DOMAIN s /\ DOMAIN Tail(s) \in SUBSET Nat
    OBVIOUS
  <1> QED
    BY <1>1 DEF Range, IsInjective

(* No event twice, so no more than there are. *)
LEMMA NoRoomNeeded ==
    ASSUME NEW s \in Seq(Events), IsInjective(s), NEW e \in Events, e \notin Range(s)
    PROVE  Len(s) < MaxEvents
  <1> DEFINE r == Append(s, e)
  <1>1. r \in Seq(Events) /\ Len(r) = Len(s) + 1 /\ IsInjective(r)
    BY RangeAppend
  <1> HIDE DEF r
  <1>2. r \in Injection(1 .. Len(r), Events)
    BY <1>1 DEF Injection, IsInjective
  <1>3. IsFiniteSet(Events) /\ Cardinality(Events) = MaxEvents
    BY Bounds, FS_Interval DEF Events
  <1>4. Cardinality(1 .. Len(r)) <= MaxEvents
    BY <1>2, <1>3, FS_Injection
  <1>5. Cardinality(1 .. Len(r)) = Len(r)
    BY <1>1, FS_Interval
  <1> QED
    BY <1>1, <1>4, <1>5, Bounds

-----------------------------------------------------------------------------
(* One event of the loop.  What absorb has changed it says. *)
Absorbings == [seen : Seq(Events), thumbs : Seq(Events), latest : Latest,
               changed : BOOLEAN, fresh : Seq(Events)]
Fitting == {t \in Absorbings : Len(t.seen) <= SeenLimit /\ Len(t.thumbs) <= ThumbLimit}
Grows(t, u) ==
    /\ \A c \in Cameras : u.latest[c] >= t.latest[c]
    /\ ~u.changed => ~t.changed /\ u.thumbs = t.thumbs /\ u.latest = t.latest

LEMMA WithThumbnailFits ==
    ASSUME NEW t \in Fitting, NEW e \in Events
    PROVE  /\ WithThumbnail(t, e) \in Fitting /\ Grows(t, WithThumbnail(t, e))
           /\ WithThumbnail(t, e).seen = t.seen /\ WithThumbnail(t, e).fresh = t.fresh
  <1>t. t \in Absorbings /\ Len(t.seen) <= SeenLimit /\ Len(t.thumbs) <= ThumbLimit
    BY DEF Fitting
  <1>g. \A c \in Cameras : t.latest[c] \in Int
    BY <1>t, EventsAreNumbers DEF Absorbings, Latest
  <1> DEFINE u == [t EXCEPT !.thumbs = Bounded(Append(@, e), ThumbLimit), !.changed = TRUE]
  <1>1. t.thumbs \in Seq(Events)
    BY <1>t DEF Absorbings
  <1>2. Bounded(Append(t.thumbs, e), ThumbLimit) \in Seq(Events)
        /\ Len(Bounded(Append(t.thumbs, e), ThumbLimit)) <= ThumbLimit
    BY <1>1, <1>t, Bounds, Remembering
  <1>3. /\ u \in Absorbings /\ u.thumbs = Bounded(Append(t.thumbs, e), ThumbLimit) /\ u.changed
        /\ u.seen = t.seen /\ u.latest = t.latest /\ u.fresh = t.fresh
    BY <1>t, <1>2 DEF Absorbings
  <1>4. WithThumbnail(t, e) \in {t, u}
    BY DEF WithThumbnail
  <1> HIDE DEF u
  <1>5. u \in Fitting
    BY <1>t, <1>2, <1>3 DEF Fitting
  <1>6. Grows(t, t) /\ Grows(t, u)
    BY <1>g, <1>3 DEF Grows
  <1> QED
    BY <1>3, <1>4, <1>5, <1>6

LEMMA RememberedFits ==
    ASSUME NEW t \in Fitting, NEW e \in Events, NEW warmed \in BOOLEAN
    PROVE  LET u == Remembered(t, e, warmed)
           IN  /\ u \in Fitting /\ Grows(t, u)
               /\ u.seen = Bounded(Append(t.seen, e), SeenLimit)
               /\ u.fresh = IF warmed THEN Append(t.fresh, e) ELSE t.fresh
  <1>t. /\ t \in Absorbings /\ Len(t.seen) <= SeenLimit /\ Len(t.thumbs) <= ThumbLimit
        /\ t.seen \in Seq(Events) /\ t.fresh \in Seq(Events) /\ t.latest \in Latest
    BY DEF Fitting, Absorbings
  <1>g. CameraOf[e] \in Cameras /\ \A c \in Cameras : t.latest[c] \in Int
    BY <1>t, EventsAreNumbers, Bounds DEF Latest
  <1> DEFINE seen == Bounded(Append(t.seen, e), SeenLimit)
             latest == [t.latest EXCEPT ![CameraOf[e]] = IF Newer(t, e) THEN e ELSE @]
             fresh == IF warmed THEN Append(t.fresh, e) ELSE t.fresh
             u == Remembered(t, e, warmed)
  <1>1. seen \in Seq(Events) /\ Len(seen) <= SeenLimit
    BY <1>t, Bounds, Remembering
  <1>2. latest \in Latest
    BY <1>t, <1>g DEF Latest
  <1>3. fresh \in Seq(Events)
    BY <1>t
  <1>4. /\ u \in Absorbings /\ u.seen = seen /\ u.thumbs = t.thumbs
        /\ u.latest = latest /\ u.fresh = fresh
        /\ u.changed = (t.changed \/ Newer(t, e))
    <2>1. t.changed \in BOOLEAN /\ Newer(t, e) \in BOOLEAN
      BY <1>t DEF Absorbings, Newer
    <2>2. (t.changed \/ Newer(t, e)) \in BOOLEAN
      BY <2>1
    <2>3. u = [t EXCEPT !.seen = seen, !.latest = latest,
                        !.changed = t.changed \/ Newer(t, e), !.fresh = fresh]
      BY <1>t DEF Remembered, Absorbings
    <2> HIDE DEF u, seen, latest, fresh
    <2> QED
      BY <1>t, <1>1, <1>2, <1>3, <2>2, <2>3 DEF Absorbings
  <1>5. \A c \in Cameras : latest[c] >= t.latest[c]
    BY <1>t, <1>g, EventsAreNumbers DEF Newer, Latest
  <1>6. ~Newer(t, e) => latest = t.latest
    BY <1>t, <1>g DEF Latest
  <1> HIDE DEF u, latest, seen, fresh
  <1>7. u \in Fitting
    BY <1>t, <1>1, <1>4 DEF Fitting
  <1>8. Grows(t, u)
    BY <1>4, <1>5, <1>6 DEF Grows
  <1> QED
    BY <1>4, <1>7, <1>8 DEF u, seen, fresh

LEMMA GrowsOn ==
    ASSUME NEW t \in Fitting, NEW u \in Fitting, NEW v \in Fitting, Grows(t, u), Grows(u, v)
    PROVE  Grows(t, v)
  <1>1. \A c \in Cameras : t.latest[c] \in Int /\ u.latest[c] \in Int /\ v.latest[c] \in Int
    BY EventsAreNumbers DEF Fitting, Absorbings, Latest
  <1> QED
    BY <1>1 DEF Grows

LEMMA AbsorbFits ==
    ASSUME NEW t \in Fitting, NEW e \in Events, NEW events, TrackerOK
    PROVE  LET u == Absorb(t, e, events)
           IN  /\ u \in Fitting /\ Grows(t, u)
               /\ \/ u.seen = t.seen /\ u.fresh = t.fresh /\ (e \in events => e \in Range(t.seen))
                  \/ /\ e \in events /\ e \notin Range(t.seen)
                     /\ u.seen = Bounded(Append(t.seen, e), SeenLimit)
                     /\ u.fresh = IF tracker.warmed THEN Append(t.fresh, e) ELSE t.fresh
  <1> DEFINE s == WithThumbnail(t, e)
             u == Absorb(t, e, events)
  <1>1. s \in Fitting /\ Grows(t, s) /\ s.seen = t.seen /\ s.fresh = t.fresh
    BY WithThumbnailFits
  <1>2. CASE e \notin events
    <2>1. u = t
      BY <1>2 DEF Absorb
    <2>2. \A c \in Cameras : t.latest[c] \in Int
      BY EventsAreNumbers DEF Fitting, Absorbings, Latest
    <2>3. Grows(t, t)
      BY <2>2 DEF Grows
    <2> QED
      BY <1>2, <2>1, <2>3
  <1>3. CASE e \in events /\ e \in Range(t.seen)
    <2>1. u = s
      BY <1>1, <1>3 DEF Absorb, Observed
    <2> HIDE DEF s, u
    <2> QED
      BY <1>1, <1>3, <2>1 DEF u
  <1>4. CASE e \in events /\ e \notin Range(t.seen)
    <2>1. u = Remembered(s, e, tracker.warmed)
      BY <1>1, <1>4 DEF Absorb, Observed
    <2>2. tracker.warmed \in BOOLEAN
      BY DEF TrackerOK, Trackers
    <2> HIDE DEF s, u
    <2>3. /\ u \in Fitting /\ Grows(s, u)
          /\ u.seen = Bounded(Append(s.seen, e), SeenLimit)
          /\ u.fresh = IF tracker.warmed THEN Append(s.fresh, e) ELSE s.fresh
      BY <1>1, <2>1, <2>2, RememberedFits
    <2>4. Grows(t, u)
      BY <1>1, <2>3, GrowsOn
    <2> QED
      BY <1>1, <1>4, <2>3, <2>4 DEF u
  <1> QED
    BY <1>2, <1>3, <1>4

LEMMA Begins == TrackerOK => NothingNew \in Fitting /\ Grows(NothingNew, NothingNew)
  <1> SUFFICES ASSUME TrackerOK PROVE NothingNew \in Fitting /\ Grows(NothingNew, NothingNew)
    OBVIOUS
  <1>1. NothingNew \in Fitting
    BY DEF TrackerOK, Trackers, NothingNew, Fitting, Absorbings
  <1>2. \A c \in Cameras : NothingNew.latest[c] \in Int
    BY <1>1, EventsAreNumbers DEF Fitting, Absorbings, Latest
  <1> QED
    BY <1>1, <1>2 DEF Grows

LEMMA Descending ==
    ASSUME NEW n \in 1 .. MaxEvents
    PROVE  MaxEvents + 1 - n \in Events /\ n \in 0 .. MaxEvents /\ n - 1 \in 0 .. MaxEvents
  BY Bounds DEF Events

(* What absorb does to the tracker, whatever is polled. *)
LEMMA AbsorbedFits ==
    ASSUME TrackerOK, NEW events
    PROVE  Absorbed(events) \in Fitting /\ Grows(NothingNew, Absorbed(events))
  <1> DEFINE good == {p \in (0 .. MaxEvents) \X Fitting : Grows(NothingNew, p[2])}
  <1>1. <<0, NothingNew>> \in good
    BY Begins, Bounds
  <1>2. ASSUME NEW n \in 1 .. MaxEvents, NEW t, <<n - 1, t>> \in good
        PROVE  <<n, Absorb(t, MaxEvents + 1 - n, events)>> \in good
    <2>1. t \in Fitting /\ Grows(NothingNew, t)
      BY <1>2
    <2>2. /\ Absorb(t, MaxEvents + 1 - n, events) \in Fitting
          /\ Grows(t, Absorb(t, MaxEvents + 1 - n, events))
      BY <2>1, Descending, AbsorbFits
    <2>3. Grows(NothingNew, Absorb(t, MaxEvents + 1 - n, events))
      BY <2>1, <2>2, Begins, GrowsOn
    <2> QED
      BY <2>2, <2>3, Descending
  <1>3. <<MaxEvents, Absorbed(events)>> \in good
    <2> HIDE DEF good
    <2> QED
      BY <1>1, <1>2, AbsorbedKeeps
  <1> QED
    BY <1>3

(* Where nothing that was seen is forgotten, an event is fresh once. *)
Fresher(t, n, events) ==
    /\ IsInjective(t.seen) /\ IsInjective(t.fresh)
    /\ Range(tracker.seen) \in SUBSET Range(t.seen)
    /\ Range(t.seen) \in SUBSET (Range(tracker.seen) \cup events)
    /\ \A e \in events : e > MaxEvents - n => e \in Range(t.seen)
    /\ Range(t.fresh) \in SUBSET ((events \cap Range(t.seen)) \ Range(tracker.seen))
    /\ ~tracker.warmed => t.fresh = <<>>

LEMMA AbsorbedOnce ==
    ASSUME TrackerOK, MaxEvents <= SeenLimit, IsInjective(tracker.seen),
           NEW events \in SUBSET Events
    PROVE  Fresher(Absorbed(events), MaxEvents, events)
  <1> DEFINE good == {p \in (0 .. MaxEvents) \X Fitting : Fresher(p[2], p[1], events)}
  <1>1. <<0, NothingNew>> \in good
    <2>1. NothingNew.seen = tracker.seen /\ NothingNew.fresh = <<>>
      BY DEF NothingNew
    <2>2. IsInjective(<<>>) /\ Range(<<>>) = {}
      BY DEF IsInjective, Range
    <2>3. \A e \in events : ~ (e > MaxEvents - 0)
      BY Bounds DEF Events
    <2>4. Fresher(NothingNew, 0, events)
      BY <2>1, <2>2, <2>3 DEF Fresher
    <2> QED
      BY <2>4, Begins, Bounds
  <1>2. ASSUME NEW n \in 1 .. MaxEvents, NEW t, <<n - 1, t>> \in good
        PROVE  <<n, Absorb(t, MaxEvents + 1 - n, events)>> \in good
    <2> DEFINE e == MaxEvents + 1 - n
               u == Absorb(t, e, events)
    <2>1. t \in Fitting /\ Fresher(t, n - 1, events)
      BY <1>2
    <2>2. e \in Events /\ n \in 0 .. MaxEvents
      BY Descending
    <2>3. \A f \in events : f > MaxEvents - n => f > MaxEvents - (n - 1) \/ f = e
      BY Bounds DEF Events
    <2>4. t.seen \in Seq(Events) /\ t.fresh \in Seq(Events)
      BY <2>1 DEF Fitting, Absorbings
    <2> HIDE DEF e
    <2>5. /\ u \in Fitting
          /\ \/ u.seen = t.seen /\ u.fresh = t.fresh /\ (e \in events => e \in Range(t.seen))
             \/ /\ e \in events /\ e \notin Range(t.seen)
                /\ u.seen = Bounded(Append(t.seen, e), SeenLimit)
                /\ u.fresh = IF tracker.warmed THEN Append(t.fresh, e) ELSE t.fresh
      BY <2>1, <2>2, AbsorbFits
    <2> HIDE DEF u
    <2>6. CASE u.seen = t.seen /\ u.fresh = t.fresh /\ (e \in events => e \in Range(t.seen))
      BY <2>1, <2>2, <2>3, <2>5, <2>6 DEF Fresher, u, e
    <2>7. CASE /\ e \in events /\ e \notin Range(t.seen)
               /\ u.seen = Bounded(Append(t.seen, e), SeenLimit)
               /\ u.fresh = IF tracker.warmed THEN Append(t.fresh, e) ELSE t.fresh
      <3>1. Len(t.seen) < SeenLimit
        BY <2>1, <2>2, <2>4, <2>7, NoRoomNeeded, Bounds DEF Fresher
      <3>2. u.seen = Append(t.seen, e)
        <4>1. SeenLimit \in Nat \ {0} /\ Len(t.seen) <= SeenLimit
          BY <2>1, Bounds DEF Fitting
        <4>2. Bounded(Append(t.seen, e), SeenLimit) = Append(t.seen, e)
          BY <2>2, <2>4, <3>1, <4>1, Remembering
        <4> QED
          BY <2>7, <4>2
      <3>3. Range(u.seen) = Range(t.seen) \cup {e} /\ IsInjective(u.seen)
        BY <2>1, <2>2, <2>4, <2>7, <3>2, RangeAppend DEF Fresher
      <3>4. CASE tracker.warmed
        <4>1. Range(u.fresh) = Range(t.fresh) \cup {e} /\ IsInjective(u.fresh)
          BY <2>1, <2>2, <2>4, <2>7, <3>4, RangeAppend DEF Fresher
        <4>2. Fresher(u, n, events)
          BY <2>1, <2>3, <2>7, <3>3, <3>4, <4>1 DEF Fresher
        <4> QED
          BY <2>2, <2>5, <4>2 DEF u, e
      <3>5. CASE ~tracker.warmed
        <4>1. u.fresh = t.fresh
          BY <2>7, <3>5
        <4>2. Fresher(u, n, events)
          BY <2>1, <2>3, <2>7, <3>3, <3>5, <4>1 DEF Fresher
        <4> QED
          BY <2>2, <2>5, <4>2 DEF u, e
      <3> QED
        BY <3>4, <3>5
    <2> QED
      BY <2>5, <2>6, <2>7
  <1>3. <<MaxEvents, Absorbed(events)>> \in good
    <2> HIDE DEF good
    <2> QED
      BY <1>1, <1>2, AbsorbedKeeps
  <1> QED
    BY <1>3

-----------------------------------------------------------------------------
(* The types, part by part. *)

LEMMA PollDoes ==
    ASSUME Typed, Poll
    PROVE  /\ tracker' \in Trackers /\ tracker'.warmed = TRUE
           /\ tracker'.seen = Absorbed(Polled).seen /\ tracker'.thumbs = Absorbed(Polled).thumbs
           /\ tracker'.latest = Absorbed(Polled).latest
           /\ poll'.fresh = Absorbed(Polled).fresh
           /\ poll'.pc = IF Absorbed(Polled).changed THEN "mark"
                         ELSE IF Absorbed(Polled).fresh = <<>> THEN "sleep" ELSE "handle"
           /\ TrackerOK' /\ PollOK'
  <1> DEFINE t == Absorbed(Polled)
  <1>1. t \in Fitting
    BY AbsorbedFits DEF Typed
  <1> HIDE DEF t
  <1>2. /\ tracker' = [warmed |-> TRUE, seen |-> t.seen, thumbs |-> t.thumbs, latest |-> t.latest]
        /\ poll' = IF t.changed THEN [pc |-> "mark", fresh |-> t.fresh] ELSE Handling(t.fresh)
    BY DEF Poll, t
  <1>3. t \in Absorbings /\ Len(t.seen) <= SeenLimit /\ Len(t.thumbs) <= ThumbLimit
    BY <1>1 DEF Fitting
  <1>4. tracker' \in Trackers /\ TrackerOK'
    BY <1>2, <1>3 DEF Trackers, TrackerOK, Absorbings
  <1>5. /\ poll'.fresh = t.fresh /\ t.fresh \in Seq(Events)
        /\ poll'.pc = IF t.changed THEN "mark" ELSE IF t.fresh = <<>> THEN "sleep" ELSE "handle"
        /\ poll' = [pc |-> poll'.pc, fresh |-> poll'.fresh]
    BY <1>2, <1>3 DEF Handling, Asleep, Absorbings
  <1>6. PollOK'
    BY <1>5 DEF PollOK, Polls
  <1> QED
    BY <1>2, <1>4, <1>5, <1>6 DEF t

LEMMA Handles ==
    ASSUME PollOK, Handle
    PROVE  /\ poll.fresh \in Seq(Events) /\ poll.fresh # <<>> /\ poll' = Handling(Tail(poll.fresh))
           /\ Head(poll.fresh) \in Events /\ PollOK' /\ poll'.fresh = Tail(poll.fresh)
           /\ poll'.pc \in {"sleep", "handle"}
  <1>1. poll.fresh \in Seq(Events) /\ poll.fresh # <<>> /\ poll' = Handling(Tail(poll.fresh))
    BY DEF PollOK, Handle, Polls
  <1>2. Tail(poll.fresh) \in Seq(Events) /\ Head(poll.fresh) \in Events
    BY <1>1, RangeTail
  <1>3. /\ poll'.fresh = Tail(poll.fresh)
        /\ poll'.pc = IF Tail(poll.fresh) = <<>> THEN "sleep" ELSE "handle"
        /\ poll' = [pc |-> poll'.pc, fresh |-> poll'.fresh]
    BY <1>1 DEF Handling, Asleep
  <1> QED
    BY <1>1, <1>2, <1>3 DEF PollOK, Polls

LEMMA TrackerStep == Typed /\ [Next]_vars => TrackerOK' /\ PollOK'
  <1> SUFFICES ASSUME Typed, [Next]_vars PROVE TrackerOK' /\ PollOK'
    OBVIOUS
  <1>t. TrackerOK /\ PollOK
    BY DEF Typed
  <1>c. ASSUME UNCHANGED <<tracker, poll>> PROVE TrackerOK' /\ PollOK'
    BY <1>c, <1>t DEF TrackerOK, PollOK
  <1>1. CASE Blink \/ Handler \/ Client \/ UNCHANGED vars
    BY <1>1, <1>c DEF Blink, Handler, Client, vars
  <1>2. ASSUME NEW p \in Permits, StillStep(p) PROVE TrackerOK' /\ PollOK'
    BY <1>2, <1>c DEF StillStep
  <1>3. CASE Poll
    BY <1>3, PollDoes
  <1>4. CASE PollMarks
    <2>1. poll' = [pc |-> "notify", fresh |-> poll.fresh] /\ UNCHANGED tracker
      BY <1>4, <1>t DEF PollMarks, PollOK, Polls
    <2> QED
      BY <2>1, <1>t DEF TrackerOK, PollOK, Polls
  <1>5. CASE PollNotifies
    <2>1. poll' = IF poll.fresh = <<>> THEN [pc |-> "sleep", fresh |-> <<>>]
                  ELSE [pc |-> "handle", fresh |-> poll.fresh]
      BY <1>5 DEF PollNotifies, Handling, Asleep
    <2>2. UNCHANGED tracker /\ poll.fresh \in Seq(Events)
      BY <1>5, <1>t DEF PollNotifies, PollOK, Polls
    <2> QED
      BY <2>1, <2>2, <1>t DEF TrackerOK, PollOK, Polls
  <1>6. CASE Handle
    BY <1>6, <1>t, Handles DEF Handle, TrackerOK
  <1>7. CASE Restart
    <2>1. /\ tracker' = [warmed |-> FALSE, seen |-> <<>>, thumbs |-> <<>>,
                         latest |-> [c \in Cameras |-> NoEvent]]
          /\ poll' = [pc |-> "sleep", fresh |-> <<>>]
      BY <1>7 DEF Restart, Fresh, Asleep
    <2> QED
      BY <2>1, Bounds DEF TrackerOK, Trackers, Latest, PollOK, Polls
  <1> QED
    BY <1>1, <1>2, <1>3, <1>4, <1>5, <1>6, <1>7 DEF Next, Poller

LEMMA StillsStep == Typed /\ [Next]_vars => StillsOK'
  <1> SUFFICES ASSUME Typed, [Next]_vars PROVE StillsOK'
    OBVIOUS
  <1>t. StillsOK
    BY DEF Typed
  <1>n. NoStill \in Tasks /\ NoStill.at = "none"
    BY DEF NoStill, Tasks
  <1>c. ASSUME UNCHANGED <<stills, still>> PROVE StillsOK'
    BY <1>c, <1>t DEF StillsOK
  <1>s. ASSUME NEW p \in Permits, NEW g \in Tasks, still' = [still EXCEPT ![p] = g],
               g.at # "none" => g.event \in Events, UNCHANGED stills
        PROVE  StillsOK'
    BY <1>s, <1>t DEF StillsOK
  <1>1. CASE Blink \/ Handler \/ Client \/ UNCHANGED vars
    BY <1>1, <1>c DEF Blink, Handler, Client, vars
  <1>2. ASSUME NEW p \in Permits, StillStep(p) PROVE StillsOK'
    <2>1. still[p] \in Tasks /\ (still[p].at # "none" => still[p].event \in Events)
      BY <1>t DEF StillsOK
    <2>a. ASSUME NEW stage \in {"stored", "marked"}
          PROVE  /\ [still[p] EXCEPT !.at = stage] \in Tasks
                 /\ [still[p] EXCEPT !.at = stage].event = still[p].event
      BY <2>1 DEF Tasks
    <2>b. ASSUME NEW stage \in {"stored", "marked"}, Advance(p, stage)
          PROVE  still' = [still EXCEPT ![p] = [still[p] EXCEPT !.at = stage]]
      BY <2>b, <1>t DEF Advance, StillsOK
    <2>2. CASE StillGivesUp(p) \/ StillNotifies(p)
      BY <2>2, <1>n, <1>s DEF StillGivesUp, StillNotifies, Ends
    <2>3. CASE StillMarks(p)
      <3>1. still' = [still EXCEPT ![p] = [still[p] EXCEPT !.at = "marked"]]
        BY <2>3, <2>b DEF StillMarks
      <3>2. still[p].event \in Events
        BY <2>1, <2>3 DEF StillMarks
      <3> QED
        BY <2>3, <2>a, <3>1, <3>2, <1>s DEF StillMarks
    <2>4. CASE StillStored(p)
      <3>1. still' = [still EXCEPT ![p] = [still[p] EXCEPT !.at = "stored"]]
        BY <2>4, <2>b DEF StillStored
      <3>2. still[p].event \in Events
        BY <2>1, <2>4 DEF StillStored
      <3>3. /\ Bounded(Append(stills, still[p].event), StillLimit) \in Seq(Events)
            /\ Len(Bounded(Append(stills, still[p].event), StillLimit)) <= StillLimit
        BY <1>t, <3>2, Bounds, Remembering DEF StillsOK
      <3>4. stills' \in Seq(Events) /\ Len(stills') <= StillLimit
        BY <2>4, <3>3, <1>t DEF StillStored, Kept, StillsOK
      <3>5. /\ [still[p] EXCEPT !.at = "stored"] \in Tasks
            /\ [still[p] EXCEPT !.at = "stored"].event \in Events
        BY <2>a, <3>2
      <3> QED
        BY <3>1, <3>4, <3>5, <1>t DEF StillsOK
    <2> QED
      BY <1>2, <2>2, <2>3, <2>4 DEF StillStep
  <1>3. CASE (Poll \/ PollMarks \/ PollNotifies) /\ UNCHANGED stills
    BY <1>3, <1>c DEF Poll, PollMarks, PollNotifies
  <1>4. CASE Handle /\ UNCHANGED stills
    <2>1. Head(poll.fresh) \in Events
      BY <1>4, Handles DEF Typed
    <2>2. CASE UNCHANGED still
      BY <1>4, <2>2, <1>c
    <2>3. CASE StillBegins(Head(poll.fresh))
      <3>1. PICK p \in Permits :
               still' = [still EXCEPT ![p] = [event |-> Head(poll.fresh), at |-> "running"]]
        BY <2>3 DEF StillBegins
      <3>2. [event |-> Head(poll.fresh), at |-> "running"] \in Tasks
        BY <2>1 DEF Tasks
      <3> QED
        BY <1>4, <2>1, <3>1, <3>2, <1>s
    <2> QED
      BY <1>4, <2>2, <2>3 DEF Handle
  <1>5. CASE Restart
    BY <1>5, <1>n, Bounds DEF Restart, StillsOK
  <1> QED
    BY <1>1, <1>2, <1>3, <1>4, <1>5 DEF Next, Poller

(* What is written into a request. *)
LEMMA RequestForms ==
    ASSUME req \in Requests
    PROVE  /\ NoRequest \in Requests /\ Woken \in Requests
           /\ \A pc \in {"compared", "waiting", "sequence"} :
                 /\ [req EXCEPT !.pc = pc] \in Requests
                 /\ [req EXCEPT !.pc = pc].pc = pc
                 /\ [req EXCEPT !.pc = pc].since = req.since
                 /\ [req EXCEPT !.pc = pc].woken = req.woken
           /\ \A n \in Nat : /\ [NoRequest EXCEPT !.pc = "enabled", !.since = n] \in Requests
                             /\ [NoRequest EXCEPT !.pc = "build", !.seq = n] \in Requests
  <1>1. <<>> \in Answers
    <2>1. <<>> \in [{} -> Entries] /\ {} \in SUBSET Cameras
      OBVIOUS
    <2> QED
      BY <2>1 DEF Answers
  <1>2. NoRequest \in Requests
    BY <1>1 DEF NoRequest, Requests
  <1>3. [req EXCEPT !.woken = TRUE] \in Requests
    BY DEF Requests
  <1>4. Woken \in Requests
    BY <1>3 DEF Woken
  <1>5. ASSUME NEW n \in Nat
        PROVE  /\ [NoRequest EXCEPT !.pc = "enabled", !.since = n] \in Requests
               /\ [NoRequest EXCEPT !.pc = "build", !.seq = n] \in Requests
    BY <1>2 DEF Requests
  <1> QED
    BY <1>2, <1>4, <1>5 DEF Requests

LEMMA GotIsAnswer ==
    ASSUME req \in Requests, NEW c \in Cameras, NEW entry \in Entries, Got(c, entry)
    PROVE  /\ req' \in Requests /\ req'.pc = req.pc /\ req'.seq = req.seq /\ req'.since = req.since
           /\ req'.woken = req.woken
           /\ DOMAIN req'.got = DOMAIN req.got \cup {c}
           /\ req'.got[c] = entry
           /\ \A d \in DOMAIN req.got \ {c} : req'.got[d] = req.got[d]
  <1> DEFINE got == [d \in DOMAIN req.got \cup {c} |-> IF d = c THEN entry ELSE req.got[d]]
  <1>1. PICK S \in SUBSET Cameras : req.got \in [S -> Entries]
    BY DEF Requests, Answers
  <1>2. got \in [S \cup {c} -> Entries] /\ S \cup {c} \in SUBSET Cameras
    BY <1>1
  <1>3. got \in Answers
    BY <1>2 DEF Answers
  <1>4. req' = [req EXCEPT !.got = got]
    BY DEF Got
  <1>5. req' \in Requests /\ req'.got = got
    <2> HIDE DEF got
    <2> QED
      BY <1>3, <1>4 DEF Requests
  <1>6. req'.pc = req.pc /\ req'.seq = req.seq /\ req'.since = req.since /\ req'.woken = req.woken
    <2> HIDE DEF got
    <2> QED
      BY <1>4 DEF Requests
  <1> QED
    BY <1>5, <1>6

LEMMA SourceIsKnown == ASSUME NEW e PROVE Source(e) \in {"blink", "local", "none"}
  BY DEF Source

LEMMA ReadsAnEntry ==
    ASSUME Typed, NEW c \in Cameras
    PROVE  /\ ReadLatest(c) => Entry(tracker.latest[c], "none") \in Entries
                               /\ Entry(tracker.latest[c], "unread") \in Entries
           /\ ReadSource(c) => Entry(req.got[c].event, Source(req.got[c].event)) \in Entries
  <1>1. tracker.latest[c] \in Events \cup {NoEvent}
    BY DEF Typed, TrackerOK, Trackers, Latest
  <1>2. ReadSource(c) => req.got[c] \in Entries
    BY DEF ReadSource, Reading, Typed, RequestOK, Requests, Answers
  <1> QED
    BY <1>1, <1>2, SourceIsKnown DEF Entry, Entries

LEMMA RequestStep == Typed /\ [Next]_vars => RequestOK'
  <1> SUFFICES ASSUME Typed, [Next]_vars PROVE RequestOK'
    OBVIOUS
  <1>t. req \in Requests /\ sequence \in Nat
    BY DEF Typed, RequestOK
  <1>f. /\ NoRequest \in Requests /\ Woken \in Requests
        /\ \A pc \in {"compared", "waiting", "sequence"} : [req EXCEPT !.pc = pc] \in Requests
        /\ \A n \in Nat : /\ [NoRequest EXCEPT !.pc = "enabled", !.since = n] \in Requests
                          /\ [NoRequest EXCEPT !.pc = "build", !.seq = n] \in Requests
    BY <1>t, RequestForms
  <1>c. ASSUME sequence' \in {sequence, sequence + 1, 0}, req' \in Requests PROVE RequestOK'
    BY <1>c, <1>t DEF RequestOK
  <1>1. CASE Blink \/ UNCHANGED vars
    BY <1>1, <1>t, <1>c DEF Blink, vars
  <1>2. CASE Poller
    BY <1>2, <1>t, <1>f, <1>c DEF Poller, Poll, PollMarks, PollNotifies, Handle, Bump
  <1>3. ASSUME NEW p \in Permits, StillStep(p) PROVE RequestOK'
    BY <1>3, <1>t, <1>f, <1>c DEF StillStep, StillGivesUp, StillStored, StillMarks, StillNotifies, Bump
  <1>4. CASE Client
    <2>1. 0 \in Nat
      OBVIOUS
    <2> QED
      BY <1>4, <2>1, <1>t, <1>f, <1>c DEF Client, Request, WaitTimesOut
  <1>5. CASE Handler
    <2>1. CASE Compare \/ WaitBegins \/ WaitEnds
      BY <1>5, <2>1, <1>f, <1>c DEF Handler, Compare, WaitBegins, WaitEnds
    <2>2. CASE ReadSequence \/ Delivered
      BY <1>5, <2>2, <1>f, <1>t, <1>c DEF Handler, ReadSequence, Delivered
    <2>3. ASSUME NEW c \in Cameras, ReadLatest(c) \/ ReadSource(c) PROVE RequestOK'
      <3>1. \E entry \in Entries : Got(c, entry)
        BY <2>3, ReadsAnEntry DEF ReadLatest, ReadSource
      <3>2. req' \in Requests
        BY <3>1, <1>t, GotIsAnswer
      <3> QED
        BY <1>5, <3>2, <1>c DEF Handler
    <2> QED
      BY <1>5, <2>1, <2>2, <2>3 DEF Handler, HandlerSteps
  <1>6. CASE Restart
    BY <1>6, <1>f, <1>c DEF Restart
  <1> QED
    BY <1>1, <1>2, <1>3, <1>4, <1>5, <1>6 DEF Next

LEMMA BlinkStep == Typed /\ [Next]_vars => BlinkOK'
  <1> SUFFICES ASSUME Typed, [Next]_vars PROVE BlinkOK'
    OBVIOUS
  <1>t. BlinkOK
    BY DEF Typed
  <1>c. ASSUME UNCHANGED <<blink, handed>>, restarts' \in {restarts, restarts + 1} PROVE BlinkOK'
    BY <1>c, <1>t DEF BlinkOK
  <1>1. CASE Blink
    BY <1>1, <1>t DEF Blink, Publish, PublishThumbnail, LeaveLookback, BlinkOK
  <1>2. CASE Poller
    <2>1. CASE Handle
      <3>1. handed' \in {handed, [handed EXCEPT ![Head(poll.fresh)] = @ + 1]}
        BY <2>1 DEF Handle
      <3>2. UNCHANGED <<blink, restarts>>
        BY <1>2 DEF Poller
      <3> QED
        BY <3>1, <3>2, <1>t DEF BlinkOK
    <2> QED
      BY <1>2, <2>1, <1>c DEF Poller, Poll, PollMarks, PollNotifies
  <1>3. ASSUME NEW p \in Permits, StillStep(p) PROVE BlinkOK'
    BY <1>3, <1>c DEF StillStep
  <1>4. CASE Handler \/ Client \/ Restart \/ UNCHANGED vars
    BY <1>4, <1>c DEF Handler, Client, Restart, vars
  <1> QED
    BY <1>1, <1>2, <1>3, <1>4 DEF Next

LEMMA TypedStep == Typed /\ [Next]_vars => Typed'
  BY TrackerStep, StillsStep, RequestStep, BlinkStep DEF Typed

-----------------------------------------------------------------------------
(* A long poll, from the moment it has compared the sequence, is woken, or   *)
(* will be, or has nothing to be woken for.                                 *)
Wakes ==
    req.pc \in {"compared", "waiting"} /\ ~req.woken => sequence = req.since \/ WakePending

(* What an answer has read is what the tracker and the stores show, unless   *)
(* the tracker's sequence has moved or is about to move.                    *)
Shown(c) ==
    /\ req.got[c].event = tracker.latest[c]
    /\ req.got[c].source \in {"unread", Source(req.got[c].event)}
Reads ==
    req.pc = "build" =>
        /\ req.seq <= sequence
        /\ req.seq = sequence /\ ~MarkPending => \A c \in DOMAIN req.got : Shown(c)

LEMMA WokenForms ==
    ASSUME req \in Requests, req' = Woken
    PROVE  /\ req'.pc = req.pc /\ req'.seq = req.seq /\ req'.got = req.got
           /\ req.pc \in {"compared", "waiting"} => req'.woken
  BY DEF Woken, Requests

(* What one still task does to what is stored and marked. *)
LEMMA PermitMoves ==
    ASSUME StillsOK, NEW p \in Permits, NEW g \in Tasks, still' = [still EXCEPT ![p] = g]
    PROVE  still'[p] = g /\ \A q \in Permits : q # p => still'[q] = still[q]
  BY DEF StillsOK

LEMMA StillMoves ==
    ASSUME StillsOK, NEW p \in Permits
    PROVE  /\ Ends(p) => still'[p].at = "none" /\ \A q \in Permits : q # p => still'[q] = still[q]
           /\ \A stage \in {"stored", "marked"} : Advance(p, stage) =>
                 still'[p].at = stage /\ \A q \in Permits : q # p => still'[q] = still[q]
           /\ \A e \in Events : StillBegins(e) =>
                 \A q \in Permits : still'[q] = still[q] \/
                                    (still[q].at = "none" /\ still'[q].at = "running")
  BY DEF StillsOK, Ends, Advance, StillBegins, NoStill, Tasks

LEMMA WakesStep == Typed /\ Wakes /\ [Next]_vars => Wakes'
  <1> SUFFICES ASSUME Typed, Wakes, [Next]_vars PROVE Wakes'
    OBVIOUS
  <1>t. StillsOK /\ PollOK /\ req \in Requests
    BY DEF Typed, RequestOK
  <1>q. ASSUME UNCHANGED <<req, sequence>>, WakePending => WakePending' PROVE Wakes'
    BY <1>q DEF Wakes
  <1>k. ASSUME UNCHANGED <<still, poll>> PROVE WakePending' = WakePending
    BY <1>k DEF WakePending
  <1>n. ASSUME req' = Woken PROVE Wakes'
    BY <1>n, <1>t, WokenForms DEF Wakes
  <1>o. ASSUME req'.pc \notin {"compared", "waiting"} PROVE Wakes'
    BY <1>o DEF Wakes
  <1>1. CASE Blink \/ UNCHANGED vars
    BY <1>1, <1>q, <1>k DEF Blink, vars
  <1>2. CASE Poll
    <2>1. WakePending => WakePending'
      BY <1>2 DEF Poll, WakePending
    <2> QED
      BY <1>2, <2>1, <1>q DEF Poll
  <1>3. CASE PollMarks
    <2>1. WakePending'
      BY <1>3, <1>t DEF PollMarks, WakePending, PollOK, Polls
    <2> QED
      BY <1>3, <2>1 DEF PollMarks, Wakes
  <1>4. CASE PollNotifies
    BY <1>4, <1>n DEF PollNotifies
  <1>5. CASE Handle
    <2>1. poll.pc = "handle" /\ Head(poll.fresh) \in Events
      BY <1>5, <1>t, Handles DEF Handle
    <2>2. \A q \in Permits : still[q].at = "marked" => still'[q].at = "marked"
      BY <1>5, <2>1, <1>t, StillMoves DEF Handle
    <2>3. WakePending => WakePending'
      BY <2>1, <2>2 DEF WakePending
    <2> QED
      BY <1>5, <2>3, <1>q DEF Handle
  <1>6. ASSUME NEW p \in Permits, StillStep(p) PROVE Wakes'
    <2>1. UNCHANGED poll
      BY <1>6 DEF StillStep
    <2>2. CASE StillGivesUp(p) \/ StillStored(p)
      <3>1. \A q \in Permits : still[q].at = "marked" => still'[q] = still[q]
        BY <2>2, <1>t, StillMoves DEF StillGivesUp, StillStored
      <3>2. WakePending => WakePending'
        BY <2>1, <3>1 DEF WakePending
      <3> QED
        BY <2>2, <3>2, <1>q DEF StillGivesUp, StillStored
    <2>3. CASE StillMarks(p)
      <3>1. WakePending'
        BY <2>3, <1>t, StillMoves DEF StillMarks, WakePending
      <3> QED
        BY <2>3, <3>1 DEF StillMarks, Wakes
    <2>4. CASE StillNotifies(p)
      BY <2>4, <1>n DEF StillNotifies
    <2> QED
      BY <1>6, <2>2, <2>3, <2>4 DEF StillStep
  <1>7. CASE Client
    <2>1. req'.pc \in {"enabled", "sequence"}
      BY <1>7, <1>t DEF Client, Request, WaitTimesOut, NoRequest, Requests
    <2> QED
      BY <2>1, <1>o
  <1>8. CASE Handler
    <2>1. UNCHANGED sequence /\ (WakePending' <=> WakePending)
      BY <1>8, <1>k DEF Handler
    <2>2. CASE Compare
      <3>1. req' = [req EXCEPT !.pc = IF sequence # req.since THEN "sequence" ELSE "compared"]
        BY <2>2 DEF Compare
      <3>2. req'.since = req.since /\ (req'.pc = "sequence" \/ sequence = req.since)
        BY <3>1, <1>t DEF Requests
      <3> QED
        BY <2>1, <3>2, <1>o DEF Wakes
    <2>3. CASE WaitBegins
      <3>1. req' = [req EXCEPT !.pc = "waiting"] /\ req.pc = "compared"
        BY <2>3 DEF WaitBegins
      <3>2. req'.since = req.since /\ req'.woken = req.woken
        BY <3>1, <1>t DEF Requests
      <3> QED
        BY <2>1, <3>1, <3>2 DEF Wakes
    <2>4. CASE WaitEnds \/ ReadSequence \/ Delivered
      <3>1. req'.pc \in {"sequence", "build", "idle"}
        <4>1. WaitEnds => req'.pc = "sequence"
          BY <1>t DEF WaitEnds, Requests
        <4>2. ReadSequence => req'.pc = "build"
          BY DEF ReadSequence, NoRequest
        <4>3. Delivered => req'.pc = "idle"
          BY DEF Delivered, NoRequest
        <4> QED
          BY <2>4, <4>1, <4>2, <4>3
      <3> QED
        BY <3>1, <1>o
    <2>5. ASSUME NEW c \in Cameras, ReadLatest(c) \/ ReadSource(c) PROVE Wakes'
      <3>1. \E entry \in Entries : Got(c, entry)
        BY <2>5, ReadsAnEntry DEF ReadLatest, ReadSource
      <3>2. req'.pc = req.pc /\ req'.since = req.since /\ req'.woken = req.woken
        BY <3>1, <1>t, GotIsAnswer
      <3> QED
        BY <2>1, <3>2 DEF Wakes
    <2> QED
      BY <1>8, <2>2, <2>3, <2>4, <2>5 DEF Handler, HandlerSteps
  <1>9. CASE Restart
    BY <1>9, <1>o DEF Restart, NoRequest
  <1> QED
    BY <1>1, <1>2, <1>3, <1>4, <1>5, <1>6, <1>7, <1>8, <1>9 DEF Next, Poller

LEMMA ReadsStep == Typed /\ Reads /\ [Next]_vars => Reads'
  <1> SUFFICES ASSUME Typed, Reads, [Next]_vars PROVE Reads'
    OBVIOUS
  <1>t. /\ StillsOK /\ PollOK /\ TrackerOK /\ req \in Requests /\ sequence \in Nat
        /\ req.seq \in Nat /\ Typed'
    BY TypedStep DEF Typed, RequestOK, Requests
  <1>s. ASSUME req'.pc = req.pc, req'.seq = req.seq, req'.got = req.got, UNCHANGED sequence,
               MarkPending' \/ /\ ~MarkPending /\ UNCHANGED stills
                               /\ tracker'.latest = tracker.latest /\ tracker'.thumbs = tracker.thumbs
        PROVE  Reads'
    BY <1>s DEF Reads, Shown, Source
  <1>b. ASSUME UNCHANGED req, Bump PROVE Reads'
    <2>1. req.pc = "build" => req.seq <= sequence /\ ~ (req.seq = sequence')
      BY <1>b, <1>t DEF Reads, Bump
    <2> QED
      BY <1>b, <2>1, <1>t DEF Reads, Bump
  <1>o. ASSUME req'.pc # "build" PROVE Reads'
    BY <1>o DEF Reads
  <1>1. CASE Blink \/ UNCHANGED vars
    BY <1>1, <1>s DEF Blink, vars, MarkPending
  <1>2. CASE Poll /\ UNCHANGED stills
    <2>1. CASE Absorbed(Polled).changed
      <3>1. MarkPending'
        BY <1>2, <2>1, PollDoes DEF MarkPending
      <3> QED
        BY <1>2, <3>1, <1>s DEF Poll
    <2>2. CASE ~Absorbed(Polled).changed
      <3>1. tracker'.latest = tracker.latest /\ tracker'.thumbs = tracker.thumbs
        BY <1>2, <2>2, <1>t, PollDoes, AbsorbedFits DEF Grows, NothingNew
      <3>2. MarkPending => MarkPending'
        BY <1>2 DEF MarkPending, Poll
      <3> QED
        BY <1>2, <3>1, <3>2, <1>s DEF Poll
    <2> QED
      BY <2>1, <2>2
  <1>3. CASE PollMarks
    BY <1>3, <1>b DEF PollMarks
  <1>4. CASE PollNotifies /\ UNCHANGED stills
    <2>1. MarkPending => MarkPending'
      BY <1>4 DEF PollNotifies, MarkPending
    <2> QED
      BY <1>4, <2>1, <1>s, <1>t, WokenForms DEF PollNotifies
  <1>5. CASE Handle /\ UNCHANGED stills
    <2>1. poll.pc = "handle" /\ Head(poll.fresh) \in Events
      BY <1>5, <1>t, Handles DEF Handle
    <2>2. \A q \in Permits : still[q].at = "stored" => still'[q].at = "stored"
      BY <1>5, <2>1, <1>t, StillMoves DEF Handle
    <2>3. MarkPending => MarkPending'
      BY <2>1, <2>2 DEF MarkPending
    <2> QED
      BY <1>5, <2>3, <1>s DEF Handle
  <1>6. ASSUME NEW p \in Permits, StillStep(p) PROVE Reads'
    <2>1. UNCHANGED <<poll, tracker>>
      BY <1>6 DEF StillStep
    <2>2. CASE StillGivesUp(p) \/ StillNotifies(p)
      <3>1. \A q \in Permits : still[q].at = "stored" => still'[q] = still[q]
        BY <2>2, <1>t, StillMoves DEF StillGivesUp, StillNotifies
      <3>2. MarkPending => MarkPending'
        BY <2>1, <3>1 DEF MarkPending
      <3>3. req'.pc = req.pc /\ req'.seq = req.seq /\ req'.got = req.got /\ UNCHANGED <<stills, sequence>>
        BY <2>2, <1>t, WokenForms DEF StillGivesUp, StillNotifies
      <3> QED
        BY <2>1, <3>2, <3>3, <1>s
    <2>3. CASE StillStored(p)
      <3>1. MarkPending'
        BY <2>3, <1>t, StillMoves DEF StillStored, MarkPending
      <3> QED
        BY <2>3, <3>1, <1>s DEF StillStored
    <2>4. CASE StillMarks(p)
      BY <2>4, <1>b DEF StillMarks
    <2> QED
      BY <1>6, <2>2, <2>3, <2>4 DEF StillStep
  <1>7. CASE Client
    <2>1. req'.pc \in {"enabled", "sequence"}
      BY <1>7, <1>t DEF Client, Request, WaitTimesOut, NoRequest, Requests
    <2> QED
      BY <2>1, <1>o
  <1>8. CASE Handler
    <2>1. UNCHANGED <<sequence, tracker, stills>> /\ (MarkPending' <=> MarkPending)
      BY <1>8 DEF Handler, MarkPending
    <2>2. CASE Compare \/ WaitBegins \/ WaitEnds \/ Delivered
      <3>1. req'.pc # "build"
        BY <2>2, <1>t DEF Compare, WaitBegins, WaitEnds, Delivered, NoRequest, Requests
      <3> QED
        BY <3>1, <1>o
    <2>3. CASE ReadSequence
      <3>1. req'.seq = sequence /\ DOMAIN req'.got = {}
        BY <2>3 DEF ReadSequence, NoRequest
      <3> QED
        BY <2>1, <3>1, <1>t DEF Reads
    <2>4. ASSUME NEW c \in Cameras, NEW entry \in Entries, Got(c, entry), req.pc = "build",
                 entry.event = tracker.latest[c] \/ MarkPending \/ req.seq # sequence,
                 entry.source \in {"unread", Source(entry.event)}
          PROVE  Reads'
      <3>1. /\ req'.pc = req.pc /\ req'.seq = req.seq
            /\ DOMAIN req'.got = DOMAIN req.got \cup {c} /\ req'.got[c] = entry
            /\ \A d \in DOMAIN req.got \ {c} : req'.got[d] = req.got[d]
        BY <2>4, <1>t, GotIsAnswer
      <3>2. ASSUME req.seq = sequence, ~MarkPending, NEW d \in DOMAIN req'.got PROVE Shown(d)'
        <4>1. CASE d = c
          BY <2>1, <2>4, <3>1, <3>2, <4>1 DEF Shown, Source
        <4>2. CASE d # c
          BY <2>1, <2>4, <3>1, <3>2, <4>2 DEF Shown, Source, Reads
        <4> QED
          BY <4>1, <4>2
      <3> QED
        BY <2>1, <2>4, <3>1, <3>2 DEF Reads
    <2>5. ASSUME NEW c \in Cameras, ReadLatest(c) PROVE Reads'
      <3>1. Source(NoEvent) = "none"
        BY <1>t, EventsAreNumbers, Ranges DEF Source, TrackerOK, Trackers, StillsOK
      <3>2. PICK source \in {"none", "unread"} :
                /\ Got(c, Entry(tracker.latest[c], source))
                /\ source = "none" => tracker.latest[c] = NoEvent
        BY <2>5 DEF ReadLatest
      <3>3. Entry(tracker.latest[c], source) \in Entries
        BY <2>5, ReadsAnEntry
      <3>4. /\ Entry(tracker.latest[c], source).event = tracker.latest[c]
            /\ Entry(tracker.latest[c], source).source = source
        BY DEF Entry
      <3>5. source \in {"unread", Source(tracker.latest[c])}
        BY <3>1, <3>2
      <3> QED
        BY <2>5, <3>2, <3>3, <3>4, <3>5, <2>4 DEF ReadLatest
    <2>6. ASSUME NEW c \in Cameras, ReadSource(c) PROVE Reads'
      <3> DEFINE e == req.got[c].event
      <3>1. Got(c, Entry(e, Source(e))) /\ c \in DOMAIN req.got
        BY <2>6 DEF ReadSource, Reading
      <3>2. Entry(e, Source(e)) \in Entries
        BY <2>6, ReadsAnEntry
      <3>3. Entry(e, Source(e)).event = e /\ Entry(e, Source(e)).source = Source(e)
        BY DEF Entry
      <3>4. CASE req.pc = "build"
        <4>1. e = tracker.latest[c] \/ MarkPending \/ req.seq # sequence
          BY <3>1, <3>4 DEF Reads, Shown
        <4> HIDE DEF e
        <4> QED
          BY <3>1, <3>2, <3>3, <3>4, <4>1, <2>4
      <3>5. CASE req.pc # "build"
        <4>1. req'.pc = req.pc
          BY <3>1, <3>2, <1>t, GotIsAnswer
        <4> QED
          BY <3>5, <4>1, <1>o
      <3> QED
        BY <3>4, <3>5
    <2> QED
      BY <1>8, <2>2, <2>3, <2>5, <2>6 DEF Handler, HandlerSteps
  <1>9. CASE Restart
    BY <1>9, <1>o DEF Restart, NoRequest
  <1> QED
    BY <1>1, <1>2, <1>3, <1>4, <1>5, <1>6, <1>7, <1>8, <1>9 DEF Next, Poller

-----------------------------------------------------------------------------
(* One recording an event.  Where nothing that was seen is forgotten, an     *)
(* event that was handed to the recorder is seen, or too old to be polled.   *)
Outrun(e) == blink[e] # "no" /\ e \notin Newest(PollLimit)
Queued ==
    /\ IsInjective(tracker.seen) /\ IsInjective(poll.fresh)
    /\ \A e \in Range(tracker.seen) : blink[e] # "no"
    /\ \A e \in Range(poll.fresh) :
          /\ e \notin LiveViews /\ handed[e] = 0
          /\ tracker.warmed /\ e \in Range(tracker.seen)
Handed(e) ==
    /\ e \notin LiveViews /\ handed[e] = 1 /\ blink[e] # "no"
    /\ tracker.warmed => e \in Range(tracker.seen) \/ Outrun(e)
Once == Queued /\ \A e \in Events : handed[e] # 0 => Handed(e)

(* What Blink lists later does not bring an event back. *)
LEMMA OutrunStays ==
    ASSUME BlinkOK, NEW e \in Events, Outrun(e),
           \E f \in Events : Publish(f) \/ PublishThumbnail(f) \/ LeaveLookback(f)
    PROVE  Outrun(e)'
  <1> DEFINE above == {f \in Listed : f >= e}
  <1>e. Events = 1 .. MaxEvents /\ MaxEvents \in Nat /\ Listed \in SUBSET Events
    BY Bounds, EventsAreNumbers DEF Listed
  <1>1. PICK f \in Events : Publish(f) \/ PublishThumbnail(f) \/ LeaveLookback(f)
    OBVIOUS
  <1>2. CASE Publish(f) \/ PublishThumbnail(f)
    <2>1. Listed \in SUBSET Listed' /\ Listed' \in SUBSET Events /\ blink'[e] # "no"
      BY <1>2 DEF Publish, PublishThumbnail, Listed, BlinkOK, Outrun
    <2>2. CASE e \in Listed
      <3>1. Cardinality(above) \in Nat /\ ~ (Cardinality(above) <= PollLimit)
        <4>1. above \in SUBSET Events
          BY <1>e
        <4>2. Cardinality(above) \in Nat
          BY <4>1, SomeEvents
        <4> QED
          BY <2>2, <4>2 DEF Outrun, Newest
      <3> DEFINE more == {g \in Listed' : g >= e}
      <3>2. above \in SUBSET more /\ more \in SUBSET Events
        BY <2>1
      <3>3. IsFiniteSet(more) /\ Cardinality(more) \in Nat /\ Cardinality(above) <= Cardinality(more)
        BY <3>2, SomeEvents, FS_Subset
      <3>4. ~ (Cardinality(more) <= PollLimit)
        BY <3>1, <3>3, Bounds
      <3>5. e \notin {g \in Listed' : Cardinality({h \in Listed' : h >= g}) <= PollLimit}
        BY <3>4
      <3> QED
        BY <2>1, <3>5 DEF Outrun, Newest
    <2>3. CASE e \notin Listed
      <3>1. e \notin Listed'
        BY <1>2, <2>3 DEF Publish, PublishThumbnail, Listed, BlinkOK, Outrun
      <3> QED
        BY <2>1, <3>1 DEF Outrun, Newest
    <2> QED
      BY <2>2, <2>3
  <1>3. CASE LeaveLookback(f)
    <2>1. /\ \A g \in Events : blink'[g] = IF g <= f THEN "gone" ELSE blink[g]
          /\ blink'[e] # "no"
      BY <1>3 DEF LeaveLookback, BlinkOK, Outrun
    <2>2. CASE e <= f
      BY <2>1, <2>2 DEF Outrun, Newest, Listed
    <2>3. CASE ~ (e <= f)
      <3>1. \A g \in Events : g >= e => (g \in Listed' <=> g \in Listed)
        BY <1>e, <2>1, <2>3 DEF Listed
      <3>2. {g \in Listed' : g >= e} = above /\ (e \in Listed' <=> e \in Listed)
        BY <1>e, <3>1 DEF Listed
      <3> QED
        BY <2>1, <3>2 DEF Outrun, Newest
    <2> QED
      BY <2>2, <2>3
  <1> QED
    BY <1>1, <1>2, <1>3

LEMMA OnceStep ==
    ASSUME MaxEvents <= SeenLimit
    PROVE  Typed /\ Once /\ [Next]_vars => Once'
  <1> SUFFICES ASSUME Typed, Once, [Next]_vars PROVE Once'
    OBVIOUS
  <1>t. TrackerOK /\ PollOK /\ BlinkOK
    BY DEF Typed
  <1>c. ASSUME UNCHANGED <<blink, tracker, handed>>, poll'.fresh = poll.fresh PROVE Once'
    BY <1>c DEF Once, Queued, Handed, Outrun, Newest, Listed
  <1>1. CASE Blink
    <2>1. UNCHANGED <<tracker, poll, handed>>
      BY <1>1 DEF Blink
    <2>2. \A e \in Events : blink[e] # "no" => blink'[e] # "no"
      BY <1>1, <1>t DEF Blink, Publish, PublishThumbnail, LeaveLookback, BlinkOK
    <2>3. \A e \in Events : Outrun(e) => Outrun(e)'
      BY <1>1, <1>t, OutrunStays DEF Blink
    <2>4. Range(tracker.seen) \in SUBSET Events
      BY <1>t, Ranges DEF TrackerOK, Trackers
    <2> QED
      BY <2>1, <2>2, <2>3, <2>4 DEF Once, Queued, Handed
  <1>2. CASE Poll /\ UNCHANGED blink
    <2> DEFINE t == Absorbed(Polled)
    <2>1. Polled \in SUBSET Events /\ Polled \cap LiveViews = {}
      BY DEF Polled, Newest, Listed
    <2>2. Fresher(t, MaxEvents, Polled)
      BY <1>t, <2>1, AbsorbedOnce DEF Once, Queued
    <2>3. tracker'.warmed /\ tracker'.seen = t.seen /\ poll'.fresh = t.fresh /\ UNCHANGED handed
      BY <1>2, PollDoes DEF Poll
    <2>4. \A e \in Polled : e \in Range(t.seen)
      <3>1. \A e \in Polled : e > MaxEvents - MaxEvents
        BY <2>1, Bounds DEF Events
      <3> QED
        BY <2>2, <3>1 DEF Fresher
    <2> HIDE DEF t
    <2>5. \A e \in Polled : blink[e] # "no"
      BY DEF Polled, Newest, Listed
    <2>6. ASSUME NEW e \in Range(t.fresh)
          PROVE  e \notin LiveViews /\ handed[e] = 0 /\ e \in Range(t.seen)
      <3>1. e \in Polled /\ e \in Range(t.seen) /\ e \notin Range(tracker.seen)
        BY <2>2 DEF Fresher
      <3>2. tracker.warmed
        BY <2>2 DEF Fresher, Range
      <3>3. e \in Newest(PollLimit) /\ e \in Events
        BY <2>1, <3>1 DEF Polled
      <3> QED
        BY <2>1, <3>1, <3>2, <3>3 DEF Once, Handed, Outrun
    <2>7. Queued'
      BY <1>2, <2>2, <2>3, <2>5, <2>6 DEF Queued, Once, Fresher
    <2>8. ASSUME NEW e \in Events, handed[e] # 0 PROVE Handed(e)'
      <3>1. Handed(e)
        BY <2>8 DEF Once
      <3>2. e \in Polled \/ Outrun(e)
        BY <3>1 DEF Handed, Outrun, Polled
      <3>3. Outrun(e)' <=> Outrun(e)
        BY <1>2 DEF Outrun, Newest, Listed
      <3> QED
        BY <1>2, <2>3, <2>4, <3>1, <3>2, <3>3 DEF Handed
    <2> QED
      BY <2>3, <2>7, <2>8 DEF Once
  <1>3. CASE PollMarks /\ UNCHANGED blink
    BY <1>3, <1>t, <1>c DEF PollMarks, PollOK, Polls
  <1>4. CASE PollNotifies /\ UNCHANGED blink
    <2>1. poll'.fresh = poll.fresh
      BY <1>4 DEF PollNotifies, Handling, Asleep
    <2> QED
      BY <1>4, <2>1, <1>c DEF PollNotifies
  <1>5. CASE Handle /\ UNCHANGED blink
    <2> DEFINE e == Head(poll.fresh)
    <2>1. /\ poll.fresh \in Seq(Events) /\ poll.fresh # <<>> /\ e \in Events
          /\ poll'.fresh = Tail(poll.fresh) /\ UNCHANGED tracker
      BY <1>5, <1>t, Handles DEF Handle
    <2>2. /\ e \in Range(poll.fresh) /\ Range(Tail(poll.fresh)) \in SUBSET Range(poll.fresh)
          /\ IsInjective(Tail(poll.fresh)) /\ e \notin Range(Tail(poll.fresh))
      BY <2>1, RangeTail DEF Once, Queued
    <2>3. handed' = handed \/ handed' = [handed EXCEPT ![e] = @ + 1]
      BY <1>5 DEF Handle
    <2> HIDE DEF e
    <2>4. handed[e] = 0 /\ e \notin LiveViews /\ e \in Range(tracker.seen) /\ blink[e] # "no"
      BY <2>2 DEF Once, Queued
    <2>5. /\ \A f \in Events : f # e => handed'[f] = handed[f]
          /\ handed'[e] \in {0, 1}
      BY <2>1, <2>3, <2>4, <1>t DEF BlinkOK
    <2>6. Range(Tail(poll.fresh)) \in SUBSET Events
      BY <2>1, <2>2, Ranges
    <2>7. Queued'
      BY <1>5, <2>1, <2>2, <2>5, <2>6 DEF Queued, Once
    <2>8. ASSUME NEW f \in Events, handed'[f] # 0 PROVE Handed(f)'
      <3>1. Outrun(f)' <=> Outrun(f)
        BY <1>5 DEF Outrun, Newest, Listed
      <3>2. CASE f = e
        BY <1>5, <2>1, <2>4, <2>5, <2>8, <3>2 DEF Handed
      <3>3. CASE f # e
        BY <1>5, <2>1, <2>5, <2>8, <3>1, <3>3 DEF Handed, Once
      <3> QED
        BY <3>2, <3>3
    <2> QED
      BY <2>7, <2>8 DEF Once
  <1>6. CASE Handler \/ Client \/ UNCHANGED vars
    BY <1>6, <1>c DEF Handler, Client, vars
  <1>7. ASSUME NEW p \in Permits, StillStep(p) PROVE Once'
    BY <1>7, <1>c DEF StillStep
  <1>8. CASE Restart
    <2>1. /\ tracker'.warmed = FALSE /\ tracker'.seen = <<>> /\ poll'.fresh = <<>>
          /\ UNCHANGED <<blink, handed>>
      BY <1>8 DEF Restart, Fresh, Asleep
    <2>2. IsInjective(<<>>) /\ Range(<<>>) = {}
      BY DEF IsInjective, Range
    <2> QED
      BY <2>1, <2>2 DEF Once, Queued, Handed
  <1> QED
    BY <1>1, <1>2, <1>3, <1>4, <1>5, <1>6, <1>7, <1>8 DEF Next, Poller

-----------------------------------------------------------------------------
(* Theorems. *)

LEMMA MotionStart == Init => Typed /\ Wakes /\ Reads /\ Once
  <1> SUFFICES ASSUME Init PROVE Typed /\ Wakes /\ Reads /\ Once
    OBVIOUS
  <1>1. TrackerOK /\ PollOK
    BY Bounds DEF Init, Fresh, Asleep, TrackerOK, Trackers, Latest, PollOK, Polls
  <1>2. StillsOK
    BY Bounds DEF Init, StillsOK, NoStill, Tasks
  <1>3. <<>> \in Answers
    <2>1. <<>> \in [{} -> Entries] /\ {} \in SUBSET Cameras
      OBVIOUS
    <2> QED
      BY <2>1 DEF Answers
  <1>4. RequestOK /\ Wakes /\ Reads
    BY <1>3 DEF Init, RequestOK, NoRequest, Requests, Wakes, Reads
  <1>5. BlinkOK
    BY DEF Init, BlinkOK
  <1>6. tracker.seen = <<>> /\ poll.fresh = <<>> /\ \A e \in Events : handed[e] = 0
    BY DEF Init, Fresh, Asleep
  <1>7. IsInjective(<<>>) /\ Range(<<>>) = {}
    BY DEF IsInjective, Range
  <1>8. Once
    BY <1>6, <1>7 DEF Once, Queued
  <1> QED
    BY <1>1, <1>2, <1>4, <1>5, <1>8 DEF Typed

LEMMA MotionInvariant == Spec => [](Typed /\ Wakes /\ Reads)
  BY MotionStart, TypedStep, WakesStep, ReadsStep, PTL DEF Spec

(* The tracker, its stores, the stills and the answers keep their types: no  *)
(* store outgrows its limit.                                                *)
THEOREM MotionTypeCorrect == Spec => []TypeOK
  <1>1. ASSUME Typed PROVE TypeOK
    <2>1. Range(tracker.seen) \cup Range(tracker.thumbs) \cup Range(stills) \in SUBSET Events
      BY <1>1, Ranges DEF Typed, TrackerOK, Trackers, StillsOK
    <2>2. \A c \in DOMAIN req.got : req.got[c] \in Entries
      BY <1>1 DEF Typed, RequestOK, Requests, Answers
    <2> QED
      BY <1>1, <2>1, <2>2 DEF TypeOK, Typed, TrackerOK, Trackers, Latest, PollOK, Polls, StillsOK,
         RequestOK, Requests
  <1> QED
    BY <1>1, MotionInvariant, PTL

(* No change of the tracker escapes a long poll that waits, and no answer    *)
(* that carries the tracker's sequence hides one, for any number of cameras, *)
(* events, stills and restarts.                                             *)
THEOREM NothingIsEverMissed == Spec => []NothingIsMissed
  <1>1. Typed /\ Wakes => NoLostWakeup
    BY DEF Wakes, NoLostWakeup
  <1>2. ASSUME Typed, Reads, Answered, req.seq = sequence, ~MarkPending PROVE req.got = View
    <2>1. req.pc = "build" /\ req.got \in Answers
      BY <1>2 DEF Answered, Typed, RequestOK, Requests
    <2>2. req.got \in [Cameras -> Entries]
      <3>1. PICK S \in SUBSET Cameras : req.got \in [S -> Entries]
        BY <2>1 DEF Answers
      <3>2. Cameras \in SUBSET S
        BY <1>2, <3>1 DEF Answered, Unread
      <3>3. S = Cameras
        BY <3>2
      <3> QED
        BY <3>1, <3>3
    <2>3. ASSUME NEW c \in Cameras
          PROVE  req.got[c] = Entry(tracker.latest[c], Source(tracker.latest[c]))
      <3>1. Shown(c) /\ req.got[c].source # "unread" /\ req.got[c] \in Entries
        BY <1>2, <2>1, <2>2 DEF Reads, Answered, Reading
      <3>2. req.got[c] = [event |-> req.got[c].event, source |-> req.got[c].source]
        BY <3>1 DEF Entries
      <3>3. /\ req.got[c].event = tracker.latest[c]
            /\ req.got[c].source = Source(tracker.latest[c])
        BY <3>1 DEF Shown
      <3> QED
        BY <3>2, <3>3 DEF Entry
    <2> QED
      BY <2>2, <2>3 DEF View
  <1>3. Typed /\ Wakes /\ Reads => NothingIsMissed
    BY <1>1, <1>2 DEF NothingIsMissed, AnswersAreCurrent
  <1> QED
    BY <1>3, MotionInvariant, PTL

(* Where no seen event is forgotten, an event starts one recording at most,  *)
(* whatever Blink lists again, late or out of order, and across restarts;    *)
(* with the theorem above, an event is neither missed nor recorded twice.    *)
THEOREM EventsStayKept == ASSUME MaxEvents <= SeenLimit PROVE Spec => []EventsAreKept
  <1>1. Typed /\ Once => RecordedOnce
    BY DEF Once, Handed, RecordedOnce
  <1>2. Spec => [](Typed /\ Once)
    BY MotionStart, TypedStep, OnceStep, PTL DEF Spec
  <1>3. NothingIsMissed /\ RecordedOnce => EventsAreKept
    BY DEF EventsAreKept
  <1> QED
    BY <1>1, <1>2, <1>3, NothingIsEverMissed, PTL

(* However late and in whatever order events are listed, the latest event of *)
(* a camera never goes back.                                                *)
THEOREM LatestGoesForward == Spec => LatestNeverGoesBack
  <1> DEFINE Forward ==
        restarts' = restarts => \A c \in Cameras : tracker'.latest[c] >= tracker.latest[c]
  <1>1. Typed /\ [Next]_vars => Forward
    <2> SUFFICES ASSUME Typed, [Next]_vars, restarts' = restarts,
                        NEW c \in Cameras
                 PROVE  tracker'.latest[c] >= tracker.latest[c]
      OBVIOUS
    <2>1. tracker.latest[c] \in Int
      BY EventsAreNumbers DEF Typed, TrackerOK, Trackers, Latest
    <2>2. CASE UNCHANGED tracker
      BY <2>1, <2>2
    <2>3. CASE Poll
      BY <2>3, PollDoes, AbsorbedFits DEF Grows, NothingNew, Typed
    <2>4. Restart => FALSE
      <3>1. Restart => restarts' = restarts + 1
        BY DEF Restart
      <3>2. restarts \in Nat
        BY DEF Typed, BlinkOK
      <3> QED
        BY <3>1, <3>2
    <2> QED
      BY <2>2, <2>3, <2>4 DEF Next, Blink, Poller, PollMarks, PollNotifies, Handle, StillStep, Handler,
         Client, vars
  <1>2. Forward => [Forward]_vars
    OBVIOUS
  <1>3. Spec => [][Forward]_vars
    BY <1>1, <1>2, MotionInvariant, PTL DEF Spec
  <1> QED
    BY <1>3 DEF LatestNeverGoesBack

-----------------------------------------------------------------------------
(* The toggles of programs. *)
RefreshType == [pc : {"idle", "networks", "programs", "commit cached"},
                programs : PerNetwork, todo : SUBSET Networks]
ToggleType == [pc : {"idle", "waiting", "store", "post", "check", "confirm"},
               network : Networks \cup {"none"}, want : BOOLEAN, read : Copies,
               tries : 0 .. Attempts]
CloudTyped ==
    /\ program \in PerNetwork
    /\ writer \in [Networks -> Toggles \cup {"app"}]
EngineTyped ==
    /\ cache \in [known : BOOLEAN, programs : PerNetwork]
    /\ young \in BOOLEAN
    /\ refresh \in [Refreshes -> RefreshType]
    /\ faults \in 0 .. MaxFaults
ToggleTyped ==
    /\ toggle \in [Toggles -> ToggleType]
    /\ lock \subseteq Toggles
    /\ \A t \in Toggles : toggle[t].pc # "idle" => toggle[t].network \in Networks

(* The toggle is between the taking of settings_lock and its release.       *)
Busy(g) == g.pc \in {"store", "post", "check", "confirm"}
Exclusive == \A t \in Toggles : IF Busy(toggle[t]) THEN lock = {t} ELSE t \notin lock

(* What toggle t, with record g, knows of Blink's programs p and their       *)
(* writers w.                                                               *)
Deciding(g, p, w) ==
    /\ g.pc \in {"store", "post"} => p[g.network] = g.read \/ w[g.network] = "app"
    /\ g.pc = "post" => Enabled(g.read) # g.want
Verifying(t, g, w) == g.pc \in {"check", "confirm"} => w[g.network] \in {t, "app"}
Serial ==
    \A t \in Toggles : Deciding(toggle[t], program, writer) /\ Verifying(t, toggle[t], writer)

Inv == CloudTyped /\ EngineTyped /\ ToggleTyped /\ Exclusive /\ Serial

LEMMA Numbers ==
    /\ Copies \subseteq Nat /\ 0 \in Copies /\ Unknown \in Copies
    /\ \A k \in Copies : k < MaxChanges => k + 1 \in Copies
    /\ 0 \in 0 .. MaxFaults /\ 0 \in 0 .. Attempts /\ 1 \in 0 .. Attempts
    /\ \A k \in 0 .. Attempts : k # Attempts => k + 1 \in 0 .. Attempts
    /\ \A k \in 0 .. MaxFaults : k < MaxFaults => k + 1 \in 0 .. MaxFaults
  BY ProviderAssumption DEF Copies, Unknown

LEMMA Resting == NoRefresh \in RefreshType /\ NoToggle \in ToggleType
  BY Numbers DEF NoRefresh, RefreshType, NoToggle, ToggleType, PerNetwork

LEMMA InitHolds == ASSUME StateInit PROVE Inv
  <1>1. CloudTyped
    BY Numbers DEF StateInit, CloudTyped, PerNetwork
  <1>2. EngineTyped
    BY Numbers, Resting DEF StateInit, EngineTyped, PerNetwork
  <1>3. ToggleTyped /\ Exclusive /\ Serial
    BY Resting DEF StateInit, ToggleTyped, Exclusive, Serial, Busy, Deciding, Verifying, NoToggle
  <1> QED BY <1>1, <1>2, <1>3 DEF Inv

----------------------------------------------------------------------------
(* A toggle moves to the record g.  It alone, or nobody, holds the lock when *)
(* Blink's program changes or when it is busy afterwards.                    *)
LEMMA ToggleMoves ==
    ASSUME Inv, NEW t \in Toggles, NEW g \in ToggleType,
           MoveToggle(t, g),
           lock' = IF Busy(g) THEN {t} ELSE lock \ {t},
           Busy(g) => lock \subseteq {t},
           UNCHANGED cloudVars \/ Busy(toggle[t]),
           g.pc # "idle" => g.network \in Networks,
           CloudTyped', EngineTyped', Deciding(g, program', writer'), Verifying(t, g, writer')
    PROVE  Inv'
  <1>1. toggle'[t] = g /\ \A u \in Toggles \ {t} : toggle'[u] = toggle[u]
    BY DEF Inv, ToggleTyped, MoveToggle
  <1>2. ToggleTyped'
    BY <1>1 DEF Inv, ToggleTyped, MoveToggle
  <1>3. ASSUME NEW u \in Toggles, u # t, Busy(toggle[u])
        PROVE  lock = {u} /\ lock' = {u} /\ UNCHANGED cloudVars
    BY <1>3 DEF Inv, Exclusive
  <1>4. Exclusive'
    <2>1. ASSUME NEW u \in Toggles
          PROVE  (IF Busy(toggle[u]) THEN lock = {u} ELSE u \notin lock)'
      <3>1. CASE u = t
        BY <1>1, <3>1 DEF Busy
      <3>2. CASE u # t /\ Busy(toggle[u])
        BY <1>1, <1>3, <3>2 DEF Busy
      <3>3. CASE u # t /\ ~Busy(toggle[u])
        BY <1>1, <3>3 DEF Busy, Inv, Exclusive
      <3> QED BY <3>1, <3>2, <3>3
    <2> QED BY <2>1 DEF Exclusive
  <1>5. ASSUME NEW u \in Toggles
        PROVE  (Deciding(toggle[u], program, writer) /\ Verifying(u, toggle[u], writer))'
    <2>1. CASE u = t
      BY <1>1, <2>1 DEF Deciding, Verifying
    <2>2. CASE u # t /\ Busy(toggle[u])
      BY <1>1, <1>3, <2>2 DEF Inv, Serial, Deciding, Verifying, cloudVars
    <2>3. CASE u # t /\ ~Busy(toggle[u])
      BY <1>1, <2>3 DEF Busy, Deciding, Verifying
    <2> QED BY <2>1, <2>2, <2>3
  <1> QED BY <1>2, <1>4, <1>5 DEF Inv, Serial

(* It lets go.                                                               *)
LEMMA ReleaseKeepsInv ==
    ASSUME Inv, NEW t \in Toggles, Release(t), CloudTyped', EngineTyped',
           UNCHANGED cloudVars \/ Busy(toggle[t])
    PROVE  Inv'
  <1>1. /\ Deciding(NoToggle, program', writer') /\ Verifying(t, NoToggle, writer')
        /\ ~Busy(NoToggle) /\ NoToggle.pc = "idle"
    BY DEF Deciding, Verifying, Busy, NoToggle
  <1> QED BY <1>1, Resting, ToggleMoves DEF Release

LEMMA StoreIsTyped ==
    ASSUME Inv, NEW t \in Toggles, toggle[t].pc # "idle", Store(t),
           UNCHANGED <<young, refresh, faults>>
    PROVE  EngineTyped'
  <1>1. toggle[t].network \in Networks /\ toggle[t].read \in Copies
    BY DEF Inv, ToggleTyped, ToggleType
  <1>2. cache' \in [known : BOOLEAN, programs : PerNetwork]
    BY <1>1 DEF Store, Inv, EngineTyped, PerNetwork
  <1> QED BY <1>2 DEF Inv, EngineTyped

LEMMA RequestKeepsInv ==
    ASSUME Inv, NEW t \in Toggles, NEW n \in Networks, NEW want \in BOOLEAN, RequestToggle(t, n, want)
    PROVE  Inv'
  <1> DEFINE g == [NoToggle EXCEPT !.pc = "waiting", !.network = n, !.want = want]
  <1>1. g \in ToggleType /\ g.pc = "waiting" /\ g.network = n
    BY Numbers DEF NoToggle, ToggleType
  <1>2. Deciding(g, program', writer') /\ Verifying(t, g, writer') /\ ~Busy(g)
    BY <1>1 DEF Deciding, Verifying, Busy
  <1>3. t \notin lock /\ lock' = lock \ {t}
    BY DEF RequestToggle, Holds, Inv, Exclusive, Busy
  <1>4. CloudTyped' /\ EngineTyped' /\ UNCHANGED cloudVars /\ MoveToggle(t, g)
    BY DEF RequestToggle, Inv, CloudTyped, EngineTyped, cloudVars
  <1> HIDE DEF g
  <1> QED BY <1>1, <1>2, <1>3, <1>4, ToggleMoves

LEMMA ReadCurrentKeepsInv ==
    ASSUME Inv, NEW t \in Toggles, ReadCurrent(t) PROVE Inv'
  <1> DEFINE g == [toggle[t] EXCEPT !.pc = "store", !.read = program[toggle[t].network]]
  <1>1. toggle[t] \in ToggleType /\ toggle[t].network \in Networks
    BY DEF ReadCurrent, Holds, Inv, ToggleTyped
  <1>2. program[toggle[t].network] \in Copies
    BY <1>1 DEF Inv, CloudTyped, PerNetwork
  <1>3. /\ g \in ToggleType /\ g.pc = "store" /\ g.network = toggle[t].network
        /\ g.read = program[toggle[t].network]
    BY <1>1, <1>2 DEF ToggleType
  <1>4. CloudTyped' /\ EngineTyped' /\ UNCHANGED cloudVars /\ MoveToggle(t, g)
    BY DEF ReadCurrent, Inv, CloudTyped, EngineTyped, cloudVars
  <1>5. Deciding(g, program', writer') /\ Verifying(t, g, writer') /\ Busy(g)
    BY <1>3, <1>4 DEF Deciding, Verifying, Busy, cloudVars
  <1>6. lock = {} /\ lock' = {t}
    BY DEF ReadCurrent, LockFree
  <1> HIDE DEF g
  <1> QED BY <1>1, <1>3, <1>4, <1>5, <1>6, ToggleMoves

LEMMA StoreCurrentKeepsInv ==
    ASSUME Inv, NEW t \in Toggles, StoreCurrent(t) PROVE Inv'
  <1> DEFINE g == [toggle[t] EXCEPT !.pc = "post"]
  <1>1. /\ toggle[t] \in ToggleType /\ toggle[t].network \in Networks /\ Busy(toggle[t])
        /\ toggle[t].pc = "store" /\ lock = {t}
    BY DEF StoreCurrent, Holds, Inv, ToggleTyped, Busy, Exclusive
  <1>2. CloudTyped' /\ EngineTyped' /\ UNCHANGED cloudVars
    BY <1>1, StoreIsTyped DEF StoreCurrent, Inv, CloudTyped, cloudVars
  <1>3. CASE Release(t)
    BY <1>2, <1>3, ReleaseKeepsInv
  <1>4. CASE Enabled(toggle[t].read) # toggle[t].want /\ MoveToggle(t, g) /\ UNCHANGED lock
    <2>1. /\ g \in ToggleType /\ g.pc = "post" /\ g.network = toggle[t].network
          /\ g.read = toggle[t].read /\ g.want = toggle[t].want
      BY <1>1 DEF ToggleType
    <2>2. Deciding(g, program', writer') /\ Verifying(t, g, writer') /\ Busy(g)
      BY <1>1, <1>2, <1>4, <2>1 DEF Deciding, Verifying, Busy, cloudVars, Inv, Serial
    <2> HIDE DEF g
    <2> QED BY <1>1, <1>2, <1>4, <2>1, <2>2, ToggleMoves
  <1> QED BY <1>3, <1>4 DEF StoreCurrent

LEMMA PostKeepsInv ==
    ASSUME Inv, NEW t \in Toggles, Post(t) PROVE Inv'
  <1> DEFINE n == toggle[t].network
             g == [toggle[t] EXCEPT !.pc = "check", !.tries = 1]
  <1>1. /\ toggle[t] \in ToggleType /\ n \in Networks /\ Busy(toggle[t])
        /\ toggle[t].pc = "post" /\ lock = {t}
    BY DEF Post, Holds, Inv, ToggleTyped, Busy, Exclusive
  <1>2. \/ program' = program /\ writer' = writer /\ Enabled(program[n]) = toggle[t].want
        \/ /\ program[n] < MaxChanges
           /\ program' = [program EXCEPT ![n] = @ + 1]
           /\ writer' = [writer EXCEPT ![n] = t]
    BY DEF Post
  <1>3. program[n] \in Copies
    BY <1>1 DEF Inv, CloudTyped, PerNetwork
  <1>4. CloudTyped'
    BY <1>1, <1>2, <1>3, Numbers DEF Inv, CloudTyped, PerNetwork
  <1>5. writer'[n] \in {t, "app"}
    BY <1>1, <1>2 DEF Inv, Serial, Deciding, CloudTyped
  <1>6. CASE Fault /\ Release(t)
    <2>1. EngineTyped'
      BY <1>6, Numbers DEF Post, Fault, Inv, EngineTyped
    <2> QED BY <1>1, <1>4, <1>6, <2>1, ReleaseKeepsInv
  <1>7. CASE MoveToggle(t, g) /\ UNCHANGED <<lock, faults>>
    <2>1. EngineTyped'
      BY <1>7 DEF Post, Inv, EngineTyped
    <2>2. g \in ToggleType /\ g.pc = "check" /\ g.network = n
      BY <1>1, Numbers DEF ToggleType
    <2>3. Deciding(g, program', writer') /\ Verifying(t, g, writer') /\ Busy(g)
      BY <1>5, <2>2 DEF Deciding, Verifying, Busy
    <2> HIDE DEF g
    <2> QED BY <1>1, <1>4, <1>7, <2>1, <2>2, <2>3, ToggleMoves
  <1> QED BY <1>6, <1>7 DEF Post

LEMMA ReadBackKeepsInv ==
    ASSUME Inv, NEW t \in Toggles, ReadBack(t) PROVE Inv'
  <1> DEFINE g == [toggle[t] EXCEPT !.pc = "confirm", !.read = program[toggle[t].network]]
  <1>1. /\ toggle[t] \in ToggleType /\ toggle[t].network \in Networks /\ Busy(toggle[t])
        /\ toggle[t].pc = "check" /\ lock = {t}
    BY DEF ReadBack, Holds, Inv, ToggleTyped, Busy, Exclusive
  <1>2. program[toggle[t].network] \in Copies
    BY <1>1 DEF Inv, CloudTyped, PerNetwork
  <1>3. g \in ToggleType /\ g.pc = "confirm" /\ g.network = toggle[t].network
    BY <1>1, <1>2 DEF ToggleType
  <1>4. CloudTyped' /\ EngineTyped' /\ UNCHANGED cloudVars /\ MoveToggle(t, g) /\ UNCHANGED lock
    BY DEF ReadBack, Inv, CloudTyped, EngineTyped, cloudVars
  <1>5. Deciding(g, program', writer') /\ Verifying(t, g, writer') /\ Busy(g)
    BY <1>1, <1>3, <1>4 DEF Deciding, Verifying, Busy, cloudVars, Inv, Serial
  <1> HIDE DEF g
  <1> QED BY <1>1, <1>3, <1>4, <1>5, ToggleMoves

LEMMA ConfirmKeepsInv ==
    ASSUME Inv, NEW t \in Toggles, Confirm(t) PROVE Inv'
  <1> DEFINE g == [toggle[t] EXCEPT !.pc = "check", !.tries = @ + 1]
  <1>1. /\ toggle[t] \in ToggleType /\ toggle[t].network \in Networks /\ Busy(toggle[t])
        /\ toggle[t].pc = "confirm" /\ lock = {t}
    BY DEF Confirm, Holds, Inv, ToggleTyped, Busy, Exclusive
  <1>2. CloudTyped' /\ EngineTyped' /\ UNCHANGED cloudVars
    BY <1>1, StoreIsTyped DEF Confirm, Inv, CloudTyped, cloudVars
  <1>3. CASE Release(t)
    BY <1>2, <1>3, ReleaseKeepsInv
  <1>4. CASE ~LastTry(t) /\ MoveToggle(t, g) /\ UNCHANGED lock
    <2>1. toggle[t].tries + 1 \in 0 .. Attempts
      BY <1>1, <1>4, Numbers DEF LastTry, ToggleType
    <2>2. g \in ToggleType /\ g.pc = "check" /\ g.network = toggle[t].network
      BY <1>1, <2>1 DEF ToggleType
    <2>3. Deciding(g, program', writer') /\ Verifying(t, g, writer') /\ Busy(g)
      BY <1>1, <1>2, <2>2 DEF Deciding, Verifying, Busy, cloudVars, Inv, Serial
    <2> HIDE DEF g
    <2> QED BY <1>1, <1>2, <1>4, <2>2, <2>3, ToggleMoves
  <1> QED BY <1>3, <1>4 DEF Confirm

LEMMA AbandonKeepsInv ==
    ASSUME Inv, NEW t \in Toggles, Abandon(t) PROVE Inv'
  <1>1. CloudTyped' /\ EngineTyped' /\ UNCHANGED cloudVars /\ Release(t)
    BY Numbers DEF Abandon, Fault, Inv, CloudTyped, EngineTyped, cloudVars
  <1> QED BY <1>1, ReleaseKeepsInv

----------------------------------------------------------------------------
(* The app, the refreshes and the time.                                     *)
LEMMA AppTogglesKeepsInv ==
    ASSUME Inv, NEW n \in Networks, AppToggles(n) PROVE Inv'
  <1>1. program[n] \in Copies
    BY DEF Inv, CloudTyped, PerNetwork
  <1>2. CloudTyped'
    BY <1>1, Numbers DEF AppToggles, Inv, CloudTyped, PerNetwork
  <1>3. EngineTyped' /\ ToggleTyped' /\ Exclusive'
    BY DEF AppToggles, Inv, EngineTyped, ToggleTyped, Exclusive
  <1>4. ASSUME NEW t \in Toggles
        PROVE  (Deciding(toggle[t], program, writer) /\ Verifying(t, toggle[t], writer))'
    <2>1. /\ toggle'[t] = toggle[t]
          /\ Deciding(toggle[t], program, writer) /\ Verifying(t, toggle[t], writer)
      BY DEF AppToggles, Inv, Serial
    <2>2. CASE toggle[t].network = n
      BY <2>1, <2>2 DEF AppToggles, Inv, CloudTyped, Deciding, Verifying
    <2>3. CASE toggle[t].network # n
      BY <2>1, <2>3 DEF AppToggles, Inv, CloudTyped, ToggleTyped, PerNetwork, Deciding, Verifying
    <2> QED BY <2>2, <2>3
  <1> QED BY <1>2, <1>3, <1>4 DEF Inv, Serial

(* A refresh looks at Blink and writes the state only.                       *)
Aside == UNCHANGED <<cloudVars, toggle, lock>> /\ EngineTyped'

LEMMA AsideKeepsInv == ASSUME Inv, Aside PROVE Inv'
  BY DEF Aside, Inv, CloudTyped, ToggleTyped, Exclusive, Serial, Deciding, Verifying, cloudVars

LEMMA RefreshKeepsInv ==
    ASSUME Inv, NEW r \in Refreshes, RefreshStep(r) \/ CancelRefresh(r)
    PROVE  Inv'
  <1>1. refresh[r] \in RefreshType /\ NoRefresh \in RefreshType
    BY Resting DEF Inv, EngineTyped
  <1>2. ASSUME NEW changed \in RefreshType, StepOf(r, changed)
        PROVE  refresh' \in [Refreshes -> RefreshType]
    BY <1>2 DEF StepOf, Inv, EngineTyped
  <1>3. CASE Begin(r)
    <2>1. [NoRefresh EXCEPT !.pc = "networks"] \in RefreshType
      BY <1>1 DEF RefreshType
    <2> QED BY <1>2, <1>3, <2>1, AsideKeepsInv DEF Begin, Aside, Inv, EngineTyped
  <1>4. CASE CheckAge(r)
    <2>1. cache.programs \in PerNetwork
      BY DEF Inv, EngineTyped
    <2>2. /\ [refresh[r] EXCEPT !.pc = "programs", !.programs = cache.programs, !.todo = Networks]
                \in RefreshType
          /\ [refresh[r] EXCEPT !.pc = "commit cached"] \in RefreshType
      BY <1>1, <2>1 DEF RefreshType
    <2>3. refresh' \in [Refreshes -> RefreshType]
      BY <1>2, <1>4, <2>2 DEF CheckAge
    <2>4. young' \in BOOLEAN
      BY <1>4 DEF CheckAge, Inv, EngineTyped
    <2> QED BY <1>4, <2>3, <2>4, AsideKeepsInv DEF CheckAge, Aside, Inv, EngineTyped
  <1>5. ASSUME NEW n \in Networks, ReadPrograms(r, n) PROVE Inv'
    <2>1. program[n] \in Copies
      BY DEF Inv, CloudTyped, PerNetwork
    <2>2. /\ [refresh[r] EXCEPT !.programs[n] = program[n], !.todo = @ \ {n}] \in RefreshType
          /\ [refresh[r] EXCEPT !.todo = @ \ {n}] \in RefreshType
      BY <1>1, <2>1 DEF RefreshType, PerNetwork
    <2>3. refresh' \in [Refreshes -> RefreshType]
      BY <1>2, <1>5, <2>2 DEF ReadPrograms
    <2>4. faults' \in 0 .. MaxFaults
      BY <1>5, Numbers DEF ReadPrograms, Fault, Inv, EngineTyped
    <2> QED BY <1>5, <2>3, <2>4, AsideKeepsInv DEF ReadPrograms, Aside, Inv, EngineTyped
  <1>6. CASE Commit(r)
    <2>1. cache' \in [known : BOOLEAN, programs : PerNetwork]
      BY <1>1, <1>6 DEF Commit, CommittedPrograms, Inv, EngineTyped, RefreshType
    <2>2. refresh' \in [Refreshes -> RefreshType]
      BY <1>1, <1>2, <1>6 DEF Commit
    <2> QED BY <1>6, <2>1, <2>2, AsideKeepsInv DEF Commit, Aside, Inv, EngineTyped
  <1>7. CASE CancelRefresh(r)
    <2>1. refresh' \in [Refreshes -> RefreshType] /\ faults' \in 0 .. MaxFaults
      BY <1>1, <1>2, <1>7, Numbers DEF CancelRefresh, Fault, Inv, EngineTyped
    <2> QED BY <1>7, <2>1, AsideKeepsInv DEF CancelRefresh, Aside, Inv, EngineTyped
  <1> QED BY <1>3, <1>4, <1>5, <1>6, <1>7 DEF RefreshStep

LEMMA NextKeepsInv == ASSUME Inv, [StateNext]_stateVars PROVE Inv'
  <1>1. CASE \E n \in Networks : AppToggles(n)
    BY <1>1, AppTogglesKeepsInv
  <1>2. CASE \E r \in Refreshes : RefreshStep(r) \/ CancelRefresh(r)
    BY <1>2, RefreshKeepsInv
  <1>3. CASE AgeExpires
    BY <1>3, AsideKeepsInv DEF AgeExpires, Aside, Inv, EngineTyped
  <1>4. ASSUME NEW t \in Toggles, ToggleStep(t) \/ Abandon(t) PROVE Inv'
    BY <1>4, ReadCurrentKeepsInv, StoreCurrentKeepsInv, PostKeepsInv, ReadBackKeepsInv,
       ConfirmKeepsInv, AbandonKeepsInv DEF ToggleStep
  <1>5. CASE \E t \in Toggles, n \in Networks, want \in BOOLEAN : RequestToggle(t, n, want)
    BY <1>5, RequestKeepsInv
  <1>6. CASE UNCHANGED stateVars
    BY <1>6, AsideKeepsInv DEF stateVars, Aside, Inv, EngineTyped
  <1> QED BY <1>1, <1>2, <1>3, <1>4, <1>5, <1>6 DEF StateNext

----------------------------------------------------------------------------
(* The theorems. *)

LEMMA InvHolds == StateSpec => []Inv
  BY InitHolds, NextKeepsInv, PTL DEF StateSpec

(* The copies, the tasks and the lock keep their types, and a toggle never   *)
(* reads back more often than READ_BACK_ATTEMPTS.                           *)
THEOREM StateTypeCorrect == StateSpec => []StateTypeOK
  <1>1. ASSUME Inv PROVE StateTypeOK
    <2>1. ASSUME NEW t \in Toggles PROVE toggle[t] \in ToggleType /\ toggle[t].tries <= Attempts
      BY <1>1, ProviderAssumption DEF Inv, ToggleTyped, ToggleType
    <2>2. ASSUME NEW r \in Refreshes PROVE refresh[r] \in RefreshType
      BY <1>1 DEF Inv, EngineTyped
    <2> QED BY <1>1, <2>1, <2>2
            DEF Inv, CloudTyped, EngineTyped, ToggleTyped, ToggleType, RefreshType, StateTypeOK
  <1> QED BY <1>1, InvHolds, PTL

(* What a toggle reads back and stores as verified is its own write, or the  *)
(* Blink app's, never another toggle's: settings_lock covers the read before *)
(* the write as well as the read-back, and the POST of a toggle that Blink   *)
(* has been told already by another is never sent.                          *)
THEOREM TogglesAreSerialized == StateSpec => []WritesAreSerialized
  <1>1. Inv => WritesAreSerialized
    BY DEF Inv, Serial, Verifying, WritesAreSerialized
  <1> QED BY <1>1, InvHolds, PTL
=============================================================================
