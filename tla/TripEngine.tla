------------------------------- MODULE TripEngine -------------------------------
(***************************************************************************)
(* The trip log: the detector that cuts a stream of position fixes into    *)
(* trips (packages/compute/src/trip/detector.ts) and the engine that feeds *)
(* it while the bus is live and stores what it closes                      *)
(* (apps/g5000/src/trip-engine.ts).  A sample is handled within one tick   *)
(* of the event loop, the database being synchronous.  Time is counted in  *)
(* ticks; of a position only its distance from the last accepted fix       *)
(* matters, of the speed its class, of a trip its times and whether it is  *)
(* long enough to keep.                                                    *)
(***************************************************************************)
EXTENDS Integers, Sequences

CONSTANTS
    UnderwayHold, MooredHold, GapClose,   \* the detector's times
    GlitchTime, GlitchJump, MinTrip,      \* and distances
    Legs,                                 \* how far a fix can be from the last one
    DbAnswers,                            \* the outcomes of an insert
    MaxClock                              \* bound on the clock

ASSUME TimesAssumption ==
    /\ UnderwayHold \in Nat \ {0}
    /\ {MooredHold, GapClose, GlitchTime, GlitchJump, MinTrip, MaxClock} \subseteq Nat
ASSUME LegsAssumption == Legs \subseteq Nat
ASSUME DbAnswersAssumption == DbAnswers \subseteq BOOLEAN

VARIABLES
    now,          \* Date.now()
    live,         \* getMode() === 'live'
    underway,     \* the detector's state
    lastFix,      \* when the last fix was accepted
    fastWindow,   \* the start and the length of the fast window
    trip,         \* of the open trip
    slowWindow,   \* of the slow window: its start, the trip's length then
    open,         \* the engine holds a trip open
    startAt,      \* the engine's startAtMs
    trips,        \* the rows of the trips table
    notFastAt,    \* history: when the last accepted fix that was not fast came
    notSlowAt     \* history: when the last accepted fix that was not slow came

detector == <<underway, lastFix, fastWindow, trip, slowWindow>>
engine == <<open, startAt, trips>>
vars == <<now, live, detector, engine, notFastAt, notSlowAt>>

Never == -1
Times == Nat \cup {Never}
Accums == [start : Times, dist : Nat]
NoAccum == [start |-> Never, dist |-> 0]

(* SOG at or over underwaySogKn, under mooredSogKn, between them, or null. *)
Speeds == {"fast", "slow", "between", "unknown"}

TypeOK ==
    /\ now \in Nat
    /\ live \in BOOLEAN
    /\ underway \in BOOLEAN
    /\ lastFix \in Times
    /\ fastWindow \in Accums
    /\ trip \in Accums
    /\ slowWindow \in Accums
    /\ open \in BOOLEAN
    /\ startAt \in Times
    /\ trips \in Seq([start : Times, end : Times])
    /\ notFastAt \in Times
    /\ notSlowAt \in Times

Unfed ==
    /\ underway' = FALSE
    /\ lastFix' = Never
    /\ fastWindow' = NoAccum
    /\ trip' = NoAccum
    /\ slowWindow' = NoAccum
    /\ open' = FALSE
    /\ startAt' = Never
    /\ notFastAt' = Never
    /\ notSlowAt' = Never

Init ==
    /\ now = 0
    /\ live \in BOOLEAN
    /\ underway = FALSE
    /\ lastFix = Never
    /\ fastWindow = NoAccum
    /\ trip = NoAccum
    /\ slowWindow = NoAccum
    /\ open = FALSE
    /\ startAt = Never
    /\ trips = <<>>
    /\ notFastAt = Never
    /\ notSlowAt = Never

---------------------------------------------------------------------------------
(* Distances count up to MinTrip: no test looks further. *)
Longer(dist, leg) == IF dist + leg < MinTrip THEN dist + leg ELSE MinTrip

Gap == lastFix # Never /\ now - lastFix > GapClose
Glitch(leg) == lastFix # Never /\ now - lastFix < GlitchTime /\ leg > GlitchJump

(* The first fix is nowhere away from the last. *)
Accept(leg, kn) ==
    /\ live
    /\ ~Gap
    /\ ~Glitch(leg)
    /\ lastFix = Never => leg = 0
    /\ lastFix' = now
    /\ notFastAt' = (IF kn = "fast" THEN notFastAt ELSE now)
    /\ notSlowAt' = (IF kn = "slow" THEN notSlowAt ELSE now)
    /\ UNCHANGED <<now, live>>

(* closeOpenTrip, and handleEvents of what it returns: the trip ended at the *)
(* first fix of the slow window, or else at the last one, and is stored      *)
(* unless too short.                                                         *)
EndTime == IF slowWindow = NoAccum THEN lastFix ELSE slowWindow.start
EndDist == IF slowWindow = NoAccum THEN trip.dist ELSE slowWindow.dist

Store ==
    IF EndDist < MinTrip THEN UNCHANGED trips
    ELSE \/ /\ TRUE \in DbAnswers
            /\ trips' = Append(trips, [start |-> startAt, end |-> EndTime])
         \/ /\ FALSE \in DbAnswers
            /\ UNCHANGED trips

CloseTrip ==
    /\ underway' = FALSE
    /\ trip' = NoAccum
    /\ slowWindow' = NoAccum
    /\ open' = FALSE
    /\ startAt' = Never
    /\ Store

---------------------------------------------------------------------------------
(* feed() of a live position. *)
SampleGlitch(leg, kn) ==
    /\ live
    /\ ~Gap
    /\ Glitch(leg)
    /\ UNCHANGED vars

(* After a gap an open trip is closed, and the fix is the first of a new day. *)
SampleGap(kn) ==
    /\ live
    /\ Gap
    /\ IF underway THEN CloseTrip ELSE UNCHANGED <<underway, trip, slowWindow, engine>>
    /\ lastFix' = now
    /\ fastWindow' = IF kn = "fast" THEN [start |-> now, dist |-> 0] ELSE NoAccum
    /\ notFastAt' = IF kn = "fast" THEN notFastAt ELSE now
    /\ notSlowAt' = IF kn = "slow" THEN notSlowAt ELSE now
    /\ UNCHANGED <<now, live>>

SampleRest(leg, kn) ==
    /\ Accept(leg, kn)
    /\ ~underway
    /\ kn # "fast"
    /\ fastWindow' = NoAccum
    /\ UNCHANGED <<underway, trip, slowWindow, engine>>

(* The fast window with this fix in it. *)
Window(leg) ==
    IF fastWindow = NoAccum THEN [start |-> now, dist |-> 0]
    ELSE [start |-> fastWindow.start, dist |-> Longer(fastWindow.dist, leg)]

SampleFast(leg) ==
    /\ Accept(leg, "fast")
    /\ ~underway
    /\ now - Window(leg).start < UnderwayHold
    /\ fastWindow' = Window(leg)
    /\ UNCHANGED <<underway, trip, slowWindow, engine>>

(* Mutant: the fast window outlives its promotion. *)
SampleStartKeepsWindow(leg) ==
    /\ Accept(leg, "fast")
    /\ ~underway
    /\ now - Window(leg).start >= UnderwayHold
    /\ underway' = TRUE
    /\ trip' = Window(leg)
    /\ fastWindow' = Window(leg)
    /\ slowWindow' = NoAccum
    /\ open' = TRUE
    /\ startAt' = Window(leg).start
    /\ UNCHANGED trips

(* The window becomes the trip. *)
SampleStart(leg) ==
    /\ Accept(leg, "fast")
    /\ ~underway
    /\ now - Window(leg).start >= UnderwayHold
    /\ underway' = TRUE
    /\ trip' = Window(leg)
    /\ fastWindow' = NoAccum
    /\ slowWindow' = NoAccum
    /\ open' = TRUE
    /\ startAt' = Window(leg).start
    /\ UNCHANGED trips

Extended(leg) == [start |-> trip.start, dist |-> Longer(trip.dist, leg)]

(* Mutant: a slow window is not reset. *)
SampleMovingKeepsSlow(leg, kn) ==
    /\ Accept(leg, kn)
    /\ underway
    /\ kn # "slow"
    /\ trip' = Extended(leg)
    /\ UNCHANGED <<underway, fastWindow, slowWindow, engine>>

SampleMoving(leg, kn) ==
    /\ Accept(leg, kn)
    /\ underway
    /\ kn # "slow"
    /\ trip' = Extended(leg)
    /\ slowWindow' = NoAccum
    /\ UNCHANGED <<underway, fastWindow, engine>>

SampleSlow(leg) ==
    /\ Accept(leg, "slow")
    /\ underway
    /\ trip' = Extended(leg)
    /\ \/ slowWindow = NoAccum /\ slowWindow' = [start |-> now, dist |-> Extended(leg).dist]
       \/ /\ slowWindow # NoAccum
          /\ now - slowWindow.start < MooredHold
          /\ UNCHANGED slowWindow
    /\ UNCHANGED <<underway, fastWindow, engine>>

SampleEnd(leg) ==
    /\ Accept(leg, "slow")
    /\ underway
    /\ slowWindow # NoAccum
    /\ now - slowWindow.start >= MooredHold
    /\ CloseTrip
    /\ UNCHANGED fastWindow

(* A position of the demo or of a replay: close() if a trip is open. *)
SampleForeign ==
    /\ ~live
    /\ open
    /\ fastWindow' = NoAccum
    /\ IF underway THEN CloseTrip ELSE UNCHANGED <<underway, trip, slowWindow, engine>>
    /\ UNCHANGED <<now, live, lastFix, notFastAt, notSlowAt>>

Sample ==
    \/ \E leg \in Legs :
         \/ \E kn \in Speeds :
              SampleGlitch(leg, kn) \/ SampleRest(leg, kn) \/ SampleMoving(leg, kn)
         \/ SampleFast(leg) \/ SampleStart(leg) \/ SampleSlow(leg) \/ SampleEnd(leg)
    \/ \E kn \in Speeds : SampleGap(kn)
    \/ SampleForeign

---------------------------------------------------------------------------------
SwitchMode ==
    /\ live' = ~live
    /\ UNCHANGED <<now, detector, engine, notFastAt, notSlowAt>>

(* A restart loses the trip in memory. *)
Restart ==
    /\ Unfed
    /\ live' \in BOOLEAN
    /\ UNCHANGED <<now, trips>>

Tick ==
    /\ now < MaxClock
    /\ now' = now + 1
    /\ UNCHANGED <<live, detector, engine, notFastAt, notSlowAt>>

Next == Sample \/ SwitchMode \/ Restart \/ Tick

Spec == Init /\ [][Next]_vars

---------------------------------------------------------------------------------
(* The engine and its detector agree on whether a trip is open and when it   *)
(* started.  The engine keeps a flag of its own (trip-engine.ts:201-212) and *)
(* asks the detector to close only while it is set (line 181): were they to  *)
(* differ, a mode swap would stitch a live trip to the next one.             *)
EngineAgrees ==
    /\ open <=> underway
    /\ startAt = trip.start
    /\ ~open => startAt = Never

(* The stored trips do not overlap, one that is open included: a trip that   *)
(* was backdated never begins before the one before it ended, whatever gaps, *)
(* swaps and restarts come between (detector.ts:152-240).                    *)
TripsInOrder ==
    /\ \A i \in 1 .. Len(trips) : trips[i].start <= trips[i].end
    /\ \A i, j \in 1 .. Len(trips) : i < j => trips[i].end <= trips[j].start
    /\ \A i \in 1 .. Len(trips) : open => trips[i].end <= startAt

Opens == ~open /\ open'

(* A trip starts only after the fast fixes it is backdated over: held for    *)
(* UnderwayHold, with no accepted fix among them that was slow or had no     *)
(* speed (detector.ts:7-10, 205).                                            *)
SustainedStart ==
    [][Opens => startAt' >= notFastAt' /\ now - startAt' >= UnderwayHold]_vars

(* A stored trip ends where the boat stopped: no fix after its end was       *)
(* anything but slow, and it ends no later than the last fix                 *)
(* (detector.ts:11-15, 229).                                                 *)
EndsAtRest ==
    [][Len(trips') > Len(trips) =>
          /\ trips'[Len(trips')].end >= notSlowAt
          /\ trips'[Len(trips')].end <= lastFix]_vars
=================================================================================
