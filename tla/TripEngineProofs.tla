---------------------------- MODULE TripEngineProofs ----------------------------
(* Safety proofs about TripEngine, for any thresholds, distances and bound   *)
(* on the clock.                                                             *)
EXTENDS TripEngine, TLAPS

(* The invariant.  What each state of the detector holds... *)
Phases ==
    /\ underway => trip # NoAccum /\ fastWindow = NoAccum /\ lastFix # Never
    /\ ~underway => trip = NoAccum /\ slowWindow = NoAccum
    /\ fastWindow # NoAccum => fastWindow.start >= 0
    /\ trip # NoAccum => trip.start >= 0
    /\ slowWindow # NoAccum => slowWindow.start >= 0

(* ...the order of the times it remembers... *)
Ordered ==
    /\ lastFix <= now
    /\ notFastAt <= now
    /\ notSlowAt <= lastFix
    /\ fastWindow # NoAccum => notFastAt <= fastWindow.start /\ fastWindow.start <= now
    /\ underway => trip.start <= lastFix
    /\ slowWindow # NoAccum => /\ trip.start <= slowWindow.start
                               /\ notSlowAt <= slowWindow.start
                               /\ slowWindow.start <= lastFix

(* ...and where the stored trips lie: before whatever may still become one. *)
Stored ==
    /\ \A i \in 1 .. Len(trips) : /\ trips[i].start <= trips[i].end
                                  /\ trips[i].end <= now
                                  /\ fastWindow # NoAccum => trips[i].end <= fastWindow.start
                                  /\ underway => trips[i].end <= trip.start
    /\ \A i, j \in 1 .. Len(trips) : i < j => trips[i].end <= trips[j].start

TripInv == TypeOK /\ EngineAgrees /\ Phases /\ Ordered /\ Stored

Row == [start : Times, end : Times]

(* The rows are in order, and none ends after t. *)
InOrderUpTo(rows, t) ==
    /\ \A i \in 1 .. Len(rows) : rows[i].start <= rows[i].end /\ rows[i].end <= t
    /\ \A i, j \in 1 .. Len(rows) : i < j => rows[i].end <= rows[j].start

---------------------------------------------------------------------------------
(* A row that starts where the others have ended keeps them in order. *)
LEMMA AppendInOrder ==
    ASSUME NEW rows \in Seq(Row), NEW s \in Times, NEW e \in Times, NEW t \in Times,
           InOrderUpTo(rows, s), s <= e, e <= t
    PROVE  /\ Append(rows, [start |-> s, end |-> e]) \in Seq(Row)
           /\ InOrderUpTo(Append(rows, [start |-> s, end |-> e]), t)
<1> DEFINE r == [start |-> s, end |-> e]
           new == Append(rows, r)
<1>1. r \in Row /\ r.start = s /\ r.end = e
    BY DEF Row
<1> HIDE DEF r
<1>2. /\ new \in Seq(Row)
      /\ Len(new) = Len(rows) + 1
      /\ new[Len(new)] = r
      /\ \A i \in 1 .. Len(rows) : new[i] = rows[i] /\ rows[i] \in Row
    BY <1>1
<1>3. \A x \in Row : x.start \in Times /\ x.end \in Times
    BY DEF Row
<1>4. Len(rows) \in Nat
    OBVIOUS
<1> HIDE DEF new
<1> SUFFICES InOrderUpTo(new, t)
    BY <1>2 DEF new, r
<1>5. \A i \in 1 .. Len(new) : i = Len(new) \/ i \in 1 .. Len(rows)
    BY <1>2, <1>4
<1>6. ASSUME NEW i \in 1 .. Len(rows)
      PROVE  /\ new[i].start <= new[i].end
             /\ new[i].end <= s
             /\ new[i].end <= t
    <2>1. rows[i].start <= rows[i].end /\ rows[i].end <= s
        BY DEF InOrderUpTo
    <2>2. rows[i].end \in Int
        BY <1>2, <1>3 DEF Times, Never
    <2> QED
        BY <1>2, <2>1, <2>2 DEF Times, Never
<1>7. ASSUME NEW i \in 1 .. Len(new), NEW j \in 1 .. Len(new), i < j
      PROVE  new[i].end <= new[j].start
    <2>1. i \in 1 .. Len(rows)
        BY <1>2, <1>4, <1>5, <1>7
    <2>2. CASE j = Len(new)
        BY <1>1, <1>2, <1>6, <2>1, <2>2
    <2>3. CASE j \in 1 .. Len(rows)
        BY <1>2, <1>7, <2>1, <2>3 DEF InOrderUpTo
    <2> QED
        BY <1>5, <2>2, <2>3
<1> QED
    BY <1>1, <1>2, <1>5, <1>6, <1>7 DEF InOrderUpTo

(* Closing a trip leaves the engine and the detector agreeing and the table  *)
(* in order.                                                                 *)
LEMMA CloseKeepsOrder ==
    ASSUME TripInv, underway, CloseTrip
    PROVE  /\ trips' \in Seq(Row)
           /\ InOrderUpTo(trips', now)
<1>1. trips \in Seq(Row) /\ InOrderUpTo(trips, trip.start) /\ InOrderUpTo(trips, now)
    BY DEF TripInv, TypeOK, Row, Stored, InOrderUpTo
<1>2. startAt = trip.start /\ startAt \in Times /\ now \in Times
    BY DEF TripInv, TypeOK, EngineAgrees, Times
<1>3. EndTime \in Times /\ startAt <= EndTime /\ EndTime <= now
    BY <1>2 DEF TripInv, TypeOK, Phases, Ordered, EndTime, Times, Accums, Never
<1>4. CASE UNCHANGED trips
    BY <1>1, <1>4
<1>5. CASE trips' = Append(trips, [start |-> startAt, end |-> EndTime])
    BY <1>1, <1>2, <1>3, <1>5, AppendInOrder
<1> QED
    BY <1>4, <1>5 DEF CloseTrip, Store

---------------------------------------------------------------------------------
LEMMA LengthType ==
    ASSUME TypeOK, NEW leg \in Legs
    PROVE  /\ Window(leg) \in Accums
           /\ Extended(leg) \in Accums
           /\ Window(leg) # NoAccum => Window(leg).start \in Times
<1>1. \A dist \in Nat : Longer(dist, leg) \in Nat
    BY TimesAssumption, LegsAssumption DEF Longer
<1>2. Window(leg) \in Accums
    BY <1>1 DEF TypeOK, Window, Accums, Times
<1>3. Extended(leg) \in Accums
    BY <1>1 DEF TypeOK, Extended, Accums
<1> QED
    BY <1>2, <1>3 DEF Accums

LEMMA RowTimes ==
    ASSUME TypeOK, NEW i \in 1 .. Len(trips)
    PROVE  trips[i].start \in Times /\ trips[i].end \in Times
<1>1. trips \in Seq(Row)
    BY DEF TypeOK, Row
<1>2. trips[i] \in Row
    BY <1>1
<1> QED
    BY <1>2 DEF Row

(* What a window or an open trip starts at, once the fix is in it. *)
LEMMA WindowStart ==
    ASSUME TripInv, NEW leg \in Legs
    PROVE  /\ Window(leg) # NoAccum
           /\ Window(leg).start >= 0
           /\ Window(leg).start <= now
           /\ notFastAt <= Window(leg).start
           /\ \A i \in 1 .. Len(trips) : trips[i].end <= Window(leg).start
<1>1. CASE fastWindow = NoAccum
    <2>1. Window(leg).start = now
        BY <1>1 DEF Window
    <2> QED
        BY <2>1 DEF TripInv, TypeOK, Ordered, Stored, NoAccum, Never
<1>2. CASE fastWindow # NoAccum
    <2>1. Window(leg).start = fastWindow.start
        BY <1>2 DEF Window
    <2> QED
        BY <1>2, <2>1 DEF TripInv, Phases, Ordered, Stored, NoAccum, Never
<1> QED
    BY <1>1, <1>2

LEMMA TripInvUnchanged ==
    ASSUME TripInv, UNCHANGED vars
    PROVE  TripInv'
BY DEF vars, detector, engine, TripInv, TypeOK, EngineAgrees, Phases, Ordered, Stored

LEMMA TripInvInit == Init => TripInv
<1> SUFFICES ASSUME Init PROVE TripInv
    OBVIOUS
<1>1. trips \in Seq(Row) /\ Len(trips) = 0
    BY DEF Init
<1>2. TypeOK
    BY <1>1 DEF Init, TypeOK, NoAccum, Accums, Times, Never, Row
<1>3. EngineAgrees /\ Phases /\ Ordered
    BY DEF Init, EngineAgrees, Phases, Ordered, NoAccum, Never
<1>4. Stored
    BY <1>1 DEF Stored
<1> QED
    BY <1>2, <1>3, <1>4 DEF TripInv

LEMMA TripInvStart ==
    ASSUME TripInv, NEW leg \in Legs, SampleStart(leg)
    PROVE  TripInv'
<1>1. TypeOK'
    BY LengthType DEF TripInv, TypeOK, SampleStart, Accept, Accums, NoAccum, Times, Never
<1>2. EngineAgrees'
    BY DEF SampleStart, EngineAgrees
<1>3. Phases'
    BY WindowStart DEF TripInv, TypeOK, SampleStart, Accept, Phases, Never
<1>4. Ordered'
    BY WindowStart, RowTimes DEF TripInv, TypeOK, SampleStart, Accept, Ordered, Times, Never
<1>5. Stored'
    BY WindowStart DEF TripInv, SampleStart, Accept, Stored
<1> QED
    BY <1>1, <1>2, <1>3, <1>4, <1>5 DEF TripInv

LEMMA TripInvFast ==
    ASSUME TripInv, NEW leg \in Legs, SampleFast(leg)
    PROVE  TripInv'
<1>1. TypeOK'
    BY LengthType DEF TripInv, TypeOK, SampleFast, Accept, engine, Times
<1>2. EngineAgrees'
    BY DEF TripInv, SampleFast, EngineAgrees, engine
<1>3. Phases'
    BY WindowStart DEF TripInv, TypeOK, SampleFast, Accept, Phases, Never
<1>4. Ordered'
    BY WindowStart DEF TripInv, TypeOK, SampleFast, Accept, Ordered, Phases, Times, Never
<1>5. Stored'
    BY WindowStart DEF TripInv, SampleFast, Accept, Stored, engine
<1> QED
    BY <1>1, <1>2, <1>3, <1>4, <1>5 DEF TripInv

LEMMA TripInvRest ==
    ASSUME TripInv, NEW leg \in Legs, NEW kn \in Speeds, SampleRest(leg, kn)
    PROVE  TripInv'
<1>1. TypeOK'
    BY DEF TripInv, TypeOK, SampleRest, Accept, engine, NoAccum, Accums, Times, Never
<1>2. EngineAgrees'
    BY DEF TripInv, SampleRest, EngineAgrees, engine
<1>3. Phases' /\ Ordered'
    BY DEF TripInv, TypeOK, SampleRest, Accept, Phases, Ordered, Times, Never
<1>4. Stored'
    BY DEF TripInv, SampleRest, Accept, Stored, engine
<1> QED
    BY <1>1, <1>2, <1>3, <1>4 DEF TripInv

(* A fix under way leaves the start of the trip where it was. *)
LEMMA TripInvUnderway ==
    ASSUME TripInv, NEW leg \in Legs, NEW kn \in Speeds, SampleMoving(leg, kn) \/ SampleSlow(leg)
    PROVE  TripInv'
<1>1. trip' = Extended(leg) /\ trip'.start = trip.start /\ trip.start >= 0
    BY DEF TripInv, SampleMoving, SampleSlow, Extended, Phases
<1>2. trip' # NoAccum
    BY <1>1 DEF NoAccum, Never
<1>3. /\ underway /\ underway' /\ lastFix' = now /\ now' = now
      /\ UNCHANGED <<live, fastWindow, open, startAt, trips>>
      /\ notFastAt' \in {now, notFastAt}
    BY DEF TripInv, TypeOK, SampleMoving, SampleSlow, Accept, engine
<1>4. \/ slowWindow' = NoAccum
      \/ slowWindow' = [start |-> now, dist |-> Extended(leg).dist] /\ notSlowAt' = notSlowAt
      \/ slowWindow' = slowWindow /\ slowWindow # NoAccum /\ notSlowAt' = notSlowAt
    BY DEF SampleMoving, SampleSlow, Accept
<1>5. notSlowAt' \in {now, notSlowAt}
    BY DEF SampleMoving, SampleSlow, Accept
<1>6. TypeOK'
    <2>1. slowWindow' \in Accums
        BY <1>4, LengthType DEF TripInv, TypeOK, Accums, NoAccum, Times
    <2> QED
        BY <1>1, <1>3, <1>5, <2>1, LengthType DEF TripInv, TypeOK, Times
<1>7. EngineAgrees'
    BY <1>1, <1>3 DEF TripInv, EngineAgrees
<1>8. Phases'
    BY <1>1, <1>2, <1>3, <1>4 DEF TripInv, TypeOK, Phases, Never
<1>9. Ordered'
    <2>1. trip.start <= now /\ notSlowAt <= now
        BY <1>3 DEF TripInv, TypeOK, Ordered, Accums, Times, Never
    <2>2. fastWindow' = NoAccum
        BY <1>3 DEF TripInv, Phases
    <2>3. notFastAt' <= now' /\ notSlowAt' <= lastFix' /\ lastFix' <= now'
        BY <1>3, <1>5, <2>1 DEF TripInv, TypeOK, Ordered
    <2>4. CASE slowWindow' = NoAccum
        BY <1>1, <1>3, <2>1, <2>2, <2>3, <2>4 DEF Ordered
    <2>5. CASE slowWindow' = [start |-> now, dist |-> Extended(leg).dist] /\ notSlowAt' = notSlowAt
        BY <1>1, <1>3, <2>1, <2>2, <2>3, <2>5 DEF TripInv, TypeOK, Ordered
    <2>6. CASE slowWindow' = slowWindow /\ slowWindow # NoAccum /\ notSlowAt' = notSlowAt
        BY <1>1, <1>3, <2>1, <2>2, <2>3, <2>6 DEF TripInv, TypeOK, Ordered, Accums, Times, Never
    <2> QED
        BY <1>4, <2>4, <2>5, <2>6
<1>10. Stored'
    BY <1>1, <1>3 DEF TripInv, Stored
<1> QED
    BY <1>6, <1>7, <1>8, <1>9, <1>10 DEF TripInv

(* The three ways a trip is closed. *)
LEMMA TripInvClose ==
    ASSUME TripInv, underway, CloseTrip, now' = now, live' = live, lastFix' \in {lastFix, now},
           fastWindow' \in {NoAccum, [start |-> now, dist |-> 0]},
           fastWindow' # NoAccum => notFastAt' = notFastAt,
           notFastAt' \in {notFastAt, now},
           notSlowAt' = notSlowAt \/ (notSlowAt' = now /\ lastFix' = now)
    PROVE  TripInv'
<1>1. trips' \in Seq(Row) /\ InOrderUpTo(trips', now)
    BY CloseKeepsOrder
<1>2. /\ ~underway' /\ ~open' /\ startAt' = Never
      /\ trip' = NoAccum /\ slowWindow' = NoAccum
    BY DEF CloseTrip
<1>3. TypeOK'
    <2>1. NoAccum \in Accums /\ [start |-> now, dist |-> 0] \in Accums /\ Never \in Times
        BY DEF TripInv, TypeOK, NoAccum, Accums, Times
    <2>2. trip' \in Accums /\ slowWindow' \in Accums /\ fastWindow' \in Accums
        BY <1>2, <2>1
    <2>3. now' \in Nat /\ live' \in BOOLEAN /\ underway' \in BOOLEAN /\ open' \in BOOLEAN
        BY DEF TripInv, TypeOK, CloseTrip
    <2>4. lastFix' \in Times /\ notFastAt' \in Times /\ notSlowAt' \in Times /\ startAt' \in Times
        BY <1>2, <2>1 DEF TripInv, TypeOK, Times
    <2> QED
        BY <1>1, <2>2, <2>3, <2>4 DEF TypeOK, Row
<1>4. EngineAgrees'
    BY <1>2 DEF EngineAgrees, NoAccum
<1>5. Phases'
    BY <1>2 DEF TripInv, TypeOK, Phases
<1>6. Ordered'
    BY <1>2 DEF TripInv, TypeOK, Ordered, Times, Never
<1>7. Stored'
    BY <1>1, <1>2 DEF Stored, InOrderUpTo
<1> QED
    BY <1>3, <1>4, <1>5, <1>6, <1>7 DEF TripInv

LEMMA TripInvEnd ==
    ASSUME TripInv, NEW leg \in Legs, SampleEnd(leg)
    PROVE  TripInv'
<1>1. fastWindow' = NoAccum
    BY DEF TripInv, SampleEnd, Phases
<1> QED
    BY <1>1, TripInvClose DEF SampleEnd, Accept

LEMMA TripInvGap ==
    ASSUME TripInv, NEW kn \in Speeds, SampleGap(kn)
    PROVE  TripInv'
<1>1. /\ now' = now /\ live' = live /\ lastFix' = now
      /\ fastWindow' \in {NoAccum, [start |-> now, dist |-> 0]}
      /\ fastWindow' # NoAccum => notFastAt' = notFastAt
      /\ notFastAt' \in {notFastAt, now}
      /\ notSlowAt' \in {notSlowAt, now}
    BY DEF SampleGap
<1>2. CASE underway
    BY <1>1, <1>2, TripInvClose DEF SampleGap
<1>3. CASE ~underway
    <2>1. UNCHANGED <<underway, trip, slowWindow, open, startAt, trips>>
        BY <1>3 DEF SampleGap, engine
    <2>2. TypeOK'
        BY <1>1, <2>1 DEF TripInv, TypeOK, NoAccum, Accums, Times, Never
    <2>3. EngineAgrees'
        BY <2>1 DEF TripInv, EngineAgrees
    <2>4. Phases'
        BY <1>1, <1>3, <2>1 DEF TripInv, TypeOK, Phases
    <2>5. Ordered'
        BY <1>1, <1>3, <2>1 DEF TripInv, TypeOK, Ordered, Phases, Times, Never
    <2>6. Stored'
        BY <1>1, <1>3, <2>1 DEF TripInv, Stored
    <2> QED
        BY <2>2, <2>3, <2>4, <2>5, <2>6 DEF TripInv
<1> QED
    BY <1>2, <1>3

LEMMA TripInvForeign ==
    ASSUME TripInv, SampleForeign
    PROVE  TripInv'
<1>1. underway
    BY DEF TripInv, EngineAgrees, SampleForeign
<1> QED
    BY <1>1, TripInvClose DEF SampleForeign

LEMMA TripInvRestart ==
    ASSUME TripInv, Restart
    PROVE  TripInv'
<1>1. TypeOK'
    BY DEF TripInv, TypeOK, Restart, Unfed, NoAccum, Accums, Times, Never
<1>2. EngineAgrees' /\ Phases' /\ Ordered'
    BY DEF TripInv, TypeOK, Restart, Unfed, EngineAgrees, Phases, Ordered, NoAccum, Never
<1>3. Stored'
    BY DEF TripInv, Restart, Unfed, Stored
<1> QED
    BY <1>1, <1>2, <1>3 DEF TripInv

LEMMA TripInvTick ==
    ASSUME TripInv, Tick
    PROVE  TripInv'
<1>1. now' = now + 1 /\ UNCHANGED <<live, detector, engine, notFastAt, notSlowAt>>
    BY DEF Tick
<1>2. TypeOK'
    BY <1>1 DEF TripInv, TypeOK, detector, engine
<1>3. EngineAgrees' /\ Phases'
    BY <1>1 DEF TripInv, EngineAgrees, Phases, detector, engine
<1>4. Ordered'
    BY <1>1 DEF TripInv, TypeOK, Ordered, Accums, Times, Never, detector, engine
<1>5. Stored'
    <2>1. \A i \in 1 .. Len(trips) : trips[i].end <= now + 1
        BY RowTimes DEF TripInv, TypeOK, Stored, Times, Never
    <2> QED
        BY <1>1, <2>1 DEF TripInv, Stored, detector, engine
<1> QED
    BY <1>2, <1>3, <1>4, <1>5 DEF TripInv

LEMMA TripInvNext == TripInv /\ [Next]_vars => TripInv'
<1> SUFFICES ASSUME TripInv, [Next]_vars PROVE TripInv'
    OBVIOUS
<1>1. CASE Sample
    <2>1. ASSUME NEW leg \in Legs, NEW kn \in Speeds, SampleGlitch(leg, kn) PROVE TripInv'
        BY <2>1, TripInvUnchanged DEF SampleGlitch
    <2>2. ASSUME NEW leg \in Legs, NEW kn \in Speeds,
                 SampleRest(leg, kn) \/ SampleMoving(leg, kn)
          PROVE  TripInv'
        BY <2>2, TripInvRest, TripInvUnderway
    <2>3. ASSUME NEW leg \in Legs,
                 SampleFast(leg) \/ SampleStart(leg) \/ SampleSlow(leg) \/ SampleEnd(leg)
          PROVE  TripInv'
        <3>1. CASE SampleSlow(leg)
            BY <3>1, TripInvUnderway DEF Speeds
        <3> QED
            BY <2>3, <3>1, TripInvFast, TripInvStart, TripInvEnd
    <2>4. ASSUME NEW kn \in Speeds, SampleGap(kn) PROVE TripInv'
        BY <2>4, TripInvGap
    <2>5. CASE SampleForeign
        BY <2>5, TripInvForeign
    <2> QED
        BY <1>1, <2>1, <2>2, <2>3, <2>4, <2>5 DEF Sample
<1>2. CASE SwitchMode
    BY <1>2 DEF SwitchMode, detector, engine, TripInv, TypeOK, EngineAgrees, Phases, Ordered, Stored
<1>3. CASE Restart
    BY <1>3, TripInvRestart
<1>4. CASE Tick
    BY <1>4, TripInvTick
<1>5. CASE UNCHANGED vars
    BY <1>5, TripInvUnchanged
<1> QED
    BY <1>1, <1>2, <1>3, <1>4, <1>5 DEF Next

(* The invariant holds in every reachable state. *)
THEOREM TripInvHolds == Spec => []TripInv
BY TripInvInit, TripInvNext, PTL DEF Spec

(* For any thresholds and whatever gaps, glitches, swaps, restarts and       *)
(* failed inserts occur, the engine's flag and the detector's state agree    *)
(* (trip-engine.ts:181, 201-212).                                            *)
THEOREM EngineAlwaysAgrees == Spec => []EngineAgrees
BY TripInvHolds, PTL DEF TripInv

(* The trips stored, and the one that is open, never overlap                 *)
(* (detector.ts:152-240).                                                    *)
THEOREM TripsNeverOverlap == Spec => []TripsInOrder
<1>1. TripInv => TripsInOrder
    BY DEF TripInv, EngineAgrees, Stored, TripsInOrder
<1> QED
    BY <1>1, TripInvHolds, PTL

---------------------------------------------------------------------------------
(* The steps at which a trip opens, and at which one is stored. *)
LEMMA OnlyStartOpens ==
    ASSUME TripInv, [Next]_vars, ~open, open'
    PROVE  \E leg \in Legs : SampleStart(leg)
<1>1. ~underway
    BY DEF TripInv, EngineAgrees
<1> QED
    BY <1>1 DEF Next, vars, engine, Sample, SampleGlitch, SampleRest, SampleMoving, SampleFast,
       SampleSlow, SampleEnd, SampleGap, SampleForeign, CloseTrip, SwitchMode, Restart, Unfed, Tick

(* A trip starts only after fast fixes held for UnderwayHold, none of those  *)
(* accepted since its start being anything else (detector.ts:7-10, 205).     *)
THEOREM StartsAreSustained == Spec => SustainedStart
<1>1. ASSUME TripInv, [Next]_vars, Opens
      PROVE  startAt' >= notFastAt' /\ now - startAt' >= UnderwayHold
    <2>1. PICK leg \in Legs : SampleStart(leg)
        BY <1>1, OnlyStartOpens DEF Opens
    <2>2. /\ startAt' = Window(leg).start
          /\ notFastAt' = notFastAt
          /\ now - Window(leg).start >= UnderwayHold
        BY <2>1 DEF SampleStart, Accept
    <2>3. Window(leg).start \in Int /\ notFastAt \in Int
        BY <1>1, LengthType, WindowStart DEF TripInv, TypeOK, Times, Never
    <2> QED
        BY <1>1, <2>2, <2>3, WindowStart
<1>2. TripInv /\ [Next]_vars =>
        [Opens => startAt' >= notFastAt' /\ now - startAt' >= UnderwayHold]_vars
    BY <1>1
<1> QED
    BY <1>2, TripInvHolds, PTL DEF Spec, SustainedStart

LEMMA OnlyCloseStores ==
    ASSUME TripInv, [Next]_vars, Len(trips') > Len(trips)
    PROVE  underway /\ CloseTrip
<1>1. trips' # trips
    <2>1. Len(trips) \in Nat
        BY DEF TripInv, TypeOK
    <2> QED
        BY <2>1
<1>2. open <=> underway
    BY DEF TripInv, EngineAgrees
<1> QED
    BY <1>1, <1>2 DEF Next, vars, engine, Sample, SampleGlitch, SampleRest, SampleMoving, SampleFast,
       SampleStart, SampleSlow, SampleEnd, SampleGap, SampleForeign, SwitchMode, Restart, Tick

(* A stored trip ends where the boat stopped (detector.ts:11-15, 229).       *)
THEOREM TripsEndAtRest == Spec => EndsAtRest
<1>1. ASSUME TripInv, [Next]_vars, Len(trips') > Len(trips)
      PROVE  /\ trips'[Len(trips')].end >= notSlowAt
             /\ trips'[Len(trips')].end <= lastFix
    <2>1. underway /\ CloseTrip
        BY <1>1, OnlyCloseStores
    <2>2. trips \in Seq(Row) /\ Len(trips) \in Nat
        BY <1>1 DEF TripInv, TypeOK, Row
    <2>3. trips' = Append(trips, [start |-> startAt, end |-> EndTime])
        <3>1. CASE trips' = trips
            BY <1>1, <2>2, <3>1
        <3> QED
            BY <2>1, <3>1 DEF CloseTrip, Store
    <2>4. Len(trips') = Len(trips) + 1 /\ trips'[Len(trips')] = [start |-> startAt, end |-> EndTime]
        BY <2>2, <2>3
    <2>5. EndTime >= notSlowAt /\ EndTime <= lastFix
        BY <1>1, <2>1 DEF TripInv, TypeOK, Phases, Ordered, EndTime, Accums, Times, Never
    <2> QED
        BY <2>4, <2>5
<1>2. TripInv /\ [Next]_vars =>
        [Len(trips') > Len(trips) =>
            /\ trips'[Len(trips')].end >= notSlowAt
            /\ trips'[Len(trips')].end <= lastFix]_vars
    BY <1>1
<1> QED
    BY <1>2, TripInvHolds, PTL DEF Spec, EndsAtRest
=================================================================================
