-------------------------------- MODULE WebProofs --------------------------------
(* Safety proofs about the recorded tracks, what a page polls and the      *)
(* forecast refresh, and about Web as a whole, for every value of their    *)
(* constants.                                                              *)
EXTENDS Web, WellFoundedInduction, TLAPS

(* Every set of natural numbers that is not empty has a least element, by  *)
(* the well-foundedness of their order.                                    *)
LEMMA Least ==
    ASSUME NEW S \in SUBSET Nat, S # {}
    PROVE  \E m \in S : \A n \in S : m <= n
<1>1. \E x \in S : \A y \in S : ~(<<y, x>> \in OpToRel(<, Nat))
    BY NatLessThanWellFounded, WFMin
<1>2. PICK x \in S : \A y \in S : ~(<<y, x>> \in OpToRel(<, Nat))
    BY <1>1
<1>3. \A y \in S : ~(y < x)
    BY <1>2 DEF OpToRel
<1> QED
    BY <1>3

(* One fetch is under way at most, of data no older than what is shown;    *)
(* every component mounted shows the entry's data.                         *)
PollInv ==
    /\ PollTypeOK
    /\ ~fetching => flights = {}
    /\ polled <= version
    /\ \A v \in flights : polled <= v /\ v <= version
    /\ \A v, w \in flights : v = w
    /\ \A c \in listeners : shown[c] = polled

LEMMA PollInvInit == PollInit => PollInv
<1> SUFFICES ASSUME PollInit PROVE PollInv
    OBVIOUS
<1>1. fetching \in BOOLEAN
    BY Zenon DEF PollInit
<1>2. /\ listeners = {} /\ flights = {} /\ polled = -1 /\ version = 0
      /\ shown = [c \in Components |-> Loading]
    BY DEF PollInit, Loading
<1> QED
    BY <1>1, <1>2, PollAssumption DEF PollInv, PollTypeOK, Loading

LEMMA PollInvNext ==
    ASSUME PollInv, [PollNext]_pollVars
    PROVE  PollInv' /\ \A c \in listeners \cap listeners' : shown'[c] >= shown[c]
<1> USE PollAssumption DEF PollInv, PollTypeOK, Loading
<1> DEFINE Goal == PollInv' /\ \A c \in listeners \cap listeners' : shown'[c] >= shown[c]
<1>1. CASE DoFetch
    BY <1>1 DEF DoFetch
<1>2. CASE ServerChanges
    BY <1>2 DEF ServerChanges
<1>3. ASSUME NEW c \in Components, Subscribe(c) PROVE Goal
    <2>1. CASE listeners = {}
        <3>1. listeners' = {c} /\ flights' = {version} /\ polled' = -1 /\ version' = version
            BY <1>3, <2>1 DEF Subscribe
        <3>2. fetching' = TRUE
            BY <1>3, <2>1, Zenon DEF Subscribe
        <3>3. shown' = [shown EXCEPT ![c] = polled']
            BY <1>3, Zenon DEF Subscribe
        <3>4. PollTypeOK'
            BY <3>1, <3>2, <3>3
        <3> QED
            BY <2>1, <3>1, <3>2, <3>3, <3>4
    <2>2. CASE listeners # {}
        <3>1. /\ c \notin listeners /\ listeners' = listeners \cup {c}
              /\ UNCHANGED <<fetching, flights, polled, version>> /\ shown' = [shown EXCEPT ![c] = polled]
            BY <1>3, <2>2 DEF Subscribe
        <3> QED
            BY <3>1
    <2> QED
        BY <2>1, <2>2
<1>4. ASSUME NEW c \in Components, Unsubscribe(c) PROVE Goal
    <2>1. listeners' = listeners \ {c} /\ UNCHANGED <<polled, shown, version>>
        BY <1>4 DEF Unsubscribe
    <2>2. (fetching' = FALSE /\ flights' = {}) \/ (UNCHANGED <<fetching, flights>>)
        BY <1>4, Zenon DEF Unsubscribe
    <2>3. fetching' \in BOOLEAN /\ (~fetching' => flights' = {})
        BY <2>2, Zenon
    <2>4. flights' \subseteq flights
        BY <2>2
    <2>5. PollTypeOK'
        BY <2>1, <2>3, <2>4
    <2> QED
        BY <2>1, <2>3, <2>4, <2>5
<1>5. ASSUME NEW v \in 0 .. MaxVersion, Answer(v) PROVE Goal
    <2>1. /\ v \in flights /\ flights' = flights \ {v} /\ polled' = v /\ UNCHANGED <<listeners, version>>
          /\ shown' = [c \in Components |-> IF c \in listeners THEN v ELSE shown[c]]
        BY <1>5, Zenon DEF Answer, Notify
    <2>2. flights' = {} /\ polled <= v /\ v <= version
        BY <2>1
    <2>3. fetching' \in BOOLEAN
        BY <1>5, Zenon DEF Answer
    <2>4. shown' \in [Components -> Loading .. MaxVersion]
        BY <2>1
    <2>5. \A c \in listeners : shown'[c] = v /\ shown[c] = polled
        BY <2>1
    <2>6. PollTypeOK'
        BY <2>1, <2>2, <2>3, <2>4
    <2> QED
        BY <2>1, <2>2, <2>5, <2>6
<1>6. ASSUME NEW v \in 0 .. MaxVersion, FetchFails(v) PROVE Goal
    <2>1. /\ v \in flights /\ flights' = flights \ {v} /\ UNCHANGED <<listeners, version, polled>>
          /\ shown' = [c \in Components |-> IF c \in listeners THEN polled ELSE shown[c]]
        BY <1>6, Zenon DEF FetchFails, Notify
    <2>2. fetching' = FALSE /\ flights' = {}
        BY <1>6, <2>1 DEF FetchFails
    <2>3. PollTypeOK'
        BY <2>1, <2>2
    <2>4. \A c \in listeners : shown'[c] = polled /\ shown[c] = polled
        BY <2>1
    <2> QED
        BY <2>1, <2>2, <2>3, <2>4
<1>7. CASE UNCHANGED pollVars
    BY <1>7 DEF pollVars
<1> QED
    BY <1>1, <1>2, <1>3, <1>4, <1>5, <1>6, <1>7 DEF PollNext

(* A component that stays mounted never shows older data than it did: the  *)
(* entry fetches one at a time (use-poll.ts:90-121).                       *)
THEOREM ShownOnlyGrowsNewer == PollSpec => NeverGoesBack
<1>1. PollInv /\ [PollNext]_pollVars => PollInv'
    BY PollInvNext
<1>2. PollInv /\ [PollNext]_pollVars => [\A c \in listeners \cap listeners' : shown'[c] >= shown[c]]_pollVars
    BY PollInvNext
<1> QED
    BY <1>1, <1>2, PollInvInit, PTL DEF PollSpec, NeverGoesBack

(***************************************************************************)
(* The forecast refresh.  The tokens after the latest job's are those of   *)
(* cancellations, which have no job; while the token is the latest job's,  *)
(* what its workers pulled is settled or in flight.                        *)
(***************************************************************************)
Job == [total : Nat, next : Nat, flights : Nat, settled : Nat, over : BOOLEAN]

RefreshInv ==
    /\ generation \in 0 .. MaxGeneration
    /\ progress \in [gen : 0 .. MaxGeneration, total : Nat, done : Nat, running : BOOLEAN]
    /\ jobs \in [Generations -> Job]
    /\ progress.gen <= generation
    /\ \A g \in Generations : g > progress.gen => jobs[g] = NoJob
    /\ progress.running => progress.gen = generation /\ ~jobs[progress.gen].over
    /\ progress.gen # 0 =>
          /\ progress.done = jobs[progress.gen].settled /\ progress.total = jobs[progress.gen].total
          /\ progress.gen = generation =>
                /\ jobs[generation].next = jobs[generation].settled + jobs[generation].flights
                /\ ~progress.running =>
                      jobs[generation].next = jobs[generation].total /\ jobs[generation].flights = 0

(* The fields of a job after a step, that of all others being unchanged. *)
JobIs(g, n, f, s) ==
    /\ jobs' \in [Generations -> Job]
    /\ \A h \in Generations : h # g => jobs'[h] = jobs[h]
    /\ jobs'[g].total = jobs[g].total /\ jobs'[g].over = jobs[g].over
    /\ jobs'[g].next = n /\ jobs'[g].flights = f /\ jobs'[g].settled = s

LEMMA NoJobIs ==
    /\ NoJob \in Job /\ NoJob.total = 0 /\ NoJob.next = 0 /\ NoJob.flights = 0 /\ NoJob.settled = 0
    /\ NoJob.over
BY DEF NoJob, Job

LEMMA PullIs ==
    ASSUME RefreshInv, NEW g \in Generations, Pull(g)
    PROVE  JobIs(g, jobs[g].next + 1, jobs[g].flights + 1, jobs[g].settled)
BY DEF RefreshInv, Pull, JobIs, Job

LEMMA CountedIs ==
    ASSUME RefreshInv, NEW g \in Generations
    PROVE  /\ Counted(g) \in Job /\ Counted(g).total = jobs[g].total /\ Counted(g).next = jobs[g].next
           /\ Counted(g).flights = jobs[g].flights /\ Counted(g).settled = jobs[g].settled + 1
           /\ Counted(g).over = jobs[g].over
<1>1. jobs[g] \in Job
    BY DEF RefreshInv
<1> QED
    BY <1>1 DEF Counted, Job

LEMMA SkipIs ==
    ASSUME RefreshInv, NEW g \in Generations, Skip(g)
    PROVE  JobIs(g, jobs[g].next + 1, jobs[g].flights, jobs[g].settled + 1)
<1>1. jobs \in [Generations -> Job]
    BY DEF RefreshInv
<1>2. PICK mine : mine = Counted(g)
    BY Zenon
<1>3. mine \in Job
    BY <1>2, CountedIs
<1>4. PICK next : next = [mine EXCEPT !.next = mine.next + 1]
    BY Zenon
<1>5. /\ next \in Job /\ next.total = mine.total /\ next.next = mine.next + 1 /\ next.flights = mine.flights
      /\ next.settled = mine.settled /\ next.over = mine.over
    BY <1>3, <1>4 DEF Job
<1>6. jobs' = [jobs EXCEPT ![g] = next]
    BY <1>2, <1>4, Zenon DEF Skip
<1> QED
    BY <1>1, <1>2, <1>5, <1>6, CountedIs DEF JobIs

LEMMA SettleIs ==
    ASSUME RefreshInv, NEW g \in Generations, Settle(g)
    PROVE  JobIs(g, jobs[g].next, jobs[g].flights - 1, IF g = generation THEN jobs[g].settled + 1 ELSE jobs[g].settled)
<1>1. jobs \in [Generations -> Job] /\ jobs[g] \in Job
    BY DEF RefreshInv
<1>2. jobs[g].flights - 1 \in Nat
    BY <1>1 DEF Settle, Job
<1>3. PICK mine : mine = IF g = generation THEN Counted(g) ELSE jobs[g]
    BY Zenon
<1>4. /\ mine \in Job /\ mine.total = jobs[g].total /\ mine.next = jobs[g].next
      /\ mine.flights = jobs[g].flights /\ mine.over = jobs[g].over
      /\ mine.settled = IF g = generation THEN jobs[g].settled + 1 ELSE jobs[g].settled
    BY <1>1, <1>3, CountedIs
<1>5. PICK next : next = [mine EXCEPT !.flights = mine.flights - 1]
    BY Zenon
<1>6. /\ next \in Job /\ next.total = mine.total /\ next.next = mine.next /\ next.flights = mine.flights - 1
      /\ next.settled = mine.settled /\ next.over = mine.over
    BY <1>2, <1>4, <1>5 DEF Job
<1>7. jobs' = [jobs EXCEPT ![g] = next]
    <2>1. CASE g = generation
        BY <1>3, <1>5, <2>1, Zenon DEF Settle
    <2>2. CASE g # generation
        <3>1. jobs' = [jobs EXCEPT ![g].flights = @ - 1]
            BY <2>2, Zenon DEF Settle
        <3> QED
            BY <1>3, <1>5, <2>2, <3>1, Zenon
    <2> QED
        BY <2>1, <2>2
<1> QED
    BY <1>1, <1>4, <1>6, <1>7 DEF JobIs

LEMMA RefreshInvInit == RefreshInit => RefreshInv
<1> SUFFICES ASSUME RefreshInit PROVE RefreshInv
    OBVIOUS
<1>1. generation = 0 /\ progress = [gen |-> 0, total |-> 0, done |-> 0, running |-> FALSE]
    BY DEF RefreshInit
<1>2. /\ progress \in [gen : 0 .. MaxGeneration, total : Nat, done : Nat, running : BOOLEAN]
      /\ progress.gen = 0 /\ ~progress.running
    BY <1>1, RefreshAssumption
<1>3. jobs \in [Generations -> Job] /\ \A g \in Generations : jobs[g] = NoJob
    BY NoJobIs DEF RefreshInit
<1> QED
    BY <1>1, <1>2, <1>3, RefreshAssumption DEF RefreshInv

(* The report after a step that changes the number done, or nothing of it. *)
LEMMA DoneIs ==
    ASSUME RefreshInv, NEW n \in Nat, progress' = [progress EXCEPT !.done = n]
    PROVE  /\ progress' \in [gen : 0 .. MaxGeneration, total : Nat, done : Nat, running : BOOLEAN]
           /\ progress'.gen = progress.gen /\ progress'.total = progress.total
           /\ progress'.done = n /\ progress'.running = progress.running
BY DEF RefreshInv

LEMMA PullKeeps == ASSUME RefreshInv, NEW g \in Generations, Pull(g) PROVE RefreshInv'
<1>1. JobIs(g, jobs[g].next + 1, jobs[g].flights + 1, jobs[g].settled)
    BY PullIs
<1>2. g = generation /\ jobs[g].next < jobs[g].total /\ UNCHANGED <<generation, progress>>
    BY DEF Pull
<1>3. progress.gen = generation /\ g # 0
    BY <1>2, NoJobIs DEF RefreshInv, Generations
<1>4. jobs[g] \in Job
    BY DEF RefreshInv
<1>5. progress.running
    BY <1>2, <1>3, <1>4 DEF RefreshInv, Job
<1> QED
    BY <1>1, <1>2, <1>3, <1>4, <1>5 DEF RefreshInv, JobIs, Job

LEMMA SkipKeeps == ASSUME RefreshInv, NEW g \in Generations, Skip(g) PROVE RefreshInv'
<1>1. JobIs(g, jobs[g].next + 1, jobs[g].flights, jobs[g].settled + 1)
    BY SkipIs
<1>2. /\ g = generation /\ jobs[g].next < jobs[g].total /\ UNCHANGED generation
      /\ progress' = [progress EXCEPT !.done = jobs'[g].settled]
    BY DEF Skip
<1>3. progress.gen = generation /\ g # 0
    BY <1>2, NoJobIs DEF RefreshInv, Generations
<1>4. jobs[g] \in Job /\ jobs'[g].settled = jobs[g].settled + 1 /\ jobs'[g].settled \in Nat
    BY <1>1 DEF RefreshInv, JobIs, Job
<1>5. progress.running
    BY <1>2, <1>3, <1>4 DEF RefreshInv, Job
<1>6. /\ progress' \in [gen : 0 .. MaxGeneration, total : Nat, done : Nat, running : BOOLEAN]
      /\ progress'.gen = progress.gen /\ progress'.total = progress.total
      /\ progress'.done = jobs[g].settled + 1 /\ progress'.running = progress.running
    BY <1>2, <1>4, DoneIs
<1> QED
    BY <1>1, <1>2, <1>3, <1>4, <1>5, <1>6 DEF RefreshInv, JobIs, Job

LEMMA SettleKeeps == ASSUME RefreshInv, NEW g \in Generations, Settle(g) PROVE RefreshInv'
<1>1. JobIs(g, jobs[g].next, jobs[g].flights - 1, IF g = generation THEN jobs[g].settled + 1 ELSE jobs[g].settled)
    BY SettleIs
<1>2. jobs[g] \in Job /\ jobs[g].flights > 0 /\ UNCHANGED generation
    BY DEF RefreshInv, Settle
<1>3. g <= progress.gen /\ g # 0
    BY <1>2, NoJobIs DEF RefreshInv, Generations
<1>4. CASE g = generation
    <2>1. progress' = [progress EXCEPT !.done = jobs'[g].settled]
        BY <1>4 DEF Settle
    <2>2. progress.gen = generation
        BY <1>3, <1>4 DEF RefreshInv, Generations
    <2>3. jobs'[g].settled = jobs[g].settled + 1 /\ jobs'[g].settled \in Nat
        BY <1>1, <1>2, <1>4 DEF JobIs, Job
    <2>4. progress.running
        BY <1>2, <1>3, <1>4, <2>2 DEF RefreshInv, Job
    <2>5. /\ progress' \in [gen : 0 .. MaxGeneration, total : Nat, done : Nat, running : BOOLEAN]
          /\ progress'.gen = progress.gen /\ progress'.total = progress.total
          /\ progress'.done = jobs[g].settled + 1 /\ progress'.running = progress.running
        BY <2>1, <2>3, DoneIs
    <2> QED
        BY <1>1, <1>2, <1>3, <1>4, <2>2, <2>3, <2>4, <2>5 DEF RefreshInv, JobIs, Job
<1>5. CASE g # generation
    <2>1. UNCHANGED progress
        BY <1>5 DEF Settle
    <2>2. /\ jobs' \in [Generations -> Job] /\ \A h \in Generations : h # g => jobs'[h] = jobs[h]
          /\ jobs'[g].total = jobs[g].total /\ jobs'[g].settled = jobs[g].settled /\ jobs'[g].over = jobs[g].over
        BY <1>1, <1>5 DEF JobIs
    <2>3. progress.gen \in 0 .. MaxGeneration /\ progress.gen <= generation /\ generation \in 0 .. MaxGeneration
        BY DEF RefreshInv
    <2>4. CASE progress.gen = g
        BY <1>2, <1>3, <1>5, <2>1, <2>2, <2>3, <2>4 DEF RefreshInv, Generations
    <2>5. CASE progress.gen # g
        <3>1. progress.gen \in Generations /\ jobs'[progress.gen] = jobs[progress.gen]
            BY <1>3, <2>2, <2>3, <2>5 DEF Generations
        <3>2. progress.gen = generation => jobs'[generation] = jobs[generation]
            BY <3>1
        <3>3. \A h \in Generations : h > progress.gen => jobs'[h] = NoJob
            BY <1>3, <2>2, <2>3 DEF RefreshInv, Generations
        <3> QED
            BY <1>2, <2>1, <2>2, <2>3, <3>1, <3>2, <3>3 DEF RefreshInv
    <2> QED
        BY <2>4, <2>5
<1> QED
    BY <1>4, <1>5

LEMMA PostKeeps == ASSUME RefreshInv, NEW total \in Totals, Post(total) PROVE RefreshInv'
<1>1. /\ generation < MaxGeneration /\ generation' = generation + 1
      /\ progress' = [gen |-> generation', total |-> total, done |-> 0, running |-> TRUE]
      /\ jobs' = [jobs EXCEPT ![generation'] = [NoJob EXCEPT !.total = total, !.over = FALSE]]
    BY DEF Post
<1>2. generation' \in Generations /\ generation' \in 0 .. MaxGeneration /\ total \in Nat
    BY <1>1, RefreshAssumption DEF RefreshInv, Generations
<1>3. PICK mine : mine = [NoJob EXCEPT !.total = total, !.over = FALSE]
    BY Zenon
<1>4. mine \in Job /\ mine.total = total /\ mine.next = 0 /\ mine.flights = 0 /\ mine.settled = 0 /\ ~mine.over
    BY <1>2, <1>3 DEF NoJob, Job
<1>5. jobs' = [jobs EXCEPT ![generation'] = mine]
    BY <1>1, <1>3, Zenon
<1>6. jobs' \in [Generations -> Job] /\ jobs'[generation'] = mine /\ \A h \in Generations : h # generation' => jobs'[h] = jobs[h]
    BY <1>2, <1>4, <1>5 DEF RefreshInv
<1>7. /\ progress' \in [gen : 0 .. MaxGeneration, total : Nat, done : Nat, running : BOOLEAN]
      /\ progress'.gen = generation' /\ progress'.total = total /\ progress'.done = 0 /\ progress'.running
    BY <1>1, <1>2
<1>8. \A h \in Generations : h > generation' => jobs'[h] = NoJob
    BY <1>1, <1>2, <1>6 DEF RefreshInv, Generations
<1> QED
    BY <1>2, <1>4, <1>6, <1>7, <1>8 DEF RefreshInv

LEMMA CancelKeeps == ASSUME RefreshInv, CancelRefresh PROVE RefreshInv'
<1>1. /\ generation < MaxGeneration /\ generation' = generation + 1 /\ UNCHANGED jobs
      /\ progress' = [progress EXCEPT !.running = FALSE]
    BY DEF CancelRefresh
<1>2. /\ progress' \in [gen : 0 .. MaxGeneration, total : Nat, done : Nat, running : BOOLEAN]
      /\ progress'.gen = progress.gen /\ progress'.total = progress.total
      /\ progress'.done = progress.done /\ ~progress'.running
    BY <1>1 DEF RefreshInv
<1>3. generation' \in 0 .. MaxGeneration /\ progress.gen < generation'
    BY <1>1, RefreshAssumption DEF RefreshInv
<1> QED
    BY <1>1, <1>2, <1>3 DEF RefreshInv

LEMMA FinishKeeps == ASSUME RefreshInv, NEW g \in Generations, Finish(g) PROVE RefreshInv'
<1>1. jobs \in [Generations -> Job] /\ jobs[g] \in Job /\ UNCHANGED generation
    BY DEF RefreshInv, Finish
<1>2. PICK mine : mine = [jobs[g] EXCEPT !.over = TRUE]
    BY Zenon
<1>3. jobs' = [jobs EXCEPT ![g] = mine]
    <2>1. jobs' = [jobs EXCEPT ![g].over = TRUE]
        BY DEF Finish
    <2> QED
        BY <1>2, <2>1, Zenon
<1>4. /\ mine \in Job /\ mine.total = jobs[g].total /\ mine.next = jobs[g].next
      /\ mine.flights = jobs[g].flights /\ mine.settled = jobs[g].settled
    BY <1>1, <1>2 DEF Job
<1>5. /\ jobs' \in [Generations -> Job] /\ jobs'[g] = mine
      /\ \A h \in Generations : h # g => jobs'[h] = jobs[h]
    BY <1>1, <1>3, <1>4
<1>6. ~jobs[g].over /\ jobs[g].flights = 0 /\ (g = generation => jobs[g].next = jobs[g].total)
    BY DEF Finish, Ran
<1>7. g <= progress.gen /\ g # 0 /\ progress.gen <= generation
    BY <1>6, NoJobIs DEF RefreshInv, Generations
<1>8. progress.gen \in Generations /\ generation \in 0 .. MaxGeneration
    BY <1>7 DEF RefreshInv, Generations
<1>9. \A h \in Generations : h > progress.gen => jobs'[h] = NoJob
    BY <1>5, <1>7, <1>8 DEF RefreshInv, Generations
<1>10. CASE g = generation
    <2>1. progress' = [progress EXCEPT !.done = jobs[g].settled, !.running = FALSE]
        BY <1>10 DEF Finish
    <2>2. /\ progress' \in [gen : 0 .. MaxGeneration, total : Nat, done : Nat, running : BOOLEAN]
          /\ progress'.gen = progress.gen /\ progress'.total = progress.total
          /\ progress'.done = jobs[g].settled /\ ~progress'.running
        BY <1>1, <2>1 DEF RefreshInv, Job
    <2>3. progress.gen = g
        BY <1>7, <1>8, <1>10 DEF Generations
    <2> QED
        BY <1>1, <1>4, <1>5, <1>6, <1>7, <1>8, <1>9, <1>10, <2>2, <2>3 DEF RefreshInv
<1>11. CASE g # generation
    <2>1. UNCHANGED progress
        BY <1>11 DEF Finish
    <2>2. progress.gen = generation => jobs'[generation] = jobs[generation]
        BY <1>5, <1>8, <1>11
    <2>3. jobs'[progress.gen].settled = jobs[progress.gen].settled /\ jobs'[progress.gen].total = jobs[progress.gen].total
        BY <1>4, <1>5, <1>8
    <2> QED
        BY <1>1, <1>5, <1>8, <1>9, <2>1, <2>2, <2>3 DEF RefreshInv
<1> QED
    BY <1>10, <1>11

LEMMA RefreshInvHolds == RefreshSpec => []RefreshInv
<1>1. ASSUME RefreshInv, [RefreshNext]_refreshVars
      PROVE  RefreshInv'
    <2>1. CASE UNCHANGED refreshVars
        BY <1>1, <2>1 DEF refreshVars, RefreshInv
    <2> QED
        BY <1>1, <2>1, PostKeeps, CancelKeeps, PullKeeps, SkipKeeps, SettleKeeps, FinishKeeps DEF RefreshNext
<1> QED
    BY <1>1, RefreshInvInit, PTL DEF RefreshSpec

(* The report is of the latest job alone, whatever of the earlier ones     *)
(* still settles, and ends at its total (refresh/route.ts:46-48, 130-131). *)
THEOREM ReportIsOfTheLatest == RefreshSpec => []ProgressIsTheLatest
<1>1. RefreshInv => ProgressIsTheLatest
    <2>1. ASSUME RefreshInv, progress.gen = generation, generation # 0, ~progress.running
          PROVE  progress.done = progress.total
        <3>1. generation \in Generations /\ jobs[generation] \in Job
            BY <2>1 DEF RefreshInv, Generations
        <3> QED
            BY <2>1, <3>1 DEF RefreshInv, Job
    <2> QED
        BY <2>1 DEF RefreshInv, ProgressIsTheLatest
<1> QED
    BY <1>1, RefreshInvHolds, PTL
---------------------------------------------------------------------------------
(* The tracks.  Whoever is about to write holds a track, and a recorder    *)
(* that runs is bound to one.                                              *)
(***************************************************************************)
Everyone == Clients \cup {Rec}

Holds == {"end", "create", "label", "append", "renameEnd", "renameNew", "renameLabel", "renameAppend"}
WritersHoldTracks == \A p \in Everyone : job[p] \in Holds => doc[p].number \in Numbers

Runs == {"running", "append", "renameAppend", "reload", "reloaded"}
RunningIsBound == job[Rec] \in Runs => activeTrackId \in Numbers

TracksInv == TracksTypeOK /\ WritersHoldTracks /\ RunningIsBound

Stages == {"idle", "look", "looked", "end", "list", "create", "renameEnd", "renameNew", "notify", "notified",
           "label", "renameLabel", "off", "boot", "booted", "running", "append", "renameAppend", "reload",
           "reloaded", "errored"}
Docs == [number : 0 .. MaxTracks, state : States]

(* The number of the last track of a set. *)
LEMMA MaxIsIn ==
    ASSUME NEW S \in SUBSET Numbers, S # {}
    PROVE  Max(S) \in S
<1> DEFINE T == {MaxTracks - n : n \in S}
<1>0. \A n \in S : n \in Nat /\ n <= MaxTracks /\ MaxTracks \in Nat
    BY TracksAssumption DEF Numbers
<1>1. T \in SUBSET Nat /\ T # {}
    BY <1>0
<1>2. PICK t \in T : \A u \in T : t <= u
    <2> HIDE DEF T
    <2> QED
        BY <1>1, Least
<1>3. PICK n \in S : t = MaxTracks - n
    BY <1>2
<1>4. \A m \in S : n >= m
    <2> TAKE m \in S
    <2>1. MaxTracks - n <= MaxTracks - m
        BY <1>2, <1>3
    <2> QED
        BY <1>0, <2>1
<1> QED
    BY <1>3, <1>4 DEF Max

LEMMA HighestIs == Highest(Exist) \in 0 .. MaxTracks /\ (Active # {} => Max(Active) \in Numbers)
<1>1. Exist \subseteq Numbers /\ Active \subseteq Numbers
    BY DEF Exist, Active
<1>2. CASE Exist = {}
    BY <1>1, <1>2, MaxIsIn, TracksAssumption DEF Highest
<1>3. CASE Exist # {}
    <2>1. Max(Exist) \in Numbers
        BY <1>1, <1>3, MaxIsIn
    <2>2. Highest(Exist) \in 0 .. MaxTracks
        BY <1>3, <2>1, TracksAssumption DEF Highest, Numbers
    <2> QED
        BY <1>1, <2>2, MaxIsIn
<1> QED
    BY <1>1, <1>2, <1>3, MaxIsIn

LEMMA Null0Is == Null0 \in Docs /\ Null0.number = 0
BY TracksAssumption DEF Null0, Docs, States

(* The invariant in pieces. *)
TracksSorts ==
    /\ file \in [Numbers -> States] /\ tmp \in [Numbers -> States]
    /\ job \in [Everyone -> Stages] /\ doc \in [Everyone -> Docs]
    /\ activeTrackId \in 0 .. MaxTracks
    /\ isLive \in BOOLEAN
    /\ latest \in Fixes /\ fix \in Fixes /\ appended \in Fixes

LEMMA SortsAreTypes == TracksTypeOK <=> TracksSorts
BY DEF TracksTypeOK, TracksSorts, Everyone, Stages, Docs

LEMMA TracksInvInit == TracksInit => TracksInv
<1> SUFFICES ASSUME TracksInit PROVE TracksInv
    OBVIOUS
<1>1. isLive \in BOOLEAN
    BY Zenon DEF TracksInit
<1>2. file \in [Numbers -> States] /\ tmp \in [Numbers -> States] /\ activeTrackId \in 0 .. MaxTracks
    BY TracksAssumption DEF TracksInit, States
<1>3. /\ job = [p \in Everyone |-> IF p = Rec THEN "off" ELSE "idle"] /\ doc = [p \in Everyone |-> Null0]
      /\ latest = "none" /\ fix = "none" /\ appended = "none"
    BY DEF TracksInit, Everyone
<1>4. job \in [Everyone -> Stages] /\ doc \in [Everyone -> Docs] /\ \A p \in Everyone : job[p] \in {"off", "idle"}
    BY <1>3, Null0Is DEF Stages
<1>5. TracksSorts
    BY <1>1, <1>2, <1>3, <1>4 DEF TracksSorts, Fixes
<1> QED
    BY <1>4, <1>5, SortsAreTypes DEF TracksInv, WritersHoldTracks, RunningIsBound, Everyone, Holds, Runs

(* A step of one of them, who holds a track if it is about to write. *)
LEMMA OneGoes ==
    ASSUME TracksInv, NEW p \in Everyone, NEW to \in Stages, Go(p, to),
           NEW d \in Docs, doc' = [doc EXCEPT ![p] = d], to \in Holds => d.number \in Numbers,
           file' \in [Numbers -> States], tmp' \in [Numbers -> States],
           activeTrackId' = activeTrackId \/ activeTrackId' \in Numbers,
           p = Rec /\ to \in Runs => activeTrackId' \in Numbers,
           isLive' \in BOOLEAN, latest' \in Fixes, fix' \in Fixes, appended' \in Fixes
    PROVE  TracksInv'
<1>1. TracksSorts
    BY SortsAreTypes DEF TracksInv
<1>2. job' = [job EXCEPT ![p] = to]
    BY DEF Go
<1>3. job' \in [Everyone -> Stages] /\ doc' \in [Everyone -> Docs] /\ Rec \in Everyone
    BY <1>1, <1>2 DEF TracksSorts, Everyone
<1>4. activeTrackId' \in 0 .. MaxTracks
    BY <1>1, TracksAssumption DEF TracksSorts, Numbers
<1>5. TracksSorts'
    BY <1>3, <1>4 DEF TracksSorts
<1>6. WritersHoldTracks'
    BY <1>1, <1>2, <1>3 DEF TracksSorts, TracksInv, WritersHoldTracks
<1>7. RunningIsBound'
    <2>1. CASE p = Rec
        BY <1>1, <1>2, <1>3, <2>1 DEF TracksSorts, RunningIsBound
    <2>2. CASE p # Rec
        BY <1>1, <1>2, <1>3, <2>2 DEF TracksSorts, TracksInv, RunningIsBound
    <2> QED
        BY <2>1, <2>2
<1>8. TracksTypeOK'
    BY <1>5 DEF TracksTypeOK, TracksSorts, Everyone, Stages, Docs
<1> QED
    BY <1>6, <1>7, <1>8 DEF TracksInv

LEMMA DocsAre ==
    ASSUME TracksInv, NEW p \in Everyone
    PROVE  /\ doc[p] \in Docs /\ doc = [doc EXCEPT ![p] = doc[p]] /\ doc[p].number \in 0 .. MaxTracks /\ doc[p].state \in States
           /\ \A s \in States : [doc[p] EXCEPT !.state = s] \in Docs /\ [doc[p] EXCEPT !.state = s].number = doc[p].number
<1>1. doc \in [Everyone -> Docs]
    BY SortsAreTypes DEF TracksInv, TracksSorts
<1> QED
    BY <1>1 DEF Docs

LEMMA LookKeeps == ASSUME TracksInv, NEW p \in Everyone, Look(p) PROVE TracksInv'
<1> DEFINE to == AfterLook[job[p]]
           d == IF Active = {} THEN Null0 ELSE [number |-> Max(Active), state |-> "active"]
<1>1. TracksSorts
    BY SortsAreTypes DEF TracksInv
<1>2. job[p] \in {"look", "notify", "boot", "reload"}
    BY DEF Look, AfterLook
<1>3. to \in {"looked", "notified", "booted", "reloaded"} /\ to \in Stages /\ to \notin Holds
      /\ (to \in Runs => job[p] \in Runs)
    BY <1>2 DEF AfterLook, Stages, Holds, Runs
<1>4. d \in Docs
    BY HighestIs, Null0Is, TracksAssumption DEF Docs, States, Numbers
<1>5. Go(p, to) /\ doc' = [doc EXCEPT ![p] = d] /\ appended' = "none" /\ UNCHANGED <<file, tmp, activeTrackId, isLive, latest, fix>>
    BY DEF Look, Unappended
<1> HIDE DEF to, d
<1>6. p = Rec /\ to \in Runs => activeTrackId' \in Numbers
    BY <1>3, <1>5 DEF TracksInv, RunningIsBound
<1> QED
    BY <1>1, <1>3, <1>4, <1>5, <1>6, OneGoes DEF TracksSorts, Fixes

LEMMA ListKeeps == ASSUME TracksInv, NEW p \in Everyone, List(p) PROVE TracksInv'
<1> DEFINE d == [number |-> Highest(Exist) + 1, state |-> "active"]
<1>1. TracksSorts
    BY SortsAreTypes DEF TracksInv
<1>2. Highest(Exist) < MaxTracks
    BY DEF List
<1>3. Highest(Exist) + 1 \in Numbers /\ Highest(Exist) + 1 \in 0 .. MaxTracks
    BY <1>2, HighestIs, TracksAssumption DEF Numbers
<1>4. d \in Docs /\ d.number \in Numbers
    BY <1>3 DEF Docs, States
<1>5. /\ Go(p, "create") /\ doc' = [doc EXCEPT ![p] = d] /\ appended' = "none"
      /\ UNCHANGED <<file, tmp, activeTrackId, isLive, latest, fix>>
    BY DEF List, Unappended
<1> HIDE DEF d
<1> QED
    BY <1>1, <1>4, <1>5, OneGoes DEF TracksSorts, Fixes, Stages, Runs

LEMMA WriteKeeps == ASSUME TracksInv, NEW p \in Everyone, Write(p) PROVE TracksInv'
<1> DEFINE to == AfterWrite[job[p]]
<1>1. TracksSorts
    BY SortsAreTypes DEF TracksInv
<1>2. job[p] \in {"end", "create", "label", "append"}
    BY DEF Write, AfterWrite
<1>3. to \in Stages /\ to \in Holds /\ job[p] \in Holds /\ (to \in Runs => job[p] \in Runs)
    BY <1>2 DEF AfterWrite, Stages, Holds, Runs
<1>4. doc[p].number \in Numbers
    BY <1>3 DEF TracksInv, WritersHoldTracks
<1>5. /\ Go(p, to) /\ tmp' = [tmp EXCEPT ![doc[p].number] = doc[p].state] /\ appended' = "none"
      /\ UNCHANGED <<file, doc, activeTrackId, isLive, latest, fix>>
    BY DEF Write, Unappended
<1>6. tmp' \in [Numbers -> States]
    BY <1>1, <1>5, DocsAre DEF TracksSorts
<1> HIDE DEF to
<1>7. p = Rec /\ to \in Runs => activeTrackId' \in Numbers
    BY <1>3, <1>5 DEF TracksInv, RunningIsBound
<1>8. doc' = [doc EXCEPT ![p] = doc[p]] /\ doc[p] \in Docs
    BY <1>5, DocsAre
<1> QED
    BY <1>1, <1>3, <1>4, <1>5, <1>6, <1>7, <1>8, OneGoes DEF TracksSorts, Fixes

LEMMA RenameKeeps == ASSUME TracksInv, NEW p \in Everyone, Rename(p) PROVE TracksInv'
<1> DEFINE to == AfterRename(p)
<1>1. TracksSorts
    BY SortsAreTypes DEF TracksInv
<1>2. job[p] \in {"renameEnd", "renameNew", "renameLabel", "renameAppend"}
    BY DEF Rename
<1>3. /\ to \in Stages /\ to \notin Holds /\ job[p] \in Holds
      /\ p = Rec /\ to \in Runs => job[p] \in Runs \/ job[p] = "renameNew"
    BY <1>2 DEF AfterRename, Stages, Holds, Runs
<1>4. doc[p].number \in Numbers
    BY <1>3 DEF TracksInv, WritersHoldTracks
<1>5. /\ Go(p, to) /\ doc' = [doc EXCEPT ![p] = Null0]
      /\ file' = [file EXCEPT ![doc[p].number] = tmp[doc[p].number]]
      /\ tmp' = [tmp EXCEPT ![doc[p].number] = "none"]
      /\ activeTrackId' = IF p = Rec /\ job[p] = "renameNew" THEN doc[p].number ELSE activeTrackId
      /\ UNCHANGED <<isLive, latest>> /\ appended' \in {fix, "none"} /\ fix' \in {fix, "none"}
    BY DEF Rename, Forget
<1>6. file' \in [Numbers -> States] /\ tmp' \in [Numbers -> States]
    BY <1>1, <1>4, <1>5 DEF TracksSorts, States
<1> HIDE DEF to
<1>7. p = Rec /\ to \in Runs => activeTrackId' \in Numbers
    BY <1>3, <1>4, <1>5 DEF TracksInv, RunningIsBound
<1>8. activeTrackId' = activeTrackId \/ activeTrackId' \in Numbers
    BY <1>4, <1>5
<1>9. isLive' \in BOOLEAN /\ latest' \in Fixes /\ fix' \in Fixes /\ appended' \in Fixes
    BY <1>1, <1>5 DEF TracksSorts, Fixes
<1> QED
    BY <1>3, <1>5, <1>6, <1>7, <1>8, <1>9, Null0Is, OneGoes

LEMMA RenameFailsKeeps == ASSUME TracksInv, NEW p \in Everyone, RenameFails(p) PROVE TracksInv'
<1> DEFINE to == IF p # Rec THEN "idle" ELSE IF job[p] = "renameAppend" THEN "reload" ELSE "errored"
<1>1. TracksSorts
    BY SortsAreTypes DEF TracksInv
<1>2. to \in Stages /\ to \notin Holds /\ (p = Rec /\ to \in Runs => job[Rec] \in Runs)
    BY DEF Stages, Holds, Runs
<1>3. /\ Go(p, to) /\ doc' = [doc EXCEPT ![p] = Null0] /\ fix' \in {fix, "none"} /\ appended' = "none"
      /\ UNCHANGED <<file, tmp, activeTrackId, isLive, latest>>
    BY DEF RenameFails, Forget
<1> HIDE DEF to
<1>4. p = Rec /\ to \in Runs => activeTrackId' \in Numbers
    BY <1>2, <1>3 DEF TracksInv, RunningIsBound
<1> QED
    BY <1>1, <1>2, <1>3, <1>4, Null0Is, OneGoes DEF TracksSorts, Fixes

LEMMA ReadKeeps ==
    ASSUME TracksInv, NEW c \in Clients, Looked(c) \/ Notified(c) \/ \E n \in Numbers : Relabel(c, n)
    PROVE  TracksInv'
<1>1. TracksSorts /\ c \in Everyone
    BY SortsAreTypes DEF TracksInv, Everyone
<1>2. CASE Looked(c) /\ doc[c].number = 0
    <2>1. Go(c, "list") /\ doc' = [doc EXCEPT ![c] = doc[c]] /\ appended' = "none"
          /\ UNCHANGED <<file, tmp, activeTrackId, isLive, latest, fix>>
        BY <1>1, <1>2, DocsAre DEF Looked, Unappended
    <2> QED
        BY <1>1, <2>1, DocsAre, OneGoes DEF TracksSorts, Fixes, Stages, Holds, Runs
<1>3. CASE Looked(c) /\ doc[c].number # 0
    <2> DEFINE d == [doc[c] EXCEPT !.state = "ended"]
    <2>1. Go(c, "end") /\ doc' = [doc EXCEPT ![c] = d] /\ appended' = "none"
          /\ UNCHANGED <<file, tmp, activeTrackId, isLive, latest, fix>>
        BY <1>1, <1>3 DEF Looked, Unappended
    <2>2. d \in Docs /\ d.number = doc[c].number
        <3>1. "ended" \in States
            BY DEF States
        <3> QED
            BY <1>1, <3>1, DocsAre
    <2>3. d.number \in Numbers
        BY <1>1, <1>3, <2>2, DocsAre, TracksAssumption DEF Numbers
    <2> HIDE DEF d
    <2> QED
        BY <1>1, <2>1, <2>2, <2>3, OneGoes DEF TracksSorts, Fixes, Stages, Runs
<1>4. CASE Notified(c)
    <2>1. /\ Go(c, "idle") /\ doc' = [doc EXCEPT ![c] = Null0] /\ appended' = "none"
          /\ activeTrackId' = activeTrackId \/ activeTrackId' \in Numbers
          /\ UNCHANGED <<file, tmp, isLive, latest, fix>>
        BY <1>1, <1>4, DocsAre, TracksAssumption DEF Notified, Unappended, Forget, Numbers
    <2> QED
        BY <1>1, <2>1, Null0Is, OneGoes DEF TracksSorts, Fixes, Stages, Holds, Runs
<1>5. ASSUME NEW n \in Numbers, Relabel(c, n) PROVE TracksInv'
    <2> DEFINE d == [number |-> n, state |-> file[n]]
    <2>1. Go(c, "label") /\ doc' = [doc EXCEPT ![c] = d] /\ appended' = "none"
          /\ UNCHANGED <<file, tmp, activeTrackId, isLive, latest, fix>>
        BY <1>5 DEF Relabel, Unappended
    <2>2. d \in Docs /\ d.number \in Numbers
        BY <1>1, TracksAssumption DEF TracksSorts, Docs, Numbers
    <2> HIDE DEF d
    <2> QED
        BY <1>1, <2>1, <2>2, OneGoes DEF TracksSorts, Fixes, Stages, Runs
<1> QED
    BY <1>2, <1>3, <1>4, <1>5

LEMMA RecorderKeeps == ASSUME TracksInv, Booted \/ Reloaded \/ AppendFix PROVE TracksInv'
<1>1. TracksSorts /\ Rec \in Everyone /\ doc[Rec].number \in 0 .. MaxTracks /\ doc[Rec] \in Docs
    BY SortsAreTypes, DocsAre DEF TracksInv, Everyone
<1>2. CASE Booted /\ doc[Rec].number = 0
    <2>1. Go(Rec, "list") /\ doc' = [doc EXCEPT ![Rec] = Null0] /\ appended' = "none"
          /\ UNCHANGED <<file, tmp, activeTrackId, isLive, latest, fix>>
        BY <1>2 DEF Booted, Unappended, Forget
    <2> QED
        BY <1>1, <2>1, Null0Is, OneGoes DEF TracksSorts, Fixes, Stages, Holds, Runs
<1>3. CASE Booted /\ doc[Rec].number # 0
    <2>1. /\ Go(Rec, "running") /\ doc' = [doc EXCEPT ![Rec] = Null0] /\ appended' = "none"
          /\ activeTrackId' \in Numbers
          /\ UNCHANGED <<file, tmp, isLive, latest, fix>>
        BY <1>1, <1>3, TracksAssumption DEF Booted, Unappended, Forget, Numbers
    <2> QED
        BY <1>1, <2>1, Null0Is, OneGoes DEF TracksSorts, Fixes, Stages, Holds
<1>4. CASE Reloaded
    <2>1. /\ Go(Rec, "running") /\ doc' = [doc EXCEPT ![Rec] = Null0] /\ appended' = "none" /\ job[Rec] \in Runs
          /\ UNCHANGED <<file, tmp, isLive, latest, fix>>
          /\ activeTrackId' = IF doc[Rec].number = 0 THEN activeTrackId ELSE doc[Rec].number
        BY <1>4 DEF Reloaded, Unappended, Forget, Runs
    <2>2. activeTrackId' \in Numbers
        BY <1>1, <2>1, TracksAssumption DEF Numbers, TracksInv, RunningIsBound
    <2> QED
        BY <1>1, <2>1, <2>2, Null0Is, OneGoes DEF TracksSorts, Fixes, Stages, Holds
<1>5. CASE AppendFix /\ file[activeTrackId] = "ended"
    <2>1. /\ Go(Rec, "reload") /\ doc' = [doc EXCEPT ![Rec] = doc[Rec]] /\ appended' = "none" /\ job[Rec] \in Runs
          /\ UNCHANGED <<file, tmp, activeTrackId, isLive, latest, fix>>
        BY <1>1, <1>5, DocsAre DEF AppendFix, Runs
    <2>2. activeTrackId' \in Numbers
        BY <2>1 DEF TracksInv, RunningIsBound
    <2> QED
        BY <1>1, <2>1, <2>2, OneGoes DEF TracksSorts, Fixes, Stages, Holds
<1>6. CASE AppendFix /\ file[activeTrackId] # "ended"
    <2> DEFINE d == [number |-> activeTrackId, state |-> "active"]
    <2>1. /\ Go(Rec, "append") /\ doc' = [doc EXCEPT ![Rec] = d] /\ appended' = "none" /\ job[Rec] \in Runs
          /\ fix' = latest /\ UNCHANGED <<file, tmp, activeTrackId, isLive, latest>>
        BY <1>6 DEF AppendFix, Runs
    <2>2. activeTrackId \in Numbers
        BY <2>1 DEF TracksInv, RunningIsBound
    <2>3. d \in Docs /\ d.number \in Numbers
        BY <1>1, <2>2 DEF TracksSorts, Docs, States
    <2> HIDE DEF d
    <2> QED
        BY <1>1, <2>1, <2>2, <2>3, OneGoes DEF TracksSorts, Fixes, Stages
<1> QED
    BY <1>2, <1>3, <1>4, <1>5, <1>6

(* Steps that move no writer, or end them all. *)
LEMMA OthersKeep ==
    ASSUME TracksInv, file' \in [Numbers -> States], tmp' = tmp, job' \in [Everyone -> Stages],
           doc' \in [Everyone -> Docs],
           \A p \in Everyone : job'[p] \in Holds => job[p] \in Holds /\ doc'[p] = doc[p],
           job'[Rec] \in Runs => job[Rec] \in Runs /\ activeTrackId' = activeTrackId,
           activeTrackId' \in {0, activeTrackId},
           isLive' \in BOOLEAN, latest' \in Fixes, fix' \in Fixes, appended' \in Fixes
    PROVE  TracksInv'
<1>1. TracksSorts
    BY SortsAreTypes DEF TracksInv
<1>2. TracksSorts'
    BY <1>1, TracksAssumption DEF TracksSorts
<1>3. TracksTypeOK'
    BY <1>2 DEF TracksTypeOK, TracksSorts, Everyone, Stages, Docs
<1> QED
    BY <1>3 DEF TracksInv, WritersHoldTracks, RunningIsBound

LEMMA TracksInvNext == TracksInv /\ [TracksNext]_tracksVars => TracksInv'
<1> SUFFICES ASSUME TracksInv, [TracksNext]_tracksVars PROVE TracksInv'
    OBVIOUS
<1>1. TracksSorts /\ Rec \in Everyone /\ Clients \subseteq Everyone
    BY SortsAreTypes DEF TracksInv, Everyone
<1>2. CASE EnsureRecorder \/ \E c \in Clients : Interrupt(c)
    <2>1. /\ UNCHANGED <<file, tmp, doc, activeTrackId, isLive, latest, fix>> /\ appended' = "none"
        BY <1>2 DEF EnsureRecorder, Interrupt, Unappended
    <2>2. /\ job' \in [Everyone -> Stages]
          /\ \A p \in Everyone : job'[p] \in Holds => job'[p] = job[p]
          /\ job'[Rec] \in Runs => job'[Rec] = job[Rec]
        <3>1. CASE EnsureRecorder
            <4>1. job' = [job EXCEPT ![Rec] = "boot"]
                BY <3>1 DEF EnsureRecorder, Go
            <4> QED
                BY <1>1, <4>1 DEF TracksSorts, Stages, Holds, Runs
        <3>2. ASSUME NEW c \in Clients, Interrupt(c)
              PROVE  /\ job' \in [Everyone -> Stages]
                     /\ \A p \in Everyone : job'[p] \in Holds => job'[p] = job[p]
                     /\ job'[Rec] \in Runs => job'[Rec] = job[Rec]
            <4>1. /\ job' = [job EXCEPT ![c] = "look", ![Rec] = IF job'[Rec] = "boot" THEN "boot" ELSE @]
                  \/ job' = [job EXCEPT ![c] = "look", ![Rec] = "boot"]
                  \/ job' = [job EXCEPT ![c] = "look"]
                BY <1>1, <3>2 DEF Interrupt, TracksSorts
            <4> QED
                BY <1>1, <3>2, <4>1 DEF Interrupt, TracksSorts, Stages, Holds, Runs
        <3> QED
            BY <1>2, <3>1, <3>2
    <2> QED
        BY <1>1, <2>1, <2>2, OthersKeep DEF TracksSorts, Fixes
<1>3. CASE SwapSource \/ Fix \/ StreamEnds \/ \E n \in Numbers : DeleteTrack(n)
    <2>1. UNCHANGED <<tmp, job, doc, activeTrackId, fix>> /\ appended' = "none"
        BY <1>3 DEF SwapSource, Fix, StreamEnds, DeleteTrack, Unappended
    <2>2. file' \in [Numbers -> States]
        BY <1>1, <1>3 DEF SwapSource, Fix, StreamEnds, DeleteTrack, TracksSorts, States
    <2>3. isLive' \in BOOLEAN
        BY <1>1, <1>3, Zenon DEF SwapSource, Fix, StreamEnds, DeleteTrack, TracksSorts
    <2>4. latest' \in Fixes
        BY <1>1, <1>3 DEF SwapSource, Fix, StreamEnds, DeleteTrack, TracksSorts, Fixes
    <2> QED
        BY <1>1, <2>1, <2>2, <2>3, <2>4, OthersKeep DEF TracksSorts, Fixes
<1>4. CASE RestartServer
    <2>1. /\ job' = [p \in Everyone |-> IF p = Rec THEN "off" ELSE "idle"] /\ doc' = [p \in Everyone |-> Null0]
          /\ activeTrackId' = 0 /\ latest' = "none" /\ fix' = "none" /\ appended' = "none"
          /\ UNCHANGED <<file, tmp, isLive>>
        BY <1>4 DEF RestartServer, Everyone
    <2>2. job' \in [Everyone -> Stages] /\ \A p \in Everyone : job'[p] \notin Holds /\ job'[p] \notin Runs
        BY <2>1 DEF Stages, Holds, Runs
    <2>3. doc' \in [Everyone -> Docs]
        BY <2>1, Null0Is
    <2> QED
        BY <1>1, <2>1, <2>2, <2>3, OthersKeep DEF TracksSorts, Fixes
<1>5. CASE UNCHANGED tracksVars
    BY <1>1, <1>5, OthersKeep DEF tracksVars, TracksSorts
<1>6. ASSUME NEW p \in Everyone, Proceed(p) PROVE TracksInv'
    BY <1>6, LookKeeps, ListKeeps, WriteKeeps, RenameKeeps, RenameFailsKeeps DEF Proceed
<1> QED
    BY <1>1, <1>2, <1>3, <1>4, <1>5, <1>6, ReadKeeps, RecorderKeeps DEF TracksNext

(* A recorder that runs is bound to a track, and whoever is about to write *)
(* holds one: no point and no write is ever for no track, through          *)
(* interrupts, failed renames and restarts (track-recorder.ts:61-65,       *)
(* 152-161).                                                               *)
THEOREM RecorderIsBound == TracksSpec => [](TracksTypeOK /\ WritersHoldTracks /\ RunningIsBound)
BY TracksInvInit, TracksInvNext, PTL DEF TracksSpec, TracksInv

---------------------------------------------------------------------------------
(* The composition.  A behaviour behind the pages is one of each part.     *)
LEMMA OnePartMoves ==
    ASSUME [WebNext]_webVars
    PROVE  [TracksNext]_tracksVars /\ [PollNext]_pollVars /\ [RefreshNext]_refreshVars
<1>1. CASE UNCHANGED webVars
    BY <1>1 DEF webVars
<1>2. CASE TracksStep
    BY <1>2 DEF TracksStep
<1>3. CASE PollStep
    BY <1>3 DEF PollStep
<1>4. CASE RefreshStep
    BY <1>4 DEF RefreshStep
<1> QED
    BY <1>1, <1>2, <1>3, <1>4 DEF WebNext

(* Web implements the specification of the poll and of the refresh, which  *)
(* assume no fairness.                                                     *)
THEOREM WebIsItsParts == WebSpec => PollSpec /\ RefreshSpec
<1>1. WebInit => PollInit /\ RefreshInit
    BY DEF WebInit
<1>2. [WebNext]_webVars => [PollNext]_pollVars /\ [RefreshNext]_refreshVars
    BY OnePartMoves
<1> QED
    BY <1>1, <1>2, PTL DEF WebSpec, PollSpec, RefreshSpec

(* What the tracks, the polls and the refresh promise holds of the         *)
(* behaviours that are model-checked.                                      *)
THEOREM WebIsSafe ==
    WebSpec => NeverGoesBack /\ []ProgressIsTheLatest /\ [](WritersHoldTracks /\ RunningIsBound)
<1>1. WebInit => TracksInit
    BY DEF WebInit
<1>2. TracksInv /\ [WebNext]_webVars => TracksInv'
    BY OnePartMoves, TracksInvNext
<1>3. TracksInv => WritersHoldTracks /\ RunningIsBound
    BY DEF TracksInv
<1> QED
    BY <1>1, <1>2, <1>3, TracksInvInit, WebIsItsParts, ShownOnlyGrowsNewer, ReportIsOfTheLatest, PTL DEF WebSpec
=================================================================================
