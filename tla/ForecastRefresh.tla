------------------------------- MODULE ForecastRefresh -------------------------------
(***************************************************************************)
(* The background refresh of the forecast grids                            *)
(* (packages/web/src/app/api/forecast/refresh/route.ts): a job per POST,   *)
(* whose workers fetch its tasks; a later POST or a DELETE supersedes it   *)
(* by the generation token and aborts its downloads; one progress report,  *)
(* polled by the chart.  A fetch that is aborted settles like one that     *)
(* fails.  The pools of a job, one per model, are one here.                *)
(***************************************************************************)
EXTENDS Naturals

CONSTANTS
    Totals,     \* the numbers of tasks a job may have
    Concurrency,    \* POOL_CONCURRENCY
    MaxGeneration   \* bound on the token

ASSUME RefreshAssumption == Totals \subseteq Nat /\ Concurrency \in Nat \ {0} /\ MaxGeneration \in Nat

VARIABLES
    generation,
    progress,   \* the latest job's
    jobs        \* the jobs by their tokens

refreshVars == <<generation, progress, jobs>>

Generations == 1 .. MaxGeneration
MaxTotal == CHOOSE n \in Totals : \A m \in Totals : m <= n
Counts == 0 .. MaxTotal
NoJob == [total |-> 0, next |-> 0, flights |-> 0, settled |-> 0, over |-> TRUE]

RefreshTypeOK ==
    /\ generation \in 0 .. MaxGeneration
    /\ progress \in [gen : 0 .. MaxGeneration, total : Counts, done : Counts, running : BOOLEAN]
    /\ jobs \in [Generations -> [total : Counts, next : Counts, flights : 0 .. Concurrency, settled : Counts, over : BOOLEAN]]

RefreshInit ==
    /\ generation = 0
    /\ progress = [gen |-> 0, total |-> 0, done |-> 0, running |-> FALSE]
    /\ jobs = [g \in Generations |-> NoJob]

---------------------------------------------------------------------------------
(* POST: a new job; the downloads of the one before are aborted. *)
Post(total) ==
    /\ generation < MaxGeneration
    /\ generation' = generation + 1
    /\ progress' = [gen |-> generation', total |-> total, done |-> 0, running |-> TRUE]
    /\ jobs' = [jobs EXCEPT ![generation'] = [NoJob EXCEPT !.total = total, !.over = FALSE]]

CancelRefresh ==
    /\ generation < MaxGeneration
    /\ generation' = generation + 1
    /\ progress' = [progress EXCEPT !.running = FALSE]
    /\ UNCHANGED jobs

(* A worker pulls the next task, and starts its fetch. *)
Pull(g) ==
    /\ g = generation
    /\ jobs[g].next < jobs[g].total
    /\ jobs[g].flights < Concurrency
    /\ jobs' = [jobs EXCEPT ![g].next = @ + 1, ![g].flights = @ + 1]
    /\ UNCHANGED <<generation, progress>>

(* progress.done = ++settled. *)
Counted(g) == [jobs[g] EXCEPT !.settled = @ + 1]

(* A worker whose task is cached at the present run goes on to the next.   *)
(* What the workers that are fetching do not leave is skipped with it.     *)
Skip(g) ==
    /\ g = generation
    /\ jobs[g].next < jobs[g].total
    /\ jobs[g].flights < Concurrency
    /\ jobs' = [jobs EXCEPT ![g] = [Counted(g) EXCEPT !.next = @ + 1]]
    /\ progress' = [progress EXCEPT !.done = jobs'[g].settled]
    /\ UNCHANGED generation

(* Mutant: a fetch counts whichever job it was of. *)
SettleCountsAll(g) ==
    /\ jobs[g].flights > 0
    /\ jobs' = [jobs EXCEPT ![g] = [Counted(g) EXCEPT !.flights = @ - 1]]
    /\ progress' = [progress EXCEPT !.done = jobs'[g].settled]
    /\ UNCHANGED generation

(* A fetch succeeds, fails or was aborted. *)
Settle(g) ==
    /\ jobs[g].flights > 0
    /\ IF g = generation
       THEN /\ jobs' = [jobs EXCEPT ![g] = [Counted(g) EXCEPT !.flights = @ - 1]]
            /\ progress' = [progress EXCEPT !.done = jobs'[g].settled]
       ELSE jobs' = [jobs EXCEPT ![g].flights = @ - 1] /\ UNCHANGED progress
    /\ UNCHANGED generation

Ran(g) == ~jobs[g].over /\ jobs[g].flights = 0 /\ (g # generation \/ jobs[g].next = jobs[g].total)

(* All workers returned. *)
Finish(g) ==
    /\ Ran(g)
    /\ jobs' = [jobs EXCEPT ![g].over = TRUE]
    /\ progress' = IF g = generation THEN [progress EXCEPT !.done = jobs[g].settled, !.running = FALSE] ELSE progress
    /\ UNCHANGED generation

RefreshNext ==
    \/ CancelRefresh \/ \E total \in Totals : Post(total)
    \/ \E g \in Generations : Pull(g) \/ Skip(g) \/ Settle(g) \/ Finish(g)

RefreshSpec == RefreshInit /\ [][RefreshNext]_refreshVars

---------------------------------------------------------------------------------
(* The report is the latest job's alone: it runs only while that job does, *)
(* counts what that job settled and, unless that was cancelled, ends at    *)
(* its total, failures included (route.ts:46-48).                          *)
ProgressIsTheLatest ==
    /\ progress.running => progress.gen = generation /\ ~jobs[progress.gen].over
    /\ progress.gen # 0 => progress.done = jobs[progress.gen].settled
    /\ (progress.gen = generation /\ generation # 0 /\ ~progress.running) => progress.done = progress.total
=================================================================================
