----------------------------------- MODULE UsePoll -----------------------------------
(***************************************************************************)
(* usePoll (packages/web/src/hooks/use-poll.ts): the registry's entry of   *)
(* one URL, its interval, its fetches and the components that share it.    *)
(* The data are the version of the server's state that answered the fetch. *)
(* Once the last component is gone the entry is gone: a fetch that settles *)
(* after that tells nobody.                                                *)
(***************************************************************************)
EXTENDS Integers

CONSTANTS
    Components,     \* the callers of usePoll with this URL
    MaxVersion      \* bound on the versions of the server's state

ASSUME PollAssumption == MaxVersion \in Nat

VARIABLES
    listeners,  \* the components mounted; the entry and its interval exist if there are any
    fetching,   \* entry.fetching
    flights,    \* the versions of the fetches under way
    polled,     \* entry.latest: a version, or Loading
    shown,      \* the state of each component
    version     \* the server's

pollVars == <<listeners, fetching, flights, polled, shown, version>>

Loading == -1

PollTypeOK ==
    /\ listeners \subseteq Components
    /\ fetching \in BOOLEAN
    /\ flights \subseteq 0 .. MaxVersion
    /\ polled \in Loading .. MaxVersion
    /\ shown \in [Components -> Loading .. MaxVersion]
    /\ version \in 0 .. MaxVersion

PollInit ==
    /\ listeners = {}
    /\ fetching = FALSE
    /\ flights = {}
    /\ polled = Loading
    /\ shown = [c \in Components |-> Loading]
    /\ version = 0

---------------------------------------------------------------------------------
(* subscribe: the first component makes the entry and fetches at once. *)
Subscribe(c) ==
    /\ c \notin listeners
    /\ listeners' = listeners \cup {c}
    /\ IF listeners = {}
       THEN fetching' = TRUE /\ flights' = {version} /\ polled' = Loading
       ELSE UNCHANGED <<fetching, flights, polled>>
    /\ shown' = [shown EXCEPT ![c] = polled']
    /\ UNCHANGED version

Unsubscribe(c) ==
    /\ c \in listeners
    /\ listeners' = listeners \ {c}
    /\ IF listeners' = {} THEN fetching' = FALSE /\ flights' = {} ELSE UNCHANGED <<fetching, flights>>
    /\ UNCHANGED <<polled, shown, version>>

(* Mutant: a fetch is started whether or not one is under way. *)
DoFetchStacks ==
    /\ listeners # {}
    /\ fetching' = TRUE
    /\ flights' = flights \cup {version}
    /\ UNCHANGED <<listeners, polled, shown, version>>

(* The interval's doFetch. *)
DoFetch ==
    /\ listeners # {}
    /\ ~fetching
    /\ fetching' = TRUE
    /\ flights' = flights \cup {version}
    /\ UNCHANGED <<listeners, polled, shown, version>>

(* notify. *)
Notify(state) ==
    /\ polled' = state
    /\ shown' = [c \in Components |-> IF c \in listeners THEN state ELSE shown[c]]

Answer(v) ==
    /\ v \in flights
    /\ flights' = flights \ {v}
    /\ fetching' = FALSE
    /\ Notify(v)
    /\ UNCHANGED <<listeners, version>>

(* A failed fetch keeps the data. *)
FetchFails(v) ==
    /\ v \in flights
    /\ flights' = flights \ {v}
    /\ fetching' = FALSE
    /\ Notify(polled)
    /\ UNCHANGED <<listeners, version>>

ServerChanges ==
    /\ version < MaxVersion
    /\ version' = version + 1
    /\ UNCHANGED <<listeners, fetching, flights, polled, shown>>

PollNext ==
    \/ DoFetch \/ ServerChanges
    \/ \E c \in Components : Subscribe(c) \/ Unsubscribe(c)
    \/ \E v \in 0 .. MaxVersion : Answer(v) \/ FetchFails(v)

PollSpec == PollInit /\ [][PollNext]_pollVars

---------------------------------------------------------------------------------
(* A component never goes back to older data while it is mounted, however  *)
(* slow the answers and whoever else mounts and unmounts (use-poll.ts:94). *)
NeverGoesBack ==
    [][\A c \in listeners \cap listeners' : shown'[c] >= shown[c]]_pollVars
=================================================================================
