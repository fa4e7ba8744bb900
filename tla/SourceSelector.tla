------------------------------ MODULE SourceSelector ------------------------------
(***************************************************************************)
(* subscribeSelected (packages/core/src/selector.ts): the samples of one   *)
(* channel of the bus, arbitrated between the sources that publish it by   *)
(* the first rule of the configuration that matches it.  Samples are       *)
(* stamped by the clock of the host, which can be set back, or by the      *)
(* session that is replayed after a live source: the stamps are kept as    *)
(* ages, and an age is negative while the stamp is ahead of the clock.     *)
(***************************************************************************)
EXTENDS Integers, SequencesExt

CONSTANTS
    Tags,       \* Sample.source: the sources that publish the channel
    Pattern,    \* the entries of rule.sources each tag matches, by index from 1: they may overlap
    Fresh,      \* rule.freshnessSeconds, in ticks
    MaxBack     \* bound on how far the clock is set back in a behaviour

ASSUME TagsAssumption == Pattern \in [Tags -> SUBSET (Nat \ {0})]
ASSUME FreshAssumption == Fresh \in Nat /\ MaxBack \in Nat

VARIABLES
    rule,       \* a rule of the configuration matches the channel
    blocked,    \* the tags its blocked list matches
    age,        \* now - t_ns of the last arbitrated sample of each tag; Old for older, or none
    back,       \* how far the clock was set back
    order,      \* the tags in the order they were first arbitrated: the Map's
    heard,      \* history: true ticks since each tag was arbitrated, up to Old
    fed,        \* history: the tag arbitrated in the last step
    emitted     \* history: the tag whose sample was handed on in the last step

selectorVars == <<rule, blocked, age, back, order, heard, fed, emitted>>

(* Beyond Fresh however often the clock is still set back. *)
Old == Fresh + MaxBack + 1
Ages == -MaxBack .. Old
Patterns == UNION {Pattern[t] : t \in Tags}

SelectorTypeOK ==
    /\ rule \in BOOLEAN
    /\ blocked \subseteq Tags
    /\ age \in [Tags -> Ages]
    /\ back \in 0 .. MaxBack
    /\ order \in Seq(Tags)
    /\ heard \in [Tags -> 0 .. Old]
    /\ fed \subseteq Tags
    /\ emitted \subseteq Tags

SelectorInit ==
    /\ rule \in BOOLEAN
    /\ blocked = {}
    /\ age = [t \in Tags |-> Old]
    /\ back = 0
    /\ order = <<>>
    /\ heard = [t \in Tags |-> Old]
    /\ fed = {}
    /\ emitted = {}

---------------------------------------------------------------------------------
(* The freshest of the tags that match an entry and are not blocked, first *)
(* in the Map of those with the same stamp; a set of one, or none.         *)
Freshest(map, ages, p) ==
    LET own == {t \in Range(map) \ blocked : p \in Pattern[t]}
        best == {t \in own : \A u \in own : ages[t] <= ages[u]}
        first == SelectInSeq(map, LAMBDA t : t \in best)
    IN  IF best = {} THEN {} ELSE {map[first]}

(* Mutant: the age of the preferred source is not looked at. *)
QualifiesAlways(map, ages, p) == Freshest(map, ages, p) # {}

Qualifies(map, ages, p) == \E t \in Freshest(map, ages, p) : ages[t] \in 0 .. Fresh

(* pickWinner: the freshest tag of the first entry whose freshest is fresh. *)
Winner(map, ages) ==
    LET fresh == {p \in Patterns : Qualifies(map, ages, p)}
    IN  IF fresh = {} THEN {} ELSE Freshest(map, ages, Min(fresh))

Handle(t) == emitted' = {t}

Discard == emitted' = {}

(* Mutant: the channel's state is updated by the samples emitted only. *)
PublishSampleForgets(t) ==
    /\ fed' = {t}
    /\ IF ~rule THEN Handle(t) /\ UNCHANGED <<age, heard, order>>
       ELSE IF Pattern[t] = {} THEN Discard /\ UNCHANGED <<age, heard, order>>
       ELSE /\ order' = IF Contains(order, t) THEN order ELSE Append(order, t)
            /\ heard' = [heard EXCEPT ![t] = 0]
            /\ IF t \in Winner(order', [age EXCEPT ![t] = 0]) THEN Handle(t) /\ age' = [age EXCEPT ![t] = 0]
               ELSE Discard /\ UNCHANGED age
    /\ UNCHANGED <<rule, blocked, back>>

(* A sample with the present stamp is published. *)
PublishSample(t) ==
    /\ fed' = {t}
    /\ IF ~rule THEN Handle(t) /\ UNCHANGED <<age, heard, order>>
       ELSE IF Pattern[t] = {} THEN Discard /\ UNCHANGED <<age, heard, order>>
       ELSE /\ order' = IF Contains(order, t) THEN order ELSE Append(order, t)
            /\ age' = [age EXCEPT ![t] = 0]
            /\ heard' = [heard EXCEPT ![t] = 0]
            /\ IF t \in Winner(order', age') THEN Handle(t) ELSE Discard
    /\ UNCHANGED <<rule, blocked, back>>

Silent == fed' = {} /\ emitted' = {}

(* getConfig is called on every sample: setSourcePriority takes hold.  The *)
(* closure's state survives it.                                            *)
ConfigureSources ==
    /\ rule' \in BOOLEAN
    /\ blocked' \in {{}} \cup {{t} : t \in Tags}
    /\ <<rule, blocked>>' # <<rule, blocked>>
    /\ Silent
    /\ UNCHANGED <<age, back, order, heard>>

Older(a) == IF a >= Old - 1 THEN Old ELSE a + 1

SelectorTick ==
    /\ age' = [t \in Tags |-> Older(age[t])]
    /\ heard' = [t \in Tags |-> Older(heard[t])]
    /\ Silent
    /\ UNCHANGED <<rule, blocked, back, order>>

Younger(a) == IF a = Old THEN Old ELSE a - 1

(* The clock of the host is set back, or an older session is replayed. *)
SetBack ==
    /\ back < MaxBack
    /\ back' = back + 1
    /\ age' = [t \in Tags |-> Younger(age[t])]
    /\ Silent
    /\ UNCHANGED <<rule, blocked, order, heard>>

SelectorNext ==
    \/ ConfigureSources \/ SelectorTick \/ SetBack
    \/ \E t \in Tags : PublishSample(t)

(* Clocks go on. *)
SelectorSpec == SelectorInit /\ [][SelectorNext]_selectorVars /\ WF_selectorVars(SelectorTick)

---------------------------------------------------------------------------------
(* While a source is heard within the freshness window, no sample is used  *)
(* of another that matches later entries of the rule only, as long as the  *)
(* clock was not set back (selector.ts:8-12): no channel alternates        *)
(* between two compasses.                                                  *)
(* A blocked source is not used, nor does it hold back another.            *)
PreferredHolds ==
    rule => \A t \in emitted :
        /\ t \notin blocked
        /\ back = 0 => \A u \in Tags \ blocked :
               (\E q \in Pattern[u] : \A p \in Pattern[t] : q < p) => heard[u] > Fresh

(* Once the configuration rests, a channel one of whose sources is listed, *)
(* not blocked and heard again and again is used again and again,          *)
(* whichever others fall silent.                                           *)
ChannelLives ==
    \A t \in Tags :
        (/\ <>[][UNCHANGED <<rule, blocked>>]_selectorVars
         /\ []<>(fed = {t} /\ rule /\ Pattern[t] # {} /\ t \notin blocked)) => []<>(emitted # {})
=================================================================================
