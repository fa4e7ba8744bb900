-------------------------------- MODULE ConfigStore --------------------------------
(***************************************************************************)
(* The configuration database (packages/db/src/config-store.ts): open(),   *)
(* whose statements a crash or an error may cut anywhere, with the         *)
(* migration of the sail wardrobe from version 2 to 3; the setters that    *)
(* write a row and then emit, which only the end of the process can come   *)
(* between; the polar revisions and the one that is active.  The wardrobe  *)
(* stands for every key that has a row and a subject; of the sails only    *)
(* whether their regions are painted is kept.  A sail_config_id or a mode  *)
(* is its place in the order of the strings.                               *)
(***************************************************************************)
EXTENDS Naturals, SequencesExt

CONSTANTS
    Boats,          \* values of G5000_BOAT_ID
    Modes,          \* PolarMode
    Configs,        \* sail_config_id: a mode, or any string that is posted
    MaxRevisions,   \* bound on the revisions stored
    MaxStamp        \* bound on the clock, in seconds

ASSUME ConfigAssumption == Boats # {} /\ Modes # {} /\ MaxRevisions \in Nat /\ MaxStamp \in Nat
ASSUME ConfigsAssumption == Modes \subseteq Configs /\ Configs \subseteq Nat

VARIABLES
    stage,          \* how far open() is; "open" once it returned, or what is not emitted yet
    activeBoatId,   \* G5000_BOAT_ID of the process
    stamp,          \* the clock, which may be set back
    wardrobeRow,    \* sail_wardrobe: the row, or NoRow
    mapRows,        \* crossover_map: the (boat, mode) with painted cells
    revisionRows,   \* polar_revisions, in the order of their rowids
    sails,          \* the subject of the wardrobe
    revisions,      \* the subject polarRevisions: rowids in the order of the Map
    paint           \* history: the (boat, mode) whose paint is to be in the database

configVars == <<stage, activeBoatId, stamp, wardrobeRow, mapRows, revisionRows, sails, revisions, paint>>

NoRow == [version |-> 0, boatId |-> CHOOSE b \in Boats : TRUE, activeMode |-> CHOOSE m \in Modes : TRUE, painted |-> FALSE]
Wardrobes == [version : {2, 3}, boatId : Boats, activeMode : Modes, painted : BOOLEAN]
Revisions == [boatId : Boats, config : Configs, mode : Modes, createdAt : 0 .. MaxStamp]

ConfigTypeOK ==
    /\ stage \in {"down", "tables", "wardrobe", "dropped", "open", "sailsWritten", "revisionWritten"}
    /\ activeBoatId \in Boats
    /\ stamp \in 0 .. MaxStamp
    /\ wardrobeRow \in Wardrobes \cup {NoRow}
    /\ mapRows \subseteq Boats \X Modes
    /\ revisionRows \in Seq(Revisions)
    /\ sails \in Wardrobes \cup {NoRow}
    /\ revisions \in Seq(1 .. Len(revisionRows))
    /\ paint \subseteq Boats \X Modes

(* A new database, or one of version 2 with what was painted for each boat *)
(* and mode.                                                               *)
ConfigInit ==
    /\ stage = "down"
    /\ activeBoatId \in Boats
    /\ stamp = 0
    /\ wardrobeRow \in {NoRow} \cup {w \in Wardrobes : w.version = 2 /\ ~w.painted}
    /\ mapRows \in IF wardrobeRow = NoRow THEN {{}} ELSE SUBSET (Boats \X Modes)
    /\ revisionRows = <<>>
    /\ sails = NoRow
    /\ revisions = <<>>
    /\ paint = mapRows

---------------------------------------------------------------------------------
(* open(), one statement of the database after the other. *)

CreateTables ==
    /\ stage = "down"
    /\ stage' = "tables"
    /\ UNCHANGED <<activeBoatId, stamp, wardrobeRow, mapRows, revisionRows, sails, revisions, paint>>

(* What the row becomes: the default; itself; the same boat and mode with  *)
(* the cells of the active boat and that mode, unless their row cannot be  *)
(* read or parsed, which counts as none.                                   *)
Migrated(readable) ==
    IF wardrobeRow = NoRow
    THEN [NoRow EXCEPT !.version = 3, !.boatId = activeBoatId]
    ELSE IF wardrobeRow.version = 3 THEN wardrobeRow
    ELSE [wardrobeRow EXCEPT !.version = 3,
                             !.painted = readable /\ <<activeBoatId, wardrobeRow.activeMode>> \in mapRows]

(* The migration is to take the paint of the active boat and the mode the  *)
(* wardrobe is in, if it can be read; that of other boats and modes is     *)
(* given up.                                                               *)
Taken(readable) == {cell \in paint : readable /\ cell = <<activeBoatId, wardrobeRow.activeMode>>}

(* Mutant: what was migrated is not persisted. *)
LoadWardrobeUnsaved(readable) ==
    /\ stage = "tables"
    /\ stage' = "wardrobe"
    /\ sails' = Migrated(readable)
    /\ wardrobeRow' = IF wardrobeRow = NoRow THEN Migrated(readable) ELSE wardrobeRow
    /\ paint' = IF wardrobeRow.version = 2 THEN Taken(readable) ELSE paint
    /\ UNCHANGED <<activeBoatId, stamp, mapRows, revisionRows, revisions>>

LoadWardrobe(readable) ==
    /\ stage = "tables"
    /\ stage' = "wardrobe"
    /\ sails' = Migrated(readable)
    /\ wardrobeRow' = Migrated(readable)
    /\ paint' = IF wardrobeRow.version = 2 THEN Taken(readable) ELSE paint
    /\ UNCHANGED <<activeBoatId, stamp, mapRows, revisionRows, revisions>>

DropLegacy ==
    /\ stage = "wardrobe"
    /\ stage' = "dropped"
    /\ mapRows' = {}
    /\ UNCHANGED <<activeBoatId, stamp, wardrobeRow, revisionRows, sails, revisions, paint>>

(* Mutant: revisions of one second are listed the newest first. *)
ListRevisionsNewest(boat) ==
    LET own == {i \in DOMAIN revisionRows : revisionRows[i].boatId = boat}
    IN  CHOOSE list \in [1 .. Cardinality(own) -> own] : \A n, m \in DOMAIN list : n < m =>
            \/ revisionRows[list[n]].createdAt > revisionRows[list[m]].createdAt
            \/ revisionRows[list[n]].createdAt = revisionRows[list[m]].createdAt /\ list[n] > list[m]

(* listRevisions scans polar_revisions_lookup (boat, sail_config_id, mode, *)
(* created_at) and sorts what it finds by stamp, the latest first: rows of *)
(* one stamp come by sail_config_id, then by mode, then as inserted.       *)
ListedBefore(i, j) ==
    LET first == revisionRows[i]
        second == revisionRows[j]
    IN  \/ first.createdAt > second.createdAt
        \/ /\ first.createdAt = second.createdAt
           /\ \/ first.config < second.config
              \/ first.config = second.config /\ first.mode < second.mode
              \/ first.config = second.config /\ first.mode = second.mode /\ i < j

ListRevisions(boat) ==
    LET own == {i \in DOMAIN revisionRows : revisionRows[i].boatId = boat}
    IN  CHOOSE list \in [1 .. Cardinality(own) -> own] :
            \A n, m \in DOMAIN list : n < m => ListedBefore(list[n], list[m])

Load ==
    /\ stage = "dropped"
    /\ stage' = "open"
    /\ revisions' = ListRevisions(activeBoatId)
    /\ UNCHANGED <<activeBoatId, stamp, wardrobeRow, mapRows, revisionRows, sails, paint>>

(* The process ends, in the middle of open() or later; the next may be for *)
(* another boat.                                                           *)
EndProcess ==
    /\ stage # "down"
    /\ stage' = "down"
    /\ activeBoatId' \in Boats
    /\ sails' = NoRow
    /\ revisions' = <<>>
    /\ UNCHANGED <<stamp, wardrobeRow, mapRows, revisionRows, paint>>

---------------------------------------------------------------------------------
(* The setters.  A write that fails throws before anything changes. *)
SetSails(mode, painted) ==
    /\ stage = "open"
    /\ stage' = "sailsWritten"
    /\ wardrobeRow' = [sails EXCEPT !.activeMode = mode, !.painted = painted]
    /\ paint' = IF painted THEN {<<sails.boatId, mode>>} ELSE {}
    /\ UNCHANGED <<activeBoatId, stamp, mapRows, revisionRows, sails, revisions>>

EmitSails ==
    /\ stage = "sailsWritten"
    /\ stage' = "open"
    /\ sails' = wardrobeRow
    /\ UNCHANGED <<activeBoatId, stamp, wardrobeRow, mapRows, revisionRows, revisions, paint>>

(* createRevision, for the wardrobe's boat and mode (PUT config/polars and *)
(* the import) or for the active boat's and any mode, under any            *)
(* sail_config_id (POST polar/revisions).                                  *)
CreateRevision(boat, config, mode) ==
    /\ stage = "open"
    /\ Len(revisionRows) < MaxRevisions
    /\ stage' = "revisionWritten"
    /\ revisionRows' = Append(revisionRows, [boatId |-> boat, config |-> config, mode |-> mode, createdAt |-> stamp])
    /\ UNCHANGED <<activeBoatId, stamp, wardrobeRow, mapRows, sails, revisions, paint>>

EmitRevision ==
    /\ stage = "revisionWritten"
    /\ stage' = "open"
    /\ revisions' = Append(revisions, Len(revisionRows))
    /\ UNCHANGED <<activeBoatId, stamp, wardrobeRow, mapRows, revisionRows, sails, paint>>

SavePolar == CreateRevision(sails.boatId, sails.activeMode, sails.activeMode)

SaveRevision == \E config \in Configs, mode \in Modes : CreateRevision(activeBoatId, config, mode)

SetClock ==
    /\ stamp' \in 0 .. MaxStamp
    /\ UNCHANGED <<stage, activeBoatId, wardrobeRow, mapRows, revisionRows, sails, revisions, paint>>

ConfigNext ==
    \/ CreateTables \/ DropLegacy \/ Load \/ EndProcess
    \/ \E readable \in BOOLEAN : LoadWardrobe(readable)
    \/ \E mode \in Modes, painted \in BOOLEAN : SetSails(mode, painted)
    \/ EmitSails \/ SavePolar \/ SaveRevision \/ EmitRevision \/ SetClock

ConfigSpec == ConfigInit /\ [][ConfigNext]_configVars

---------------------------------------------------------------------------------
(* The rows activePolar$ chooses from. *)
OfTheMode(i) == revisionRows[i].boatId = sails.boatId /\ revisionRows[i].mode = sails.activeMode

(* activePolar$: of the Map's revisions of the wardrobe's boat and mode    *)
(* the one with the latest stamp, the first of several; 0 for the default. *)
ActivePolar(map) ==
    LET ours == {n \in DOMAIN map : OfTheMode(map[n])}
        latest == {n \in ours : \A m \in ours : revisionRows[map[m]].createdAt <= revisionRows[map[n]].createdAt}
    IN  IF ours = {} THEN 0 ELSE map[Min(latest)]

(* The paint of a wardrobe of version 2 is whole, and what the migration   *)
(* is to take of it is in the database at every moment, wherever a start   *)
(* was cut, until the skipper changes it: the legacy map is dropped only   *)
(* when the wardrobe of version 3 has what was taken (config-store.ts:379, *)
(* 393).                                                                   *)
PaintKept ==
    IF wardrobeRow.version = 2 THEN paint \subseteq mapRows ELSE paint # {} => wardrobeRow.painted

(* Revisions of one second have one sail_config_id, as those of PUT        *)
(* config/polars and of the import do.                                     *)
OneConfigASecond ==
    \A i, j \in DOMAIN revisionRows :
        (OfTheMode(i) /\ OfTheMode(j) /\ revisionRows[i].createdAt = revisionRows[j].createdAt) =>
            revisionRows[i].config = revisionRows[j].config

(* A restart does not change the polar in use, of several saved within one *)
(* second and after the clock was set back too (config-store.ts:587): the  *)
(* Map and the index order them alike, unless two of one second are under  *)
(* different sail_config_ids, which the index puts in their order.         *)
RestartKeepsPolar ==
    (stage = "open" /\ sails.boatId = activeBoatId /\ OneConfigASecond) =>
        ActivePolar(revisions) = ActivePolar(ListRevisions(activeBoatId))
=================================================================================
