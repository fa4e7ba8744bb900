---------------------------------- MODULE Tracks ----------------------------------
(***************************************************************************)
(* The recorded tracks (packages/web/src/lib/tracks.ts), one JSON file     *)
(* each, which the recorder (track-recorder.ts) and the routes under       *)
(* api/tracks read, change in memory and write back over one temporary     *)
(* file per track.  One action per stretch between awaits; a listing is    *)
(* one read.  The recorder takes its fixes from the stream of api/position *)
(* (app/api/position/route.ts), which repeats the last one every second.   *)
(* Of a track only whether it is ended is kept, of a fix only whether it   *)
(* is of the live source.                                                  *)
(***************************************************************************)
EXTENDS Naturals, FiniteSetsExt

CONSTANTS
    Clients,    \* requests that may be under way together
    MaxTracks   \* bound on the numbers of tracks

ASSUME TracksAssumption == MaxTracks \in Nat

VARIABLES
    file,       \* track-NNN.json
    tmp,        \* track-NNN.json.tmp
    job,        \* where each client and the recorder are
    doc,        \* the track each holds in memory; number 0 for null
    activeTrackId,  \* Recorder.activeTrackId, 0 for null
    isLive,     \* getStatus().mode is 'live'
    latest,     \* the stream's last fix
    fix,        \* the fix the recorder appends
    appended    \* history: the fix appended by the last step

tracksVars == <<file, tmp, job, doc, activeTrackId, isLive, latest, fix, appended>>

Numbers == 1 .. MaxTracks
States == {"none", "active", "ended"}
Rec == "recorder"
Fixes == {"none", "live", "other"}

TracksTypeOK ==
    /\ file \in [Numbers -> States]
    /\ tmp \in [Numbers -> States]
    /\ job \in [Clients \cup {Rec} ->
           {"idle", "look", "looked", "end", "list", "create", "renameEnd", "renameNew", "notify", "notified",
            "label", "renameLabel", "off", "boot", "booted", "running", "append", "renameAppend", "reload",
            "reloaded", "errored"}]
    /\ doc \in [Clients \cup {Rec} -> [number : 0 .. MaxTracks, state : States]]
    /\ activeTrackId \in 0 .. MaxTracks
    /\ isLive \in BOOLEAN
    /\ latest \in Fixes
    /\ fix \in Fixes
    /\ appended \in Fixes

Null0 == [number |-> 0, state |-> "none"]

TracksInit ==
    /\ file \in [Numbers -> States]
    /\ \A n \in Numbers : n > 1 => file[n] = "none"
    /\ tmp = [n \in Numbers |-> "none"]
    /\ job = [p \in Clients \cup {Rec} |-> IF p = Rec THEN "off" ELSE "idle"]
    /\ doc = [p \in Clients \cup {Rec} |-> Null0]
    /\ activeTrackId = 0
    /\ isLive \in BOOLEAN
    /\ latest = "none"
    /\ fix = "none"
    /\ appended = "none"

Go(p, to) == job' = [job EXCEPT ![p] = to]
Forget(p) == doc' = [doc EXCEPT ![p] = Null0]
Unappended == appended' = "none" /\ UNCHANGED fix
Exist == {n \in Numbers : file[n] # "none"}
Active == {n \in Numbers : file[n] = "active"}
Highest(set) == IF set = {} THEN 0 ELSE Max(set)

---------------------------------------------------------------------------------
(* Reads. *)

(* ensureRecorder by the routes that show tracks. *)
EnsureRecorder ==
    /\ job[Rec] = "off"
    /\ Go(Rec, "boot")
    /\ Unappended
    /\ UNCHANGED <<file, tmp, doc, activeTrackId, isLive, latest>>

(* POST /api/tracks/interrupt. *)
Interrupt(c) ==
    /\ job[c] = "idle"
    /\ job' = [job EXCEPT ![c] = "look", ![Rec] = IF @ = "off" THEN "boot" ELSE @]
    /\ Unappended
    /\ UNCHANGED <<file, tmp, doc, activeTrackId, isLive, latest>>

(* activeTrack: its result is used after further awaits. *)
AfterLook == [look |-> "looked", notify |-> "notified", boot |-> "booted", reload |-> "reloaded"]
Look(p) ==
    /\ job[p] \in DOMAIN AfterLook
    /\ doc' = [doc EXCEPT ![p] = IF Active = {} THEN Null0 ELSE [number |-> Max(Active), state |-> "active"]]
    /\ Go(p, AfterLook[job[p]])
    /\ Unappended
    /\ UNCHANGED <<file, tmp, activeTrackId, isLive, latest>>

(* createTrack: the number after the highest, up to the bound. *)
List(p) ==
    /\ job[p] = "list"
    /\ Highest(Exist) < MaxTracks
    /\ doc' = [doc EXCEPT ![p] = [number |-> Highest(Exist) + 1, state |-> "active"]]
    /\ Go(p, "create")
    /\ Unappended
    /\ UNCHANGED <<file, tmp, activeTrackId, isLive, latest>>

(* PUT /api/tracks/<id>, or an annotation of the active track. *)
Relabel(c, n) ==
    /\ job[c] = "idle"
    /\ file[n] # "none"
    /\ doc' = [doc EXCEPT ![c] = [number |-> n, state |-> file[n]]]
    /\ Go(c, "label")
    /\ Unappended
    /\ UNCHANGED <<file, tmp, activeTrackId, isLive, latest>>

DeleteTrack(n) ==
    /\ file[n] # "none"
    /\ file' = [file EXCEPT ![n] = "none"]
    /\ Unappended
    /\ UNCHANGED <<tmp, job, doc, activeTrackId, isLive, latest>>

---------------------------------------------------------------------------------
(* What is done with what was read. *)

(* interruptActive ends what was active, or goes on to create. *)
Looked(c) ==
    /\ job[c] = "looked"
    /\ IF doc[c].number = 0 THEN Go(c, "list") /\ UNCHANGED doc
       ELSE Go(c, "end") /\ doc' = [doc EXCEPT ![c].state = "ended"]
    /\ Unappended
    /\ UNCHANGED <<file, tmp, activeTrackId, isLive, latest>>

(* notifyTrackChange binds the recorder, wherever that is. *)
Notified(c) ==
    /\ job[c] = "notified"
    /\ activeTrackId' = IF doc[c].number = 0 THEN activeTrackId ELSE doc[c].number
    /\ Go(c, "idle")
    /\ Forget(c)
    /\ Unappended
    /\ UNCHANGED <<file, tmp, isLive, latest>>

Booted ==
    /\ job[Rec] = "booted"
    /\ IF doc[Rec].number = 0 THEN Go(Rec, "list") /\ UNCHANGED activeTrackId
       ELSE Go(Rec, "running") /\ activeTrackId' = doc[Rec].number
    /\ Forget(Rec)
    /\ Unappended
    /\ UNCHANGED <<file, tmp, isLive, latest>>

(* Mutant: a failed append is reported only. *)
ReloadedReports ==
    /\ job[Rec] = "reloaded"
    /\ Go(Rec, "running")
    /\ Forget(Rec)
    /\ Unappended
    /\ UNCHANGED <<file, tmp, activeTrackId, isLive, latest>>

(* maybeAppend, after appendPoint threw. *)
Reloaded ==
    /\ job[Rec] = "reloaded"
    /\ Go(Rec, "running")
    /\ activeTrackId' = IF doc[Rec].number = 0 THEN activeTrackId ELSE doc[Rec].number
    /\ Forget(Rec)
    /\ Unappended
    /\ UNCHANGED <<file, tmp, isLive, latest>>

(* writeTrack: the temporary file, then the rename. *)
AfterWrite == [end |-> "renameEnd", create |-> "renameNew", label |-> "renameLabel", append |-> "renameAppend"]
Write(p) ==
    /\ job[p] \in DOMAIN AfterWrite
    /\ tmp' = [tmp EXCEPT ![doc[p].number] = doc[p].state]
    /\ Go(p, AfterWrite[job[p]])
    /\ Unappended
    /\ UNCHANGED <<file, doc, activeTrackId, isLive, latest>>

AfterRename(p) ==
    CASE job[p] = "renameEnd" -> "list"
      [] job[p] = "renameLabel" -> "idle"
      [] job[p] = "renameAppend" -> "running"
      [] job[p] = "renameNew" -> IF p = Rec THEN "running" ELSE "notify"

Rename(p) ==
    /\ job[p] \in {"renameEnd", "renameNew", "renameLabel", "renameAppend"}
    /\ tmp[doc[p].number] # "none"
    /\ file' = [file EXCEPT ![doc[p].number] = tmp[doc[p].number]]
    /\ tmp' = [tmp EXCEPT ![doc[p].number] = "none"]
    /\ Go(p, AfterRename(p))
    /\ activeTrackId' = IF p = Rec /\ job[p] = "renameNew" THEN doc[p].number ELSE activeTrackId
    /\ appended' = IF job[p] = "renameAppend" THEN fix ELSE "none"
    /\ fix' = IF job[p] = "renameAppend" THEN "none" ELSE fix
    /\ Forget(p)
    /\ UNCHANGED <<isLive, latest>>

(* Another writer of the same track moved the temporary file away: the     *)
(* request is answered 500; the recorder reloads, or did not start.        *)
RenameFails(p) ==
    /\ job[p] \in {"renameEnd", "renameNew", "renameLabel", "renameAppend"}
    /\ tmp[doc[p].number] = "none"
    /\ Go(p, IF p # Rec THEN "idle" ELSE IF job[p] = "renameAppend" THEN "reload" ELSE "errored")
    /\ Forget(p)
    /\ fix' = IF p = Rec THEN "none" ELSE fix
    /\ appended' = "none"
    /\ UNCHANGED <<file, tmp, activeTrackId, isLive, latest>>

(* maybeAppend of a fix that is due: a track that is gone takes nothing,   *)
(* one that is ended throws.                                               *)
AppendFix ==
    /\ job[Rec] = "running"
    /\ isLive
    /\ latest # "none"
    /\ activeTrackId # 0 /\ file[activeTrackId] # "none"
    /\ IF file[activeTrackId] = "ended" THEN Go(Rec, "reload") /\ UNCHANGED <<doc, fix>>
       ELSE /\ Go(Rec, "append")
            /\ doc' = [doc EXCEPT ![Rec] = [number |-> activeTrackId, state |-> "active"]]
            /\ fix' = latest
    /\ appended' = "none"
    /\ UNCHANGED <<file, tmp, activeTrackId, isLive, latest>>

---------------------------------------------------------------------------------
(* The source mode, the stream, a restart. *)

(* The stream keeps the last fix of the source that was stopped. *)
SwapSource ==
    /\ isLive' = ~isLive
    /\ Unappended
    /\ UNCHANGED <<file, tmp, job, doc, activeTrackId, latest>>

Fix ==
    /\ latest' = IF isLive THEN "live" ELSE "other"
    /\ Unappended
    /\ UNCHANGED <<file, tmp, job, doc, activeTrackId, isLive>>

(* The stream breaks; the next one has no fix yet. *)
StreamEnds ==
    /\ job[Rec] = "running"
    /\ latest' = "none"
    /\ Unappended
    /\ UNCHANGED <<file, tmp, job, doc, activeTrackId, isLive>>

RestartServer ==
    /\ job[Rec] # "off"
    /\ job' = [p \in Clients \cup {Rec} |-> IF p = Rec THEN "off" ELSE "idle"]
    /\ doc' = [p \in Clients \cup {Rec} |-> Null0]
    /\ activeTrackId' = 0
    /\ latest' = "none"
    /\ fix' = "none"
    /\ appended' = "none"
    /\ UNCHANGED <<file, tmp, isLive>>

Proceed(p) == Look(p) \/ List(p) \/ Write(p) \/ Rename(p) \/ RenameFails(p)

TracksNext ==
    \/ EnsureRecorder \/ Booted \/ Reloaded \/ AppendFix \/ Proceed(Rec)
    \/ SwapSource \/ Fix \/ StreamEnds \/ RestartServer
    \/ \E c \in Clients : Interrupt(c) \/ Looked(c) \/ Notified(c) \/ Proceed(c)
    \/ \E c \in Clients, n \in Numbers : Relabel(c, n)
    \/ \E n \in Numbers : DeleteTrack(n)

(* Calls of the file system settle; fixes that are due come. *)
TracksSpec ==
    /\ TracksInit
    /\ [][TracksNext]_tracksVars
    /\ WF_tracksVars(Booted \/ Reloaded \/ AppendFix \/ Proceed(Rec))
    /\ \A c \in Clients : WF_tracksVars(Looked(c) \/ Notified(c) \/ Proceed(c))

---------------------------------------------------------------------------------
(* A recorder that has started goes on recording, in live mode, as long as *)
(* there is an active track and the one it is bound to was not deleted:    *)
(* after interrupts, labels and failed renames, whatever it had read       *)
(* before they were done (track-recorder.ts:153).                          *)
CanRecord ==
    /\ isLive
    /\ latest # "none"
    /\ job[Rec] \notin {"off", "list", "errored"}
    /\ \A c \in Clients : job[c] = "idle"
    /\ Active # {}
    /\ activeTrackId # 0 => file[activeTrackId] # "none"
RecordingGoesOn == <>[]CanRecord => []<>(appended # "none")

(* Refuted.  Only fixes of the live source are recorded                    *)
(* (track-recorder.ts:132): "without this gate a demo/live toggle stitches *)
(* Ottawa<->Atlantic points into one track".                               *)
OnlyLiveFixes == appended # "other"
=================================================================================
