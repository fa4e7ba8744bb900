------------------------------------- MODULE Web -------------------------------------
(***************************************************************************)
(* What goes on behind the web pages: the recorded tracks, the refresh of  *)
(* the forecast grids and the polls of a page.  Each has its own files or  *)
(* endpoint and reads none of another's, so that a behaviour is that of    *)
(* one, `part', with the others at rest.                                   *)
(***************************************************************************)
EXTENDS Tracks, UsePoll, ForecastRefresh

VARIABLE part

webVars == <<part, tracksVars, pollVars, refreshVars>>

WebInit ==
    /\ part \in {"tracks", "poll", "refresh"}
    /\ TracksInit /\ PollInit /\ RefreshInit
    /\ part # "tracks" => ~isLive /\ file = [n \in Numbers |-> "none"]

TracksStep == part = "tracks" /\ TracksNext /\ UNCHANGED <<pollVars, refreshVars>>
PollStep == part = "poll" /\ PollNext /\ UNCHANGED <<tracksVars, refreshVars>>
RefreshStep == part = "refresh" /\ RefreshNext /\ UNCHANGED <<tracksVars, pollVars>>

WebNext == (TracksStep \/ PollStep \/ RefreshStep) /\ UNCHANGED part

(* The fairness of the tracks, when they are the part in play. *)
TracksFairness ==
    /\ WF_tracksVars(part = "tracks" /\ (Booted \/ Reloaded \/ AppendFix \/ Proceed(Rec)))
    /\ \A c \in Clients : WF_tracksVars(part = "tracks" /\ (Looked(c) \/ Notified(c) \/ Proceed(c)))

WebSpec == WebInit /\ [][WebNext]_webVars /\ TracksFairness
=================================================================================
