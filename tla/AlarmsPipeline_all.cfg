\* Each predicate in turn: the anchor watch under every usage, the held alarms
\* with and without a band, two vessels for the collision monitor.
CONSTANTS
    EscalateAfter = 2
    Usages = {"plain", "failing", "any"}
    Hold = 2
    Banded = {TRUE, FALSE}
    Vessels = {v1, v2}
SPECIFICATION PipelineSpec
INVARIANTS BreachSounds PushedSeverity HistoryFollows ThreatSounds
PROPERTIES WarningEscalates DragIsNoticed EachIsAnAlarm BadIsAlarmed CollisionNoticed
