\* Two vessels, one warned of and acknowledged when the other becomes imminent.
CONSTANTS
    Vessels = {v1, v2}
SPECIFICATION CpaSpec
PROPERTIES EscalationSounds
