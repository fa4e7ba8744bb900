\* A PATCH and a toggle overlap.
CONSTANTS
    planner = planner
    tab1 = tab1
    tab2 = tab2
    planning = planning
    socketCan = socketCan
    Clients = {planner, tab1}
    SocketCan = socketCan
    Key <- MCKey
    Off = off
    Values = {off, can0, can1}
SPECIFICATION SettingsSpec
INVARIANTS NoClobber
