\* One session, two requests of the panel at once, restarts and crashes.
SPECIFICATION PanelSpec
CONSTANTS
    root = root
    k1 = k1
    k2 = k2
    k3 = k3
    c1 = c1
    a1 = a1
    None = None
    RootKey = root
    UserKey = k1
    GoneKey = k2
    Keys <- FourKeys
    Conns = {c1}
    Removers = {a1}
    Faults = {"vanish"}
    MaxUsers = 4
    MaxBoots = 1
    TypedKeys <- OldAndNewKey
    Slots = {1, 2}
    MaxClicks = 2
PROPERTIES
    OnlyClickedRemoved
    PanelSettles
    GoneClientReleases
    RestartCompletes
CHECK_DEADLOCK FALSE
