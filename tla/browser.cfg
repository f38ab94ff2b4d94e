SPECIFICATION Spec
CONSTANTS
    None = None
    Raw = Raw
    m1 = m1
    m2 = m2
    m3 = m3
    m4 = m4
    Columns = {"limits", "plan"}
    ColViews <- MCColViews
    Colours = {"tint", "rainbow"}
    Accents = {"blue", "red"}
    Left <- MCLeft
    Right <- MCRight
    Late = {m4}
    Opponents = {"none", "prompt"}
    MaxTries = 4
    Readings = {"cool", "warm"}
    Feeds = {"busy"}
    HeaderColours = {"accent", "active"}
    MaxActions = 1
    MaxFaults = 1
    MaxChanges = 2
    NavChanges = 1
    HeaderChanges = 1
    Widths = {"broad"}
    Progress = {"some"}
    MainChanges = 4
INVARIANTS TypeOK LooksAsSet NativeIsWhole
PROPERTIES Quiesces ComesBack
CHECK_DEADLOCK FALSE
