SPECIFICATION Spec
CONSTANTS
    Users = {u1, u2}
    Rooms = {r1, r2}
    None = None
    OldRooms = {r1, r2}
    MaxVersion = 1
    MaxExtra = 2
    MaxCalls = 2
    Budgets <- BudgetsOf
    Owners = {u1, u2}
    Groups = {g1, g2}
    Widths = {1, 2}
    NoOne = NoOne
    NoGroup = NoGroup
    DefaultWidth = 1
    MaxGroups = 1
    MaxEdits = 4
    ChatRooms = {r1, r2}
    NoChat = NoChat
    Texts = {t1}
    NoText = NoText
    Nothing = Nothing
    MaxNonces = 2
    MaxItems = 2
    Drafts <- DraftsOf
INVARIANTS
    MainPaneIsCurrent
    RefreshNeverWedges
    SidebarConverges
    MeantOnce
PROPERTIES
    ViewNeverGoesBack
SYMMETRY Symmetry
CHECK_DEADLOCK FALSE
