SPECIFICATION PortalSpec
CONSTANTS
    None = None
    Users = {m, n}
    Armers = {m}
    FirstMains = {m}
    FirstSubs = {}
    Tokens = {x, y}
    Handlers = {h, g}
    MaxAttempts = 2
    MaxCodes = 2
    Desks = {d, e}
    Bodies <- MCBodies
    Seeds <- MCSeeds
    Recorders = {r, w}
    LogCap = 2
    PriceIds = {p, q}
    PriceInputs <- MCPrices
    PlaceInputs <- MCPlaces
    Looks <- MCLooks
    TitleMax = 2
    ImageMax = 3
    DefaultName = 2
    MaxChanges = 4
    s = s
    t = t
    tabs = tabs
    account = account
    Sockets = {s, t}
    Channels = {tabs, account}
    ChannelsOf <- MCChannelsOf
    MaxMessages = 2
    MaxFaults = 1
SYMMETRY Symmetry
INVARIANTS
    AccountsStand
    CodesAreLimited
    SettingsHold
    LogShowsNewest
    PublicPageIsSound
    FeedIsWhole
CHECK_DEADLOCK FALSE
