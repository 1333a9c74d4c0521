SPECIFICATION ChatSpec
CONSTANTS
    c1 = c1
    c2 = c2
    home = home
    md5 = md5
    NoNick = NoNick
    NoPassword = NoPassword
    NoClient = NoClient
    NoAddr = NoAddr
    NoName = NoName
    NoChannel = NoChannel
    NoRow = NoRow
    Clients = {c1, c2}
    Nicks <- MCNicks
    Keys <- MCKeys
    Rows <- MCRows
    KeyOf <- MCKeyOf
    RowOf <- MCRowOf
    AddrOf <- MCAddrOf
    Passwords = {md5}
    Addresses = {home}
    SiteAddrs = {}
    Deviations = {}
    Names <- MCNames
    Records <- MCRecords
    RecordOf <- MCRecordOf
    Default = "main"
    SystemNames = {"main"}
    SystemAdmin = "pompei"
    Mottos = {"welcome"}
    FirstMotto = "welcome"
    MaxChans = 1
PROPERTIES
    OnlyAdminsDestroy
