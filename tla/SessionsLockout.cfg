SPECIFICATION Spec
CONSTANTS
    c1 = c1
    c2 = c2
    c3 = c3
    home = home
    cafe = cafe
    md5a = md5a
    md5b = md5b
    NoNick = NoNick
    NoPassword = NoPassword
    NoClient = NoClient
    NoAddr = NoAddr
    Clients = {c1, c2, c3}
    Nicks <- MCNicks
    Keys <- MCKeys
    Rows <- MCRows
    KeyOf <- MCKeyOf
    RowOf <- MCRowOf
    AddrOf <- MCAddrOf
    Passwords = {md5a, md5b}
    Addresses = {home, cafe}
    SiteAddrs = {home, cafe}
    Deviations = {"site"}
INVARIANTS
    NobodyIsLockedOut
