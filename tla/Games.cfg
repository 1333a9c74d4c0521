SPECIFICATION FairSpec
CONSTANTS
    NoNick = NoNick
    NoName = NoName
    NoGame = NoGame
    Clients = {"c1", "c2"}
    Nicks = {"ann", "bob", "eve"}
    Names = {"duel", "siege"}
    Ids = {"g1", "g2", "g3"}
    Deviations = {"relogin"}
INVARIANTS
    TypeOK
    GamesAreOwned
    HostsAreTaken
    HostsHoldTheirGames
    OneGamePerHost
    HostsPlay
PROPERTIES
    LeaversGamesEnd
    BoardIsKept
