SPECIFICATION Spec
CONSTANTS
    home = home
    office = office
    h1 = h1
    h2 = h2
    m1 = m1
    m2 = m2
    p1 = p1
    p2 = p2
    u1 = u1
    u2 = u2
    u3 = u3
    chat = chat
    term = term
    cli = cli
    Names <- MCNames
    Hosts <- MCHosts
    Models <- MCModels
    Providers = {p1, p2}
    Addresses <- MCAddresses
    None = None
    InitialServers <- MCInitialServers
    InitialCloud <- MCInitialCloud
    Turns = {chat, term}
    Anthropic = {p2}
    Chats = {chat}
    Consoles = {cli}
    Bridge = Bridge
    Installed <- MCInstalled
    Catalogue <- MCCatalogue
    Default = Default
    Tunings <- MCTunings
    MaxCommands = 3
    MaxSteps = 2
INVARIANTS
    DefaultIsAServer
    CloudOnlyAsAsked
    AnswersAreComplete
    RememberedWasRefused
PROPERTIES
    ModelOfItsServer
    RecoveryStaysPut
    ChatSelectsWhereItLooked
