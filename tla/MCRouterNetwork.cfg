CONSTANTS
    NoIP = NoIP
    NoEthernet = NoEthernet
    Broadcast = Broadcast
    EntryTTL = 2
    RequestTTL = 1
    AddressBits = 3
    Direct = Direct
    A = A
    B = B
    ea1 = ea1
    ea2 = ea2
    eb1 = eb1
    eb2 = eb2
    ha = ha
    hb = hb
    Routers = {A, B}
    InterfaceIP <- MCInterfaceIP
    InterfaceEthernet <- MCInterfaceEthernet
    HostIP <- MCHostIP
    HostEthernet <- MCHostEthernet
    Routes <- MCRoutes
    Destination = {5}
    TTL = {3}
    TickMs = 1
    MaxRoutes = 2
    MaxDatagrams = 2
SPECIFICATION FairSpec
INVARIANT OneCopy
PROPERTY ForwardedByLongestMatch
PROPERTY EventuallyGone
