CONSTANTS
    NoIP = NoIP
    NoEthernet = NoEthernet
    Broadcast = Broadcast
    EntryTTL = 4
    RequestTTL = 2
    OwnIP = OwnIP
    OwnEthernet = OwnEthernet
    Hop = {h1, h2}
    Ethernet = {e1, e2}
    TickMs = {1, 3}
    MaxDatagrams = 2
    MaxReceived = 1
SPECIFICATION Spec
INVARIANT TypeOK
INVARIANT WaitsForAnswer
PROPERTY RequestsSpaced
PROPERTY OnceOrUnanswered
PROPERTY SentWhereHeard
