SPECIFICATION FSpec
CONSTANTS
    Servers = {p1, p2}
    Client = Client
    Scapy = Scapy
    Sizes <- MCSizes
    MaxBlock = 3
PROPERTIES
    TransferDelivers
    SenderKnows
    TransferEnds
CHECK_DEADLOCK FALSE
