CONSTANTS
    Hosts = {gw, h1, h2}
    ucDefGW = gw
    Tasks = {t1, t2}
    ARP_TABLE_ENTRIES = 2
    ARP_TIMEOUT = 2
    ARP_GATEWAY_TIMEOUT = 1
    ARP_MAXRETRY = 2
    T_ARP_PERIOD = 3
    T_ARP_PENDING_PERIOD = 2
SPECIFICATION FairSpec
INVARIANTS OneEntryPerHost
PROPERTIES RequestsArePolled TasksAreTold RequestsEnd SilentHostsAge
