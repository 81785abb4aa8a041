\* A minute that a packet other than DNS brings to its end.
SPECIFICATION Spec
CONSTANTS
    Hosts = {h1, h2}
    Times <- MCMinute
    W1 = 1
    W5 = 2
    W60 = 4
    DDoSTtl = 4
    BeaconTtl = 8
    MaxPackets = 4
INVARIANT DnsRateIsPerMinute
\* The bound on packets ends the run.
CHECK_DEADLOCK FALSE
