CONSTANTS
    ping = ping
    profile = profile
    recommend = recommend
    Calls = {ping, profile, recommend}
    Timed = {ping, profile}
    DialTimed = {profile}
SPECIFICATION RpcFairSpec
CHECK_DEADLOCK FALSE
INVARIANTS
    CallsSound
PROPERTIES
    EveryCallEnds
    EveryHandlerEnds
