SPECIFICATION ClientSpec
CONSTANTS
    OwnOrgs = {o1, o2}
    Tabs = {t1}
    Parties = {me, a, b}
    Me = me
    Other = a
    Nobody = None
INVARIANTS
    WhatIsShownIsTrue
PROPERTIES
    WhatHappensIsMeant
    EverythingEnds
CHECK_DEADLOCK FALSE
