\* Two people contend for two addresses; one account's links, sessions and faulty mail.
SPECIFICATION FairSpec
CONSTANTS
    u1 = u1
    u2 = u2
    e1 = e1
    e2 = e2
    n1 = n1
    o1 = o1
    o2 = o2
    c1 = c1
    c2 = c2
    Foci <- MCFoci
    Users = {u1, u2}
    Emails = {e1, e2}
    Countries = {n1}
    Onboardings = {o1, o2}
    Tokens = {t1, t2}
    Clients = {c1, c2}
    None = None
    COOLDOWN = 1
    JWT_TTL = 1
    REFRESH_TTL = 0
    MaxVersion = 4
    MaxSessionEvents = 2
    MaxTime = 1
    MAX_DELIVER = 2
    VERIFY_TTL = 1
    RESET_TTL = 1
    MaxFaults = 1
INVARIANTS TypeOK MailedSparingly ResetLinkIsLastWord ResetEndsSessions HostMirrorAgrees OneAccountPerHost
PROPERTY EventuallyMailed
CHECK_DEADLOCK FALSE
