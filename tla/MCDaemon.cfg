SPECIFICATION MCSpec
CONSTANTS
    Instances = {p, q}
    Clients = {c, d}
    Nobody = Nobody
    SecondDaemon = q
    SecondClient = d
INVARIANTS
    OneDaemon
    AnsweredOnce
    ManagerOutlivesListener
PROPERTIES
    StartsAndEnds
    ClientReturns
