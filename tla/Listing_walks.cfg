\* Two clients list up to four objects in pages of one to three.
SPECIFICATION FairSpec
CONSTANTS
    Name = {1, 2, 3, 4}
    Client = {c1, c2}
    Requested <- Sizes
    defaultPageSize = 2
    maxPageSize = 3
    NoToken = NoToken
    MaxEvents = 3
INVARIANTS TypeOK NothingTwice NothingSkipped DiesOnlyOfDeletion
PROPERTY WalksEnd
\* When all walks have ended nothing needs to happen.
CHECK_DEADLOCK FALSE
