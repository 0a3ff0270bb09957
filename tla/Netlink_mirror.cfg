SPECIFICATION FairSpec
CONSTANTS
    grd = grd  v1 = v1  h1 = h1  x1 = x1  x2 = x2  a1 = a1  d1 = d1  d2 = d2  nogw = nogw
    Vrf = {v1}
    Grd = grd
    Hop = {h1}
    Vtep = {x1}
    Host = {a1}
    NoGw = nogw
    Learnable <- Few
    Mac = {m1, m2}
    Port = {p1}
    Nowhere = nowhere
    EnableEcmp = FALSE
    MaxLives = 1
    MaxEvents = 1
INVARIANTS TypeOK Mirror ReferencesHeld
PROPERTY Settles
CHECK_DEADLOCK FALSE
