SPECIFICATION Spec
CONSTANTS
    grd = grd  v1 = v1  h1 = h1  x1 = x1  x2 = x2  a1 = a1  d1 = d1  d2 = d2  nogw = nogw
    Vrf = {v1}
    Grd = grd
    Hop = {h1}
    Vtep = {x1, x2}
    Host = {a1}
    NoGw = nogw
    Learnable <- Routes
    Mac = {m1, m2}
    Port = {p1}
    Nowhere = nowhere
    EnableEcmp = FALSE
    MaxLives = 1
    MaxEvents = 1
INVARIANT TunnelsLeadToTheirVtep
CHECK_DEADLOCK FALSE
