SPECIFICATION Spec
CONSTANTS Ids = {i1, i2}
 Addresses = {x1, x2}
 Sessions = {s1, s2, s3}
 Tries = {t1, t2}
 Ops = {p1}
 None = None
SYMMETRY Symmetry
INVARIANTS NoStrayLink SameSensor StopIsFinal StaysReleased
