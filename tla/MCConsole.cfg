CONSTANTS
    t1 = t1  t2 = t2  i1 = i1  i2 = i2  u = u  v = v
    Null = Null  New = New  Initial = u  First = i1
    Tabs = {t1, t2}
    Ids = {i1, i2}
    Urls = {u, v}
    Slots = {1, 2}
    MaxEvents = 3
SPECIFICATION Spec
SYMMETRY MCSymmetry
INVARIANTS OwnChangesShown UrlIsLastGiven SpinnerHasLoad
PROPERTIES FreshEditKeepsSwitch 
CHECK_DEADLOCK FALSE
