SPECIFICATION ImagesSpec
CONSTANTS
    Upgrade = {u1, u2}
    Asked <- ParkAsked
    MaxReboots = 0
    Nothing = Nothing
INVARIANT ListedIsWhole
CHECK_DEADLOCK FALSE
