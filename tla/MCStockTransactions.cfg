SPECIFICATION MCSpec
CONSTANTS
    steel = 2
    gear = 1
    car = 3
    van = 4
    gears = gears
    cars = cars
    done = done
    built = built
    vans = vans
    r1 = r1
    r2 = r2
    r3 = r3
    c1 = c1
    c2 = c2
    c3 = c3
    c4 = c4
    Txns = {r1, r2, r3, c1, c2, c3, c4}
    Orders = {gears, cars, done, built, vans}
    NumItems = 4
    Kind <- MCKind
    OrderOf <- MCOrderOf
    ProductOf <- MCProductOf
    Need <- MCNeed
    Yield <- MCYield
    InitialStock <- MCInitialStock
    AlreadyReleased = {done, built, vans}
    MaxAttempts <- MCMaxAttempts
INVARIANTS
    NeverOverReserved
    ReadsStayTrue
    OrderedNeverDeadlock
PROPERTIES
    OrderedSucceed
\* All requests end.
CHECK_DEADLOCK FALSE
