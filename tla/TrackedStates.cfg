\* Every choice of names, with two states of the entity that fold alike.
SPECIFICATION Spec
CONSTANTS
    Names <- SomeNames
    Fold <- SomeFold
    Emittable <- SomeShown
    Typable <- SomeTyped
    ZoneMap <- SomeZones
    AlwaysOffered <- Specials
    MaxChosen = 2
    Blank = ""
    NoMatch = "no match"
INVARIANT TypeOK SensorAgreesWithFrames WishesStayCounted
PROPERTY HealInvisible
CHECK_DEADLOCK FALSE
