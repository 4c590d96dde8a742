CONSTANTS
    Calls = {c1, c2, c3, c4}
    None = None
    MaxDisposes = 2
SPECIFICATION FairSpec
INVARIANTS
    SingletonIsUsable
    SingletonUnlessOvertaken
PROPERTIES
    HandedInstanceIsLive
    EveryCallSettles
CHECK_DEADLOCK FALSE
