\* One hook that loads when the page opens, called at any time with any window.
SPECIFICATION FairSpec
CONSTANTS
    detections = detections
    clusters = clusters
    Layers = {detections}
    EagerLayers = {detections}
    Windows = {1, 3}
    DefaultWindow = 1
    StaleAnswers = {FALSE, TRUE}
    MaxRequests = 3
INVARIANTS
    VisibleIsChosen
    SettledShowsChosen
PROPERTIES
    CacheNeverGoesBack
    RefreshKeepsData
    LoadingEnds
CHECK_DEADLOCK FALSE
