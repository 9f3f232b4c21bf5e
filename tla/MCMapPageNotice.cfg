\* The notice of stale data, one request of each layer.
SPECIFICATION PageSpec
CONSTANTS
    detections = detections
    clusters = clusters
    Layers = {detections, clusters}
    EagerLayers = {detections}
    Windows = {1, 3}
    DefaultWindow = 1
    StaleAnswers = {FALSE, TRUE}
    MaxRequests = 2
INVARIANT StaleNoticeShowsData
CHECK_DEADLOCK FALSE
