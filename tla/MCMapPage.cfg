\* Both layers, two windows, three requests of each layer.
SPECIFICATION MCPageSpec
CONSTANTS
    detections = detections
    clusters = clusters
    Layers = {detections, clusters}
    EagerLayers = {detections}
    Windows = {1, 3}
    DefaultWindow = 1
    StaleAnswers = {FALSE}
    MaxRequests = 3
INVARIANTS
    VisibleIsForWindow
    OneRequestPerLayer
    SelectionIsShown
PROPERTIES
    ControlsComeBack
CHECK_DEADLOCK FALSE
