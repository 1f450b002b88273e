CONSTANTS
    N = 3
    URLs = {"a", "b", "c"}
    UrlOf <- DistinctUrls
    Threshold = 1
    Weight <- Weights
SPECIFICATION Spec
INVARIANTS
    DriftBounded
    Smooth
PROPERTY
    SelectsHealthy
