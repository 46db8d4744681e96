SPECIFICATION MCSpec
CONSTANTS
    Names <- MCNames
    MaxPath = 6
    StackFrames = 4
    MaxNodes = 5
    MaxDepth = 2
    FF_VOLUMES = 2
    FirstAhci = 1
    Parts = 2
    track = track
    elsewhere = elsewhere
    Places = {track, elsewhere}
    Track = track
    NoPlace = NoPlace
    Layouts <- SomeLayouts
    MaxBoots = 2
INVARIANTS TypeOK RemovedMeansGone FailureExplained DataKept WholeVolume MountedIsReady CurrentIsMounted
PROPERTIES OnlySubtree CommandReturns
