CONSTANTS MaxItems = 5
          Delay = 2
          Kind <- MCKind
          SkipFrames = {0, 1, 2}
SPECIFICATION FairSpec
INVARIANTS TypeOK OwnedOnce
PROPERTIES FrameStreamSpec Ends
