CONSTANTS MaxItems = 2
          Delay = 1
          Kind <- MCKind
          SkipFrames = {0, 1, 2}
SPECIFICATION Spec
PROPERTIES ZeroSizedSkipped
