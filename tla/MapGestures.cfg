\* Three fingers: one may join or leave while two pinch, and be first or last of them.
CONSTANTS
  Fingers = {0, 1, 2}
  Coords = {0, 1, 2}
  Unit = 20
SPECIFICATION Spec
INVARIANT TypeOK
PROPERTIES NoJump DragFollows TwoFingersZoom ZoomFollows
