CONSTANT Frames <- MCFrames
SPECIFICATION Spec
INVARIANT Premultiplied
INVARIANT WorkersApart
INVARIANT PictureIsLayered
CHECK_DEADLOCK FALSE
