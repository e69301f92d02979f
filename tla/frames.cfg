\* Bytes of two values, so that MaxSize is the square of the base, as it is in the code,
\* and a text of MaxSize bytes announces less when its size is read two bytes late, as a
\* text below 256 bytes does one byte late.  The sizes are none, the maximum, and two
\* above it, of which one brings the parser two bytes ahead and one back into step.
\* Three frames: one that is refused, one that is misread and one that is swallowed.
\* Pieces end inside a size, inside a text, or with a frame.
CONSTANTS
    Base = 2
    MaxSize = 4
    Sizes = {0, 4, 6, 8}
    Cuts = {2, 5}
    MaxFrames = 3
SPECIFICATION Spec
CHECK_DEADLOCK FALSE
INVARIANTS ParserInv Genuine InStep
PROPERTY StalledReadEnds
