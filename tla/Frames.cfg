\* Three frames of any length, one message for each or cut into messages anywhere;
\* the connection fails at any time or never.
SPECIFICATION FairSpec
CONSTANTS
    HeaderSize = 2  MaxPayload = 2  TagSize = 1  MaxFrames = 3
INVARIANTS FramesIntact
PROPERTIES FramesArrive
CHECK_DEADLOCK FALSE
