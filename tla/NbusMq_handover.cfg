\* Three buffers, messages that fill a buffer exactly or not.
CONSTANTS
  Buffers = 3
  Size = 12
  Header = 3
  CborLens = {1, 5}
  MaxMsgs = 6
SPECIFICATION Spec
INVARIANTS NoOverflow SentIsFull
PROPERTIES ImplementsMessageBag
