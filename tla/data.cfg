\* Strings of up to five bytes and some long ones, datagrams of two packets, inputs of two users and of 64, three members.
SPECIFICATION Spec
CONSTANTS
    SomeBytes <- MCSomeBytes
    LongStrings <- MCLongStrings
    SomeMessages <- MCSomeMessages
    SomeInputs <- MCSomeInputs
    LongInputs <- MCLongInputs
    SomeMembers <- MCSomeMembers
    MaxBytes = 5
    MaxMessages = 2
    MaxUsers = 2
INVARIANTS RleRoundTrip CodingFits DatagramRoundTrip MergeFits MergeMapped PortsFilled
CHECK_DEADLOCK FALSE
