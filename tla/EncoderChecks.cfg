SPECIFICATION EncoderSpec
CONSTANTS
    Frame = {f1, f2, f3}
    Size = {1, 2}
    MAX_ENCODER_Q_SIZE = 1
    ENCODER_STALL_FRAMEDROP_THRESHOLD = 2
    SwEncoder = {TRUE, FALSE}
    MaxTasks = 1
CHECK_DEADLOCK FALSE
INVARIANT ChecksHold
