SPECIFICATION RetrySpec
CONSTANTS
    RetryMinutes = {5, 90}
    Tick = 300
    MaxTime = 18000
    Jumps <- MCJumps
    MaxJumps = 1
PROPERTY RetryNotEarly
