SPECIFICATION I2cSpec
CONSTANTS
    Size = 3
    Value = {x, y}
    MaxLen = 3
    Junk = junk
INVARIANT ReadComplete
