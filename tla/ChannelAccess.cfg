SPECIFICATION AccessSpec
CONSTANTS
    Hold = 3
    StartedAt = 1
    ClockBound = 11
    Parameters <- MCParameters
    Samples <- MCRawSamples
    RandomBytes <- MCRandomBytes
INVARIANT DrawsAgree
PROPERTY ReadyOnlyAfterQuiet
