SPECIFICATION StubSpec
CONSTANTS
    Procs = {p1, p2}
    Words = {word}
    Results = {ok, failed}
INVARIANT OwnResult
