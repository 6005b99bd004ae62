\* Three flows compete for two permits, a background task ends, and the run is
\* told to stop; exit_on_fatal_error is set.  In a DNS session ids collide and
\* wrap, answers come in any order, and one comes that nobody asked for.
SPECIFICATION SumSpec
CONSTANTS
    Sessions = {s1, s2, s3}
    Background = {reporter}
    MaxSessions = 2
    ExitOnFatal = TRUE
    NoSession = NoSession
    IdSpace = 3
    Questions = {q1, q2}
    Options = {o1}
    MaxOutstanding = 2
    Unsolicited = TRUE
    NoRequest = NoRequest
INVARIANTS CountersExact NothingSurvives NoStrayAnswer OnePlace
PROPERTIES ShutdownEnds Answered
