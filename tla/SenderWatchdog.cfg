SPECIFICATION FairSpec
INVARIANTS LiveIsWatched
PROPERTIES NameOrFailure SilentIsFailedUnlessCancelled
CHECK_DEADLOCK FALSE
