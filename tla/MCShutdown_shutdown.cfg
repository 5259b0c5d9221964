\* Four requests that may reject or stall, two signals.
SPECIFICATION FairSpec
CONSTANTS
    Request = {1, 2, 3, 4}
    Signal = {"SIGTERM", "SIGINT"}
CHECK_DEADLOCK FALSE
INVARIANTS DrainCutsNothing WaitersAreWoken
PROPERTIES TimeoutEndsProcess DrainEndsProcess
