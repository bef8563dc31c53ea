\* Settings that come, go and become valid between calls; nothing injected.
CONSTANTS
    Injections <- MCInjections
    Settings <- MCSettings
SPECIFICATION Spec
INVARIANT ClientKnowsTheRules
CHECK_DEADLOCK FALSE
