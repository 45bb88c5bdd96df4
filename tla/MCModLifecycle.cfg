\* Three calls: enable, disable or a refusal, and what comes after it.
CONSTANTS
  CounterMod = 4
  MaxBeats = 1
  MaxCalls = 3
SPECIFICATION Spec
INVARIANTS QuietWhenDisabled ListenersHaveSource OnlyStraysEscape
PROPERTY StopsAfterSource
CHECK_DEADLOCK FALSE
