\* The filter sheet, with four controls: Close, a price and two buttons.
SPECIFICATION FocusSpec
CHECK_DEADLOCK FALSE
CONSTANTS
    Controls = 4
INVARIANTS
    TypingKeepsFocus
