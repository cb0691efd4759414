\* Two clients in turn, each with its own options.
CONSTANTS
  CtrlMss = 1448
  LengthTexts = {0, 1000, 65501, 131073}
  MaxTests = 2
SPECIFICATION OptionsSpec
INVARIANT SameTest
INVARIANT BlockUsable
CHECK_DEADLOCK FALSE
