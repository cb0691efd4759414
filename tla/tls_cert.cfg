\* One client.
CONSTANTS
  CtrlMss = 1448
  LengthTexts = {0, 1000, 65501, 131073}
  MaxTests = 1
SPECIFICATION OptionsSpec
INVARIANT CertificateUsed
CHECK_DEADLOCK FALSE
