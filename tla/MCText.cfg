SPECIFICATION Spec
CONSTANTS
  MailDomains = {0, 1, 101, 218, 219, 254, 255}
  Domains = {0, 1, 101, 102, 201, 202, 243, 244, 254, 255, 256, 1015, 1016}
  Bytes = {"CR", "LF", ".", "a", "NUL"}
  MaxRead = 3
  MaxText = 7
INVARIANTS GreetingWhole EndOnTime
CHECK_DEADLOCK FALSE
