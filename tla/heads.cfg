SPECIFICATION Spec
CONSTANTS
  MaxHeaders = 2
  Wires <- EditedTexts
  MaxUnread = 3
  Leftovers <- SomethingBehind
CHECK_DEADLOCK FALSE
INVARIANTS AcceptsHeads VerdictStands ResumedAnswersRight LeftoversIgnored StatusStands
