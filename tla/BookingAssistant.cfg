SPECIFICATION Spec
CONSTANTS
  Sends = {m1, m2}
  Submissions = {b1, b2}
  Services = {s1, s2}
  None = None
SYMMETRY Symmetry
CHECK_DEADLOCK FALSE
INVARIANTS AnswersUnderQuestion NoPlaceholderLeft ChatLockedWhileAnswering GuidanceOfSelection OneSubmissionAtATime OnlyEventsLeaveLock
