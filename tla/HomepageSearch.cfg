SPECIFICATION Spec
CONSTANTS
  Searches = {q1, q2}
  Submissions = {b1, b2}
  Services = {s1}
  isLiveReadMode = TRUE
  None = None
SYMMETRY Symmetry
CHECK_DEADLOCK FALSE
INVARIANTS GuidanceOfShortlist ShortlistOfQuery QuestionsAnswered OneSubmissionAtATime AnnouncedOnce AutomationOfItsBooking SpinnerMeansSearch BookingFollowedUp
