SPECIFICATION FairSpec
CONSTANTS
  Hwnds <- MCHwnds
  OneProcess <- MCOneProcess
  Capacity = 2
  Interval = 1
  MaximumDelay = 0
  MaxNotices = 3
  MaxPosted = 1
  MaxExtras = 1
  MaxPolls = 0
INVARIANTS
  TypeOK
  LossHasCompany
  KeysTellWindowsApart
PROPERTIES
  ImplementsContract
  MarksFollowClicks
  LossesAreReported
  ReconcileRecurs
