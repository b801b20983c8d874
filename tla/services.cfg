SPECIFICATION Spec
CONSTANTS
  a1 = a1
  a2 = a2
  b1 = b1
  b2 = b2
  x1 = x1
  v1 = v1
  v2 = v2
  None = None
  NoHost = NoHost
  Products = {a1, a2}
  Views = {v1}
  Reports = {b1, b2}
  Seconds <- SomeSeconds
  Watched <- OneSecond
  DripDay = 1
  MaxDay = 1
  MaxAdminOps = 1
  Submissions = {v1, v2}
  Callbacks = {a1, a2}
  Summaries = {b1, b2}
  MaxRetries = 1
  MaxJobs = 3
  Silent <- SecondIsSilent
  MaxDeliveries = 2
  MaxRequests = 1
  Requests = {a1, a2}
  MaxTokens = 3
  MaxLinks = 1
  Tenants = {a1, a2}
  Hosts = {b1, b2}
  Readers = {x1}
  Editors = {v1}
  Ttl = 2
  MaxTime = 4
  MaxUpdates = 2
  Audience = 3
  BatchSize = 2
  Senders = {a1, a2}
  Workers = {b1, b2}
  Members = {a1, a2}
  Announcements = {v1}
  NoticeRetries = 1
  Browsers = {a1, a2}
  Pushers = {v1}
  PushRetries = 1
  MaxSubscriptions = 3
  People = {a1, a2}
  Nobody = {x1}
  Founders = {b1, b2}
  Posters = {v1, v2}
  Nowhere = NoHost
SYMMETRY Slots
INVARIANTS
  SerialReportsKeepMost
  TextAndIndexAgree
  RecordedJobsStayPending
  QuietSummaryIsCurrent
  CredentialsAreSpent
  StaleNoLongerThanTtl
  UpdatesShowAtOnce
  SentIsHandedOver
  RowsMailedOnce
  EverybodyIsNotified
  SubscriptionFollowsRequests
  ConversationsAreWhole
PROPERTIES
  CompletionSticks
  AnswersFollowTheRules
CHECK_DEADLOCK FALSE
