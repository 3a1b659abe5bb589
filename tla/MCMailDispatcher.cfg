SPECIFICATION FairSpec
CONSTANTS
  Workers = {w1, w2}
  Senders = {s1}
  Clearers = {c1, c2}
  QueueSize = 2
  LogSize = 2
  MaxMails = 3
  MaxGenerations = 2
INVARIANTS TypeOK MailKept
PROPERTIES QuietWhenCleared ImplementsJobs EverythingEnds
CHECK_DEADLOCK FALSE
