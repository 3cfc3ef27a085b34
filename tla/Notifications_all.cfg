SPECIFICATION MCNoticeSpec
CONSTANTS
  Members = {1, 2, 3}
  Endpoints = {e1, e2}  Arcades = {a1}  Flags = {f1, f2}  Announcements = {s1, s2}
  Locales = {"ko", "en"}
  Batch = 2  InboxPage = 1  MaxClock = 8  MaxSeq = 9
  Apart = 2  Gap = 4  Confirmations = 3
  None = None
INVARIANTS TheRightOnesAreTold
PROPERTIES WhatIsBegunEnds
CHECK_DEADLOCK FALSE
