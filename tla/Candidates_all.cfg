SPECIFICATION MCSpec
CONSTANTS
  Halls = {1, 2, 3}
  NoPlace = NoPlace  NoCabinet = NoCabinet  NoCountry = NoCountry  NoPhoto = NoPhoto  NoLimit = NoLimit
  Nothing = Nothing
  WordStarts <- MCStarts
  PageSize = 2
  Looks <- MCLooks
  Readers = {r1, r2}
  Writers = {w1, w2}
  Limits = {1, 2, 3}
  Queries <- MCQueries
  MaxWrites = 2
  Users = {1, 2, 3, 4}
  Named = {1, 2, 3, 4}
  Periods = {7, 30, 999}
  AllTime = 999
  NoViewer = 0
  BoardSize = 2
  Faces <- MCFaces
  p1 = p1
  Posts = {p1, p2}
  Comments = {}
  PostOf <- MCPostOf
  Runs = {w1, w2}
  Blank = blank
  Sources = {blank, s1}
  NoText = NoText
  NoJob = NoJob
  MaxAttempts = 2
  EditWindow = 1
  Lease = 2
  RetryDelay <- MCRetryDelay
  BatchSize = 1
  MaxTime = 9
  LastCreate = 0
  MaxEdits = 0
  MaxCrashes = 1
  Latency = 1
INVARIANTS ListsAddUp
PROPERTIES AnswersHold EventuallySettled
