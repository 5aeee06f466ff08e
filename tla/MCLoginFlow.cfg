SPECIFICATION FairSpec
CONSTANTS
  c1 = c1
  c2 = c2
  Client = {c1, c2}
  Account <- MCAccount
  Server <- MCServer
  Link <- MCLink
  DBWorker = {w1, w2}
  NoQuery = NoQuery
  MaxTries = 0
  Bounds <- MCBounds
  MaxRequests = 2
  MaxSessions = 2
INVARIANTS AnswerGoesToWhoAsked AnsweredOnce SuccessIsEarned
CHECK_DEADLOCK FALSE
PROPERTIES LoginIsAnswered TerminalsComeBack
