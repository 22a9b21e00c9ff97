\* One redirect per fetch, two origins, one browser thread.
SPECIFICATION FairSpec
CONSTANTS
  Secure = Secure
  Plain = Plain
  Ftp = Ftp
  Origin = {Secure, Plain, Ftp}
  Scheme <- MCScheme
  Page <- MCPage
  Seed <- MCSeed
  Main = Main
  Browser = {b1}
  MaxRedirects = 1
  Location <- MCLocation
  Scrape <- MCScrape
  Deadline = 3
  Horizon = 3
  Nothing = Nothing
INVARIANTS ContactsAreClearedAndBounded CredentialsStayHome FetchedIsWhatHappened
PROPERTIES PacingFloor FetchEnds
