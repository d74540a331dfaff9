SPECIFICATION FairSpec
CONSTANTS
  Plain = Plain
  Graph = Graph
  Mail = Mail
  a1 = a1
  a2 = a2
  m1 = m1
  m2 = m2
  m3 = m3
  m4 = m4
  NoDate = NoDate
  NoMail = NoMail
  Calls <- MCCalls
  Modes <- MCModes
  PlainModes <- MCPlainModes
  GraphModes <- MCGraphModes
  AssetModes <- MCAssetModes
  MailModes <- MCMailModes
  AssetCalls <- MCAssetCalls
  GraphOptions <- MCGraphOptions
  Mails <- MCMails
  Created <- MCCreated
  Malformed <- MCMalformed
  TextOf <- MCTextOf
  HtmlOf <- MCHtmlOf
  Statuses <- MCStatuses
  Expected <- MCExpected
  Validated <- MCValidated
  FetchErrors <- MCFetchErrors
  AssetStatuses <- MCAssetStatuses
  ContentTypes <- MCContentTypes
  NoType = NoType
  SetupErrors <- MCSetupErrors
  Requests <- MCRequests
  RequestOf <- MCRequestOf
  ResponseStatuses <- MCResponseStatuses
  BodyOf <- MCBodyOf
  PageText <- MCPageText
  PlaywrightText <- MCPlaywrightText
  RedirectTimeout = 1
  MaxSent = 2
  Excluded <- MCExcluded
  SentAfter = 0
  MaxMessages = 2
  LateBy = 1
  LastStart = 0
  MaxTime = 7
INVARIANTS
  AttemptsDoNotOverlap
  AbandonedAreAborted
  PollsEndOnTime
  ReasonsAreTrue
  MailAnswersAreExplained
  RedirectReportsAreTrue
PROPERTIES
  SuccessIsStable
  PollsEnd
CHECK_DEADLOCK FALSE
