CONSTANTS
  Torn = Torn
  MaxCalls = 3
  Calls = {1, 2, 3}
  OtherRequests <- MCOtherRequests
SPECIFICATION FairDriverSpec
INVARIANTS DoneMeansIdle StartMeetsIdleCore ResultsOfThisCall NeverRefused
PROPERTIES InputsHeldWhileBusy CompletionRaisesIrq CallReturns
