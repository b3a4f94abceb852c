SPECIFICATION Spec
CONSTANTS
  t1 = t1
  t2 = t2
  r1 = r1
  r2 = r2
  Campaigns = {1, 2}
  Rows = {r1, r2}
  CampaignOf <- MCCampaignOf
  Threads = {t1, t2}
  Updates <- MCUpdates
  NoUpdate = NoUpdate
  SMS_CAMPAIGN_WINDOW_SIZE = 1
  MAX_SMS_CAMPAIGN = 2
  MAX_CAMPAIN_ERROR = 1
  MaxMsgs = 1
  MaxAppEnds = 2
  MaxBadQueries = 2
  MaxFaults = 2
  MaxAnswers = 2
CHECK_DEADLOCK FALSE
SYMMETRY Symmetric
INVARIANTS
  TypeOK
  UpdatesAreKept
  CompletedMeansDone
  SentAgainOnlyIfUnmarked
  EntryOutlivesThread
  PickedHasThread
