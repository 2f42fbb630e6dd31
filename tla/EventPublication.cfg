SPECIFICATION Spec
CONSTANTS
  k1 = k1
  k2 = k2
  NoRow = NoRow
  Users = {u1}
  DedupeKeys = {e1}
  MatchKeys = {k1, k2}
  WatchChoices <- MCWatchChoices
  Entries <- MCEntries
  CarriedKeys <- MCCarriedKeys
  Sessions = {s1, s2}
  Calls = {c1, c2}
  MaxRequests = 2
  MaxOpen = 2
INVARIANTS TypeOK OneOccurrencePerKey AnswersAgree RepliesWereTrue
PROPERTIES RecipientsWereEntitled PublishesOnce EveryRequestEnds
