SPECIFICATION Spec
CONSTANTS
  s1 = s1
  A = A
  B = B
  c1 = c1
  c2 = c2
  k1 = k1
  r1 = r1
  t1 = t1
  t2 = t2
  Null = Null
  Junk = Junk
  Sids <- OneSession
  Families <- NamesOrRecord
  Precedence <- Chain
  ChannelOrder <- SortedChannels
  MaxChannels = 2
  MaxPrLinks = 2
  MaxLog = 4
INVARIANTS ReplayIsNoop NamesFollowLog TimesConverge LinksFollowLog SearchFindsNames NamesViewAgrees
CHECK_DEADLOCK FALSE
