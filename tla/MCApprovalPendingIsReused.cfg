CONSTANTS
  Asker = {e1}
  Call = {write, save, browse}
  Reviewed = {write, save}
  Small = {save}
  Id = {1, 2}
  Command = {1, 2}
  BusCap = 1
  NoId = NoId
  NoCall = NoCall
SPECIFICATION MCSpec
INVARIANT PendingIsReused
