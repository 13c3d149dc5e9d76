SPECIFICATION CapacitySpec
CONSTANTS
  attachment = attachment
  media = media
  image = image
  lot1 = lot1
  Attachments = {attachment}
  Media = {media}
  Generations = {image}
  Callers = {c1, c2}
  MaxBytes <- MCMaxBytes
  Size <- MCSize
  BaseBytes = 3
  Lots = {lot1}
  LotBytes <- MCLotBytes
SYMMETRY MCSymmetry
INVARIANT StoredIsCovered
PROPERTY CapacityKept
