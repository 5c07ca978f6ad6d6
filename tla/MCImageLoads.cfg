SPECIFICATION ImagesSpec
CONSTANTS
  Elements = {e1, e2}
  Files = {f1}
  Blobs = {b1}
  Slots = {s1, s2}
  None = None
  Fallback = Fallback
  MaxLoads = 2
INVARIANTS ReferencesAreOwned
PROPERTIES PixelsComeWithTheImage LoadsArrive
