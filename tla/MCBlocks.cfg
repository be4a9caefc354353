SPECIFICATION Spec
CONSTANTS
  a = a  b = b
  NumBlocks = 3
  BlockSize = 2
  tmp = tmp  tmpc = tmpc
  Files = {tmp, tmpc}
  Renames <- MCRenames
  Threads = {th1, th2}
  Bytes = {a, b}
  Zero = Zero
  Contents <- MCContents
  NoFile = NoFile
  Nothing = Nothing
  Crashes = TRUE
CONSTRAINT Bounds
SYMMETRY Symmetries
INVARIANTS
  TypeOK
  OneOwnerPerBlock
  BitmapIsExact
  ReadsBack
