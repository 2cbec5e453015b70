SPECIFICATION FairSpec
CONSTANTS
  a = a
  jpg = jpg
  mp4 = mp4
  bad = bad
  Null = Null
  Sources = {a}
  Contents = {jpg, mp4, bad}
  Found = {jpg}
  MimeOf <- MCMimeOf
  TooLong <- MCTooLong
  Creates <- MCCreates
  Edits <- MCEdits
  Created <- MCCreated
  Defaults <- MCDefaults
  MaxMoves = 2
  MaxEdits = 2
  MaxUpsets = 1
INVARIANTS RowsFitSchema NameTellsRecipe
PROPERTIES SparesWhatIsWanted StubKeepsAPreview PreviewsSettle
