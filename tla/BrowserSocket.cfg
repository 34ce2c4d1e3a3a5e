SPECIFICATION MCSpec
CONSTANTS
  Browsers <- SomeBrowsers
  MaxSent = 4
  MaxTold = 2
  MaxBeats = 1
  Characters <- SomeCharacters
  Texts <- SomeTexts
  MaxMessages = 3
CHECK_DEADLOCK FALSE
INVARIANTS
  TypeOK
  FramesAreRead
  RereadsInOrder
PROPERTIES
  MessagesInOrder
  SentArrives
  ToldArrives
  CloseIsTold
