SPECIFICATION MCSpec
CONSTANTS
  Destinations = {events}
  MaxFrames = 2
  MaxCommands = 3
  events = events
INVARIANTS
  TypeOK
  CommandsInOrder
  SubscriptionsAgree
  NeverMixed
PROPERTIES
  Resynchronizes
  FramesInOrder
  CallbacksGetCalled
