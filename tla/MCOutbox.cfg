SPECIFICATION FairSpec
CONSTANTS
  w1 = w1
  w2 = w2
  c1 = c1
  c2 = c2
  e1 = e1
  e2 = e2
  e3 = e3
  Workers <- MCWorkers
  Commands <- MCCommands
  Events <- MCEvents
  Registered <- MCItemEvents
  EventsOf <- MCEventsOf
  Modes <- MCModes
  Host <- MCHost
  BatchSize = 2
  MaxRedo = 1
INVARIANTS
  ChangeAndRowsTogether
  HandlersSeeDurableData
  InProcessDispatchedOnce
  NothingLeftBehind
  NoSharedRow
  PublishedWasDelivered
  DuplicatesExplained
PROPERTIES
  NoDeliveryAfterPublished
  RefinesDelivery
  RegisteredIsDispatched
  RegisteredIsPublished
