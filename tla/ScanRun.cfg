SPECIFICATION LiveSpec
CONSTANTS
  Modules = {cleaner, network, devices}
  Full = 1
  ProgCap = 1
  EventCap = 2
  NoProgress = NoProgress
  NoEvent = NoEvent
INVARIANTS TypeOK EndIsTheEnd WindowShowsWhatWasReturned
PROPERTIES ImplementsContract EveryScanEnds
