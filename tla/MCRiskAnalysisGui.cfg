SPECIFICATION TreesSpec
CONSTANTS
  pump = pump
  valve = valve
  night = night
  day = day
  outage = outage
  top = top
  HouseEvents = {pump, valve}
  Phases = {night, day, outage}
  NoPhase = NoPhase
  Instructions <- MCInstructions
  Fraction <- MCFraction
  Whole = 4
  EventTrees <- MCSequences
  TopEvents = {top}
  Alignments <- MCAlignments
  MissionTimes = {0, 8}
  TimeSteps = {0, 3}
  Drivers = {"gui"}
  BasicEvents = {1, 2}
  TreeOf <- MCTreeOf
  Forests <- MCForests
  NoEvent = NoEvent
INVARIANT
  TimesAgree
