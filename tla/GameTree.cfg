SPECIFICATION Spec
CONSTANTS
  Scenes <- TheScenes
INVARIANTS TypeOK MovesExact StateAgrees RepetitionsExact AttacksExact
PROPERTIES ImplementsChess
CHECK_DEADLOCK FALSE
