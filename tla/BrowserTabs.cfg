SPECIFICATION Spec
CONSTANTS
  MaxTabs = 4
  MaxPosted = 6
INVARIANTS
  TypeOK
  FramesFollow
  SelectedExists
PROPERTY ImplementsTabBar
