SPECIFICATION FairSpec
CONSTANTS
  App = App
  X = X
  Y = Y
  Q = Q
  Projects = {App, X, Y, Q}
  Libraries = {X, Y, Q}
  GitProjects = {Y}
  Editable = {Q}
  Roots = {App}
  Versions = {0, 1}
  MaxEdits = 2
  MaxKills = 2
  MaxDepth = 5
  Graphs <- AllGraphs
INVARIANTS
  ClosureInOrder
  
  
  FetchedWhole
PROPERTIES
  BuildEnds
