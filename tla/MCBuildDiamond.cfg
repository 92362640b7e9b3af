SPECIFICATION Spec
CONSTANTS
  App = App
  X = X
  Y = Y
  Q = Q
  Projects = {App, X, Y, Q}
  Libraries = {X, Y, Q}
  GitProjects = {}
  Editable = {X, Q}
  Roots = {App}
  Versions = {0, 1}
  MaxEdits = 0
  MaxKills = 0
  MaxDepth = 5
  Graphs <- Diamonds
INVARIANT
  NoFalseCircular
