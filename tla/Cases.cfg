\* Every declaration, two workers with any two orders of the fixtures.
CONSTANTS
  task = task
  persona = persona
  agent = agent
  x = x
  y = y
  main = main
  Fixture = {task, persona, agent}
  Deps <- OnBoth
  Axis = {x, y}
  CaseId = {"x1", "x2", "y1", "y2"}
  Declarations <- AllDeclarations
  Worker = {w1, w2}
  Repeats = 1
SPECIFICATION CasesSpec
INVARIANTS
  ExpansionIsProduct
  NoJobIsRefused
