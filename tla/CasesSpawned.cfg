\* Two workers, each with a hash seed of its own.
CONSTANTS
  task = task
  persona = persona
  agent = agent
  x = x
  y = y
  main = main
  Fixture = {task, persona, agent}
  Deps <- OnBoth
  Axis = {x, y}
  CaseId = {"x1", "x2", "y1", "y2"}
  Declarations <- TwoAxes
  Worker = {w1, w2}
  Repeats = 2
SPECIFICATION CasesSpec
INVARIANTS
  RepeatsRunRowCase
