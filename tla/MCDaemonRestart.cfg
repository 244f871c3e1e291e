SPECIFICATION Spec
CONSTANT MaxEvents = 3
INVARIANT OpenShowsPanel
