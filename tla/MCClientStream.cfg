SPECIFICATION Spec
CONSTANTS
  Names = {n1}
  States = {"working", "input"}
  Capacity = 2
  SocketMax = 2
  MaxTransit = 3
  None = None
INVARIANT TypeOK AnswersMatch ViewSettles
PROPERTY ActionsEnd
