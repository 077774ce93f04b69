SPECIFICATION Spec
CONSTANTS
  Branch = {"a", "b"}
  Request <- MCRequest
  Order <- MCOrder
  Validator = {1, 2, 3}
  Fork = 1
  Window = 2
  MaxOpenAudits = 1
  MaxHeight = 3
PROPERTIES
  RestartKeeps
