\* No fault but a run that stops between the marker and the command.
SPECIFICATION Spec
CONSTANTS
  n1 = n1
  n2 = n2
  n3 = n3
  p1 = p1
  p2 = p2
  p3 = p3
  NoPki = NoPki
  Nodes = {n1, n2, n3}
  ControlPlanes = {n1}
  First = n1
  Pkis = {p1, p2, p3}
  Faults = {}
SYMMETRY Symmetry
INVARIANT PollsOnlyAfterRequest
