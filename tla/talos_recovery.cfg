\* Two control planes and a worker; the workspace may lose files, or all that is left of the PKI.
SPECIFICATION Spec
CONSTANTS
  n1 = n1
  n2 = n2
  n3 = n3
  p1 = p1
  p2 = p2
  p3 = p3
  NoPki = NoPki
  Nodes = {n1, n2, n3}
  ControlPlanes = {n1, n2}
  First = n1
  Pkis = {p1, p2, p3}
  Faults = {"replace", "outage", "loss", "loss_all"}
SYMMETRY Symmetry
INVARIANTS TypeOK BootstrapOnce OnePki
PROPERTY NoHalfJoin
