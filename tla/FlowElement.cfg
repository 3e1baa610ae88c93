SPECIFICATION Spec
CONSTANTS
  CPU = {c1, c2}
  Intf = {0, 1, 2, 3}
  Tls <- MCTls
  Input <- MCInput
  MaxObserved = 2
  HasProto = TRUE
  MaxPackets = 4
INVARIANTS InterfacesListedOnce SeenListedOrMissed MismatchIffHellosDiffer EndLagsOnlyWhenOvertaken
SYMMETRY Symmetry
CHECK_DEADLOCK FALSE
