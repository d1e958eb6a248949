SPECIFICATION Spec
CONSTANTS
  c1 = c1
  c2 = c2
  c3 = c3
  s1 = s1
  s2 = s2
  Server <- MCServer
  Local = {"x", "y"}
  Conn = {c1, c2, c3}
  Session = {s1, s2}
  Prefix <- MCPrefix

  
  
PROPERTIES
  OfferedStaysOffered
SYMMETRY MCSymmetry
CHECK_DEADLOCK FALSE
