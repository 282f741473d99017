CONSTANTS
  n1 = n1
  n2 = n2
  n3 = n3
  n4 = n4
  t1 = t1
  t2 = t2
  t3 = t3
  n5 = n5
  MAX_SIZE = 4
  Nodes <- MCNodes
  Things <- MCThings
SPECIFICATION Spec
SYMMETRY Alike
INVARIANTS
  LinksAgree
PROPERTIES
  ImplementsCursorList
  NodesAreGivenBack
