CONSTANTS
  Keys = {1, 2, 3, 4, 5, 6, 7}
  NULL = NULL
SPECIFICATION Spec
INVARIANTS
  NoNullDereference
  LinksAgree
  SearchTree
  RedBlack
PROPERTIES
  CallsReturn
  ImplementsIndex
