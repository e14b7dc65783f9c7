CONSTANTS
  ReadOrders = {0, 1, 3}
  Texts = {a, b, c}
  Stride = 3
SPECIFICATION Spec
INVARIANT NoLineLost
PROPERTY ImplementsLineStore
