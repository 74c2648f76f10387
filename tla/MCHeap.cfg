CONSTANTS
  Nodes <- MCNodes
  Score <- MCScore
  Capacity = 2
  MaxSize = 6
  NoNode = NoNode
SPECIFICATION Spec
INVARIANT HeapOrdered
PROPERTY ImplementsQueue
