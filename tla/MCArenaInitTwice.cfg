SPECIFICATION Spec
CONSTANTS
  o1 = o1
  o2 = o2
  o3 = o3
  Nil = Nil
  Openers <- ThreeOpeners
  NumSlots = 2
  MaxDeaths = 0
  Files = {"fresh"}
INVARIANT InitializedOnce
