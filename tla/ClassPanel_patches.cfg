SPECIFICATION ClassSpec
CONSTANTS
  thing = thing first = first second = second third = third x = x y = y
  Class = {thing, first, second}
  Thing = thing
  ImportedClass = {thing}
  Given <- BelowThing
  Individual = {x, y}
  Gestures = {"create", "remove", "rename", "populate", "hierarchy", "types", "search"}
  Mixed = 1
  MaxItems = 5
  NoClass = NoClass
INVARIANTS TreeIsCurrent LeavesAreLeaves InstancesAreCurrent
PROPERTIES OnlyBareClassesAreDeletedPlainly
SYMMETRY Symmetry
