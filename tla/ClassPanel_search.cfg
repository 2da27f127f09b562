SPECIFICATION ClassSpec
CONSTANTS
  thing = thing first = first second = second third = third x = x y = y
  Class = {thing, first, second, third}
  Thing = thing
  ImportedClass = {thing}
  Given <- BelowThing
  Individual = {x}
  Gestures = {"create", "remove", "search"}
  Mixed = 1
  MaxItems = 6
  NoClass = NoClass
PROPERTY OnlyBareClassesAreDeleted
