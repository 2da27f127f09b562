SPECIFICATION TabsSpec
CONSTANTS
  imp = imp upper = upper left = left low = low
  Property = {imp, upper, left, low}
  Imported = {imp}
  Start <- MCStart
  NoModel = NoModel
  MaxRows = 6
  Table <- MCTable
  Keyword <- MCKeyword
  Punct <- MCPunct
  Opener <- MCOpener
  Begins <- MCBegins
  MaxWords = 7
  Answers <- MCAnswers
  PrefixCounts = {2}
CONSTRAINT OneAtATime
INVARIANTS TreeIsTheHierarchy EditorKnowsTheGrammar QueryTabIsSound
