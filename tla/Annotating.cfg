CONSTANTS
  Role <- MCRole
  Meaning <- MCMeaning
  Inherited = {"True.toString"}
  Unknown = {"an"}
  Begins <- MCBegins
  Handlers <- MCHandlers
  Default <- MCDefault
  MaxWords = 5
  MaxEdits = 1
  Window = {w1, w2}
  Page = {p, q}
  Topic = {s, t}
  NoPage = NoPage
  Given <- MCGiven
  Selection = {"x", "y"}
  Property <- MCProperty
  Families <- MCFamilies
  Language = {"de", "en"}
  Prefs <- MCPrefs
  Before <- MCBefore
  Faults = TRUE
  MaxDrops = 2
  MaxLanguages = 1
SPECIFICATION AnnotatingSpec
INVARIANTS ReadersAgree RefinementsAreTheTexts DialogsAreSound
PROPERTIES DropsAreFaithful
CONSTRAINT Bounds
