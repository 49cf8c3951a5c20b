\* Two forms and three calls that may overlap.
CONSTANTS
    absent = absent  unchecked = unchecked
    Absent = absent
    Unchecked = unchecked
    PageScheme = "https"
    Lists <- MCLists
    Objects <- MCObjects
    Blank <- MCBlank
    Calls = {1, 2, 3}
    Answers <- FourAnswers
    Documents <- TwoForms
    Texts <- MCTexts
    Authentications = {"none"}
    Cookies = {"k1"}
SPECIFICATION Spec
INVARIANTS OneExchange SeenWhenAlone
PROPERTIES AnswersKeepTheDisplay EveryCallIsDisplayed KeepsPromises
