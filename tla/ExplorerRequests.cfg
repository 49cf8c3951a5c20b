\* What can be typed into the forms of two documents and with which credentials, one call.
CONSTANTS
    absent = absent  unchecked = unchecked
    Absent = absent
    Unchecked = unchecked
    PageScheme = "https"
    Lists <- MCLists
    Objects <- MCObjects
    Blank <- MCBlank
    Calls = {1}
    Answers <- OneAnswer
    Documents <- ManyForms
    Texts <- MCTexts
    Authentications = {"none", "token", "basic", "session"}
    Cookies = {"k1", "k2"}
SPECIFICATION Spec
INVARIANTS FormsFindTheirLinks PathIsComplete SentAsTyped SessionCallsPassCsrf
