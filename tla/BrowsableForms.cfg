\* The forms of the browsable API, two submissions that may overlap, and a rotation of the token.
CONSTANTS
    absent = absent
    Absent = absent
    Forms <- BrowsableForms
    Tabs <- MCTabs
    Calls = {1, 2}
    MaxRotations = 1
SPECIFICATION Spec
INVARIANTS TypeOK SentAsAsked RefusedOnlyIfRotated SeenWhenAlone
PROPERTIES TabIsKept EachSubmissionIsFollowed
