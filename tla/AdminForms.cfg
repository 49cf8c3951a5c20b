\* The forms of the admin: a create whose data was invalid is corrected.
CONSTANTS
    absent = absent
    Absent = absent
    Forms <- AdminForms
    Tabs <- NoTabs
    Calls = {1, 2}
    MaxRotations = 0
SPECIFICATION Spec
INVARIANTS MethodAsAsked
