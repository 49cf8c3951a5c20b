----------------------------- MODULE MCAjaxForm -----------------------------
(***************************************************************************)
(* Small instances of AjaxForm: the forms of base.html and of admin.html.    *)
(***************************************************************************)
EXTENDS AjaxForm

CONSTANTS absent

Plain == [method |-> Absent, dataMethod |-> Absent, buttons |-> {Absent}, overrides |-> {},
          enctype |-> "urlencoded", token |-> FALSE, switcher |-> Absent, tab |-> Absent,
          edit |-> FALSE, corrects |-> Absent]
Edit(g, t) == [Plain EXCEPT !.switcher = g, !.tab = t, !.edit = TRUE]
MediaTypes == {"json"}

\* The forms of a view with all methods.
MCTabs == << <<"html-tab", "raw-tab">>, <<"html-tab", "raw-tab">> >>
BrowsableForms ==
    {[Plain EXCEPT !.dataMethod = "OPTIONS"],
     [Plain EXCEPT !.dataMethod = "DELETE"],
     [Edit(1, "html-tab") EXCEPT !.method = "POST", !.enctype = "multipart", !.token = TRUE],
     [Edit(1, "raw-tab") EXCEPT !.method = "POST", !.overrides = MediaTypes],
     [Edit(2, "html-tab") EXCEPT !.dataMethod = "PUT", !.enctype = "multipart"],
     [Edit(2, "raw-tab") EXCEPT !.dataMethod = "PUT", !.buttons = {Absent, "PATCH"},
                                !.overrides = MediaTypes]}

\* The create form of the admin, and the forms that correct invalid data.
NoTabs == << >>
AdminForms ==
    {[Plain EXCEPT !.method = "POST", !.enctype = "multipart", !.token = TRUE],
     [Plain EXCEPT !.dataMethod = "PUT", !.enctype = "multipart"],
     [Plain EXCEPT !.dataMethod = "POST", !.enctype = "multipart", !.corrects = "POST"],
     [Plain EXCEPT !.dataMethod = "PUT", !.enctype = "multipart", !.corrects = "PUT"]}

\* The forms of base.html are of the kind that SentAsAsked is proved for, those of admin.html not.
ASSUME FormsOfBase == MethodsAreAttributes <=> Forms # AdminForms
=============================================================================
