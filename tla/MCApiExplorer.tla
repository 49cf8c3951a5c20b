---------------------------- MODULE MCApiExplorer ----------------------------
(***************************************************************************)
(* Small instances of ApiExplorer: two forms whose calls overlap, or all     *)
(* that can be typed into the forms of some documents, a call at a time.     *)
(***************************************************************************)
EXTENDS ApiExplorer

CONSTANTS absent, unchecked

Field(name, location, type, required) ==
    [name |-> name, location |-> location, type |-> type, required |-> required]
ServerLink(method, variables, fields) ==
    [action |-> method, scheme |-> Absent, variables |-> variables, fields |-> fields]

\* What a text is for each data type.
NoText == [string |-> Absent, integer |-> Absent, number |-> Absent,
           boolean |-> Absent, array |-> Absent, object |-> Absent]
Word == [NoText EXCEPT !.string = "str x"]
Decimal == [NoText EXCEPT !.string = "str 1.5", !.integer = "int 1", !.number = "num 1.5",
                          !.array = "num 1.5", !.object = "num 1.5"]
True == [NoText EXCEPT !.string = "str true", !.boolean = "true", !.array = "true",
                       !.object = "true"]
List == [NoText EXCEPT !.string = "str [1]", !.array = "array 1", !.object = "array 1"]
Object == [NoText EXCEPT !.string = "str {1}", !.array = "object 1", !.object = "object 1"]
Null == [NoText EXCEPT !.string = "str null", !.array = "null", !.object = "null"]
Quotes == [NoText EXCEPT !.string = "str quotes", !.array = "", !.object = ""]
NoItems == [NoText EXCEPT !.string = "str []", !.array = "array 0", !.object = "array 0"]

MCTexts == [string |-> {NoText, Word}, integer |-> {NoText, Word, Decimal},
            number |-> {NoText, Decimal}, boolean |-> {Unchecked, True},
            array |-> {NoText, Word, List, Quotes, NoItems}, object |-> {NoText, List, Object, Null}]
MCLists == {"array 0", "array 1"}
MCObjects == {"object 1"}
MCBlank == {"", "null", "array 0"}

\* Two links, of which one changes something.
TwoForms ==
    {(<<<<"users">>, <<"list">>>> :> ServerLink("GET", {}, <<>>)) @@
     (<<<<"users">>, <<"create">>>> :> ServerLink("POST", {}, <<>>))}

\* A viewset with a path variable, names used twice, a subsection, sections with reserved keys,
\* a link at the root, fields of other places and types, and form fields around a body.
Id == Field("id", "path", "integer", TRUE)
Slug == Field("slug", "path", "string", TRUE)
Page == Field("page", "query", "integer", FALSE)
Active == Field("active", "form", "boolean", FALSE)
Name == Field("name", "form", "string", TRUE)
Tags == Field("tags", "form", "array", FALSE)
Data == Field("data", "body", "array", TRUE)
Options == Field("options", "body", "object", FALSE)
ManyForms ==
    {(<<<<"users">>, <<"list">>>> :> ServerLink(Absent, {}, <<Page, Field("v", "header", "string", FALSE)>>)) @@
     (<<<<"users">>, <<"update">>>> :> ServerLink("PUT", {"id"}, <<Id, Name, Active, Tags>>)) @@
     (<<<<"users">>, <<"rename">>>> :> ServerLink("PATCH", {"slug"}, <<Slug, Field("slug", "form", "string", TRUE)>>)) @@
     (<<<<"users">>, <<"groups">>, <<"bulk">>>> :> ServerLink("POST", {"id"}, <<Id, Name, Data>>)) @@
     (<<<<"users">>, <<"groups">>, <<"search">>>> :> ServerLink("GET", {}, <<Active, Field("score", Absent, "number", FALSE)>>)) @@
     (<<<<"users">>, <<"_", "tags">>>> :> ServerLink("PUT", {"tags"}, <<Field("tags", "path", "string", TRUE), Tags>>)) @@
     (<<<<"users">>, <<"user", "_", "type">>>> :> ServerLink("POST", {}, <<Name, Options, Active>>)) @@
     (<<<<"_", "type">>, <<"list">>>> :> ServerLink("GET", {}, <<Page>>)) @@
     (<<<<"_", "_", "meta">>, <<"read">>>> :> ServerLink("GET", {"slug"}, <<Slug>>)) @@
     (<<<<"list">>>> :> ServerLink("GET", {}, <<Page>>)),
     (<<<<"list">>>> :> ServerLink("GET", {}, <<Page>>))}

\* The documents are of the kind that the theorems are about.
ASSUME DocumentsAreGenerated ==
    \A d \in Documents : NamesReturn(d) /\ SectionsAreNamed(d) /\ SchemesAreKnown(d)
                          /\ PathsAreFields(d) /\ OneBody(d)

Found == [status |-> 200, contentType |-> "application/json", wellFormed |-> TRUE]
Missing == [status |-> 404, contentType |-> "application/json", wellFormed |-> TRUE]
Deleted == [status |-> 204, contentType |-> Absent, wellFormed |-> TRUE]
Image == [status |-> 200, contentType |-> "image/png", wellFormed |-> TRUE]
OneAnswer == {Found}
FourAnswers == {Found, Missing, Deleted, Image}
=============================================================================
