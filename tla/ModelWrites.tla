----------------------------- MODULE ModelWrites -----------------------------
(***************************************************************************)
(* The generic views that write (rest_framework/mixins.py) with a           *)
(* ModelSerializer (rest_framework/serializers.py) and its uniqueness        *)
(* validators (rest_framework/validators.py).  Workers create, update,      *)
(* partially update and destroy the rows of one table.  Each request reads  *)
(* the instance, looks for conflicting rows, and writes, in queries of      *)
(* their own: without ATOMIC_REQUESTS other workers write in between.       *)
(*                                                                         *)
(* A row has two fields: a, and b, which may be nullable.  UniqueValidator  *)
(* is on a, UniqueTogetherValidator on both, and UniqueForDateValidator on  *)
(* a for the date b.  The database may enforce the constraints itself.      *)
(***************************************************************************)
EXTENDS Integers, Sequences, FiniteSets

CONSTANTS
    Workers,
    As, Bs,       \* the values of the fields a and b
    None,         \* NULL
    Missing,      \* the field is not in the data
    Absent,       \* no row, no instance
    MaxPk,        \* bound on the rows ever inserted
    Validators,   \* the validators of the serializer
    Constraints,  \* the constraints of the database
    Operations,   \* what the view lets clients do
    MaxItems,     \* bound on the items of a list to create (many=True)
    ReadOnly      \* b is read-only, with the current user as its default

Pks == 1..MaxPk
Rows == [a : As, b : Bs]
\* The data of a request; for a read-only b the client's value is ignored.
Inputs == {d \in [a : As \cup {Missing}, b : Bs \cup {Missing}] : ReadOnly => d.b = Missing}

ASSUME ModelWritesAssumption ==
    /\ None \notin As /\ {Missing, Absent} \cap (As \cup Bs) = {} /\ None # Missing
    /\ Absent \notin Rows
    /\ MaxPk \in Nat /\ MaxItems \in Nat \ {0}
    /\ Validators \subseteq {"unique", "together", "for_date"}
    /\ Validators \cap {"together", "for_date"} # {}
    /\ Constraints \subseteq {"unique", "together"}
    /\ Operations \subseteq {"create", "update", "partial_update", "destroy"}
    /\ ReadOnly \in BOOLEAN /\ (ReadOnly => None \notin Bs)

VARIABLES
    table,    \* the rows, by primary key
    nextPk,   \* the next primary key
    pc,       \* what the request of each worker does next
    request,  \* its operation, primary key, items and user
    item,     \* the number of the item at hand
    instance, \* serializer.instance
    refused,  \* the workers with an item that was refused
    status,   \* the status of the response, 0 before
    fresh,    \* the workers since whose request began no other wrote
    deleted   \* the rows that a DELETE was answered for

vars == <<table, nextPk, pc, request, item, instance, refused, status, fresh, deleted>>

Requests == [op : Operations \cup {"create"}, pk : Pks \cup {0}, items : Seq(Inputs),
             user : Bs \cup {None}]
NoRequest == [op |-> "create", pk |-> 0, items |-> <<>>, user |-> None]

Data(w) == request[w].items[item[w]]
Partial(w) == request[w].op = "partial_update"
Creating(w) == request[w].op = "create"

(***************************************************************************)
(* validated_data, and the row the serializer saves.                        *)
(***************************************************************************)
\* Whether a field is missing that is required: not in a partial update, and not if it has
\* a default, as get_uniqueness_extra_kwargs gives one to a nullable field.
Incomplete(w) ==
    ~Partial(w) /\ (Data(w).a = Missing \/ (Data(w).b = Missing /\ ~ReadOnly /\ None \notin Bs))

\* The fields that are given or have a default.
Validated(w) ==
    [Data(w) EXCEPT !.b = IF @ = Missing /\ ~Partial(w) /\ ~ReadOnly THEN None ELSE @]

\* Mutant of Saved: a partial update resets the field it does not name.
SavedWithDefault(w) ==
    LET given == Validated(w)
    IN  IF Creating(w) THEN [given EXCEPT !.b = IF ReadOnly THEN request[w].user ELSE @]
        ELSE [a |-> IF given.a = Missing THEN instance[w].a ELSE given.a,
              b |-> IF given.b = Missing
                    THEN IF None \in Bs THEN None ELSE instance[w].b ELSE given.b]

\* ModelSerializer.create, with save(b=request.user) if b is read-only, and update, which
\* sets the given attributes and saves the instance with all of them.
Saved(w) ==
    LET given == Validated(w)
    IN  IF Creating(w) THEN [given EXCEPT !.b = IF ReadOnly THEN request[w].user ELSE @]
        ELSE [f \in {"a", "b"} |-> IF given[f] = Missing THEN instance[w][f] ELSE given[f]]

(***************************************************************************)
(* The validators.                                                          *)
(***************************************************************************)
\* The rows other than pk: a create has no instance to exclude.
Others(pk) == {p \in Pks \ {pk} : table[p] # Absent}

\* UniqueValidator.
UniqueConflict(w) ==
    Data(w).a # Missing /\ \E p \in Others(request[w].pk) : table[p].a = Data(w).a

\* What the validators see: a read-only field has its default.
Attrs(w) ==
    [Validated(w) EXCEPT !.b = IF ReadOnly /\ ~Partial(w) THEN request[w].user ELSE @]

\* Mutant of Checked: the field that is not given is looked up as null.
CheckedAsGiven(w) ==
    [f \in {"a", "b"} |-> IF Attrs(w)[f] = Missing THEN None ELSE Attrs(w)[f]]

\* UniqueTogetherValidator.filter_queryset: an update completes them from the instance.
Checked(w) ==
    [f \in {"a", "b"} |-> IF Attrs(w)[f] = Missing THEN instance[w][f] ELSE Attrs(w)[f]]

\* Mutants of TogetherConflict: an update that changes one field only is not checked; a
\* null is looked up like any value.
TogetherConflictIfAllChanged(w) ==
    LET pair == Checked(w)
        changed == {f \in {"a", "b"} : Creating(w) \/ pair[f] # instance[w][f]}
    IN  /\ changed = {"a", "b"} /\ None \notin {pair[f] : f \in changed}
        /\ \E p \in Others(request[w].pk) : table[p] = pair
TogetherConflictOfNulls(w) ==
    LET pair == Checked(w)
        changed == {f \in {"a", "b"} : Creating(w) \/ pair[f] # instance[w][f]}
    IN  /\ changed # {}
        /\ \E p \in Others(request[w].pk) : table[p] = pair

\* UniqueTogetherValidator: of the fields that change none may be null.
TogetherConflict(w) ==
    LET pair == Checked(w)
        changed == {f \in {"a", "b"} : Creating(w) \/ pair[f] # instance[w][f]}
    IN  /\ changed # {} /\ None \notin {pair[f] : f \in changed}
        /\ \E p \in Others(request[w].pk) : table[p] = pair

\* The validators share one dict: the fields that UniqueTogetherValidator has completed
\* are there for the next.
DateAttrs(w) == IF "together" \in Validators /\ ~Creating(w) THEN Checked(w) ELSE Attrs(w)

\* UniqueForDateValidator: both fields are required, also in a partial update, and the
\* date is taken apart.
DateMissing(w) == Missing \in {DateAttrs(w).a, DateAttrs(w).b}
DateFails(w) == ~DateMissing(w) /\ DateAttrs(w).b = None
DateConflict(w) == \E p \in Others(request[w].pk) : table[p] = DateAttrs(w)

(***************************************************************************)
(* The constraints: whether row, written at pk, conflicts with another.     *)
(* The database takes no two nulls for equal.                               *)
(***************************************************************************)
Conflicts(kinds, pk, row) ==
    \E p \in Others(pk) :
        \/ "unique" \in kinds /\ table[p].a = row.a
        \/ kinds \cap {"together", "for_date"} # {} /\ table[p] = row /\ row.b # None

(***************************************************************************)
(* Actions.                                                                 *)
(***************************************************************************)
Init ==
    /\ table \in [Pks -> Rows \cup {Absent}]
    /\ nextPk \in Pks /\ \A p \in Pks : table[p] # Absent => p < nextPk
    /\ \A p \in Pks : table[p] # Absent => ~Conflicts(Validators \cup Constraints, p, table[p])
    /\ pc = [w \in Workers |-> "idle"]
    /\ request = [w \in Workers |-> NoRequest]
    /\ item = [w \in Workers |-> 1]
    /\ instance = [w \in Workers |-> Absent]
    /\ refused = {}
    /\ status = [w \in Workers |-> 0]
    /\ fresh = Workers
    /\ deleted = {}

Goto(w, p) == pc' = [pc EXCEPT ![w] = p]

Respond(w, code) ==
    /\ Goto(w, "done")
    /\ status' = [status EXCEPT ![w] = code]

\* The request of worker w arrives.
Begin(w) ==
    /\ pc[w] = "idle"
    /\ \E op \in Operations, pk \in Pks, user \in IF ReadOnly THEN Bs ELSE {None} :
        \E items \in IF op = "create" THEN UNION {[1..n -> Inputs] : n \in 1..MaxItems}
                     ELSE IF op = "destroy" THEN {<<>>} ELSE [1..1 -> Inputs] :
            request' = [request EXCEPT ![w] =
                [op |-> op, pk |-> IF op = "create" THEN 0 ELSE pk, items |-> items, user |-> user]]
    /\ Goto(w, IF Creating(w)' THEN "fields" ELSE "get_object")
    /\ fresh' = fresh \cup {w}
    /\ UNCHANGED <<table, nextPk, item, instance, refused, status, deleted>>

\* get_object.
GetObject(w) ==
    /\ pc[w] = "get_object"
    /\ IF table[request[w].pk] = Absent
       THEN Respond(w, 404) /\ UNCHANGED instance
       ELSE /\ instance' = [instance EXCEPT ![w] = table[request[w].pk]]
            /\ Goto(w, IF request[w].op = "destroy" THEN "delete" ELSE "fields")
            /\ UNCHANGED status
    /\ UNCHANGED <<table, nextPk, request, item, refused, fresh, deleted>>

\* On to the next item; after the last one is_valid(raise_exception=True) raises if any
\* item was refused.
NextItem(w, ok) ==
    /\ refused' = IF ok THEN refused ELSE refused \cup {w}
    /\ IF item[w] < Len(request[w].items)
       THEN /\ item' = [item EXCEPT ![w] = @ + 1]
            /\ Goto(w, "fields")
            /\ UNCHANGED status
       ELSE IF w \notin refused'
       THEN /\ item' = [item EXCEPT ![w] = 1]
            /\ Goto(w, "save")
            /\ UNCHANGED status
       ELSE Respond(w, 400) /\ UNCHANGED item

\* Serializer.to_internal_value: the fields with their validators.
ValidateFields(w) ==
    /\ pc[w] = "fields"
    /\ IF Incomplete(w) \/ ("unique" \in Validators /\ UniqueConflict(w))
       THEN NextItem(w, FALSE)
       ELSE Goto(w, "validators") /\ UNCHANGED <<item, refused, status>>
    /\ UNCHANGED <<table, nextPk, request, instance, fresh, deleted>>

\* Serializer.run_validators.
Validate(w) ==
    /\ pc[w] = "validators"
    /\ IF "for_date" \in Validators /\ DateFails(w)
       THEN Respond(w, 500) /\ UNCHANGED <<item, refused>>
       ELSE NextItem(w,
              /\ "together" \in Validators => ~TogetherConflict(w)
              /\ "for_date" \in Validators => ~DateMissing(w) /\ ~DateConflict(w))
    /\ UNCHANGED <<table, nextPk, request, instance, fresh, deleted>>

\* What the others have read is not current any more.
Changed(w) == fresh' = fresh \cap {w}

\* perform_create: the items one by one; an IntegrityError leaves the earlier ones.
Create(w) ==
    /\ pc[w] = "save" /\ Creating(w)
    /\ nextPk \in Pks
    /\ nextPk' = nextPk + 1
    /\ IF Conflicts(Constraints, nextPk, Saved(w))
       THEN Respond(w, 500) /\ UNCHANGED <<table, item, fresh>>
       ELSE /\ table' = [table EXCEPT ![nextPk] = Saved(w)]
            /\ Changed(w)
            /\ IF item[w] < Len(request[w].items)
               THEN item' = [item EXCEPT ![w] = @ + 1] /\ UNCHANGED <<pc, status>>
               ELSE Respond(w, 201) /\ UNCHANGED item
    /\ UNCHANGED <<request, instance, refused, deleted>>

\* perform_update: instance.save() is an UPDATE of all fields, or an INSERT if the row is
\* gone.
Update(w) ==
    /\ pc[w] = "save" /\ ~Creating(w)
    /\ IF Conflicts(Constraints, request[w].pk, Saved(w))
       THEN Respond(w, 500) /\ UNCHANGED <<table, fresh>>
       ELSE /\ table' = [table EXCEPT ![request[w].pk] = Saved(w)]
            /\ Changed(w)
            /\ Respond(w, 200)
    /\ UNCHANGED <<nextPk, request, item, instance, refused, deleted>>

\* perform_destroy: a DELETE, whether the row is still there or not.
Destroy(w) ==
    /\ pc[w] = "delete"
    /\ table' = [table EXCEPT ![request[w].pk] = Absent]
    /\ deleted' = deleted \cup {request[w].pk}
    /\ Changed(w)
    /\ Respond(w, 204)
    /\ UNCHANGED <<nextPk, request, item, instance, refused>>

Next == \E w \in Workers :
    \/ Begin(w) \/ GetObject(w) \/ ValidateFields(w) \/ Validate(w)
    \/ Create(w) \/ Update(w) \/ Destroy(w)

Spec == Init /\ [][Next]_vars

(***************************************************************************)
(* Type invariant.                                                          *)
(***************************************************************************)
\* Every variable has the shape mixins.py and serializers.py give it.
TypeOK ==
    /\ table \in [Pks -> Rows \cup {Absent}]
    /\ nextPk \in Pks \cup {MaxPk + 1}
    /\ pc \in [Workers -> {"idle", "get_object", "fields", "validators", "save", "delete", "done"}]
    /\ request \in [Workers -> Requests]
    /\ item \in [Workers -> 1..MaxItems]
    /\ instance \in [Workers -> Rows \cup {Absent}]
    /\ refused \subseteq Workers
    /\ status \in [Workers -> {0, 200, 201, 204, 400, 404, 500}]
    /\ fresh \subseteq Workers
    /\ deleted \subseteq Pks

(***************************************************************************)
(* Safety.                                                                  *)
(***************************************************************************)
Single(w) == Len(request[w].items) = 1

\* The validators are enough where nobody interferes: unless another worker wrote since the
\* request began, or the row as it was conflicted already, the row a worker is about to
\* save conflicts with no other, whatever the fields that its data leaves out.
ValidatorsSuffice ==
    \A w \in Workers, kind \in Validators :
        /\ pc[w] = "save" /\ Single(w) /\ w \in fresh
        /\ Creating(w) \/ ~Conflicts({kind}, request[w].pk, instance[w])
        => ~Conflicts({kind}, request[w].pk, Saved(w))

\* A constraint of the database that the serializer validates makes a server error only
\* of a race, or of the items of one list among each other.
ServerErrorsAreRaces ==
    \A w \in Workers : status[w] = 500 => w \notin fresh \/ ~Single(w)

\* A write whose reads are current touches one row: a create a new one, an update an
\* existing one, of which it leaves alone the fields that the client did not send.
OthersKept ==
    [][\A w \in Workers : w \in fresh /\ pc[w] = "save" /\ table' # table /\ pc'[w] # pc[w]
        => \E q \in Pks :
            /\ \A p \in Pks \ {q} : table'[p] = table[p]
            /\ table'[q] # Absent
            /\ Creating(w) <=> table[q] = Absent
            /\ Partial(w) => \A f \in {"a", "b"} :
                 Data(w)[f] = Missing => table'[q][f] = table[q][f]]_vars

\* The validators refuse data that is complete only for what the constraints would: the
\* row that would be saved conflicts with another one at that moment.  Updates of a row
\* with a null are left out.
RefusalsAreConflicts ==
    [][\A w \in Workers :
        /\ w \notin refused /\ w \in refused' /\ ~Incomplete(w)
        /\ pc[w] = "validators" => Creating(w) \/ instance[w].b # None
        /\ ~("for_date" \in Validators /\ DateMissing(w))
        => Conflicts(Validators, request[w].pk, Saved(w))]_vars

\* "any unprovided field should have it's value set based on the existing instance
\* attribute": the pair of values that UniqueTogetherValidator looks for is the one that is
\* saved, also if other workers change the row between the two.
CheckedIsSaved ==
    \A w \in Workers : pc[w] = "validators" => Checked(w) = Saved(w)

\* "None values that are on fields which are part of the uniqueness constraint cause the
\* instance to ignore uniqueness validation."
NullsAreIgnored ==
    [][\A w \in Workers : pc[w] = "validators" /\ w \notin refused /\ w \in refused'
        => Saved(w).b # None]_vars

\* "we now use 404 behavior as the default": no PUT or PATCH creates a row, so that a row
\* that was deleted stays deleted.
DeletedStaysDeleted == \A p \in deleted : table[p] = Absent

\* "Ensures that queryset.exists() for an invalid value returns `False`, rather than raising
\* an error": without constraints in the database no request ends as a server error.
ValidatorsDoNotFail == \A w \in Workers : status[w] # 500
=============================================================================
