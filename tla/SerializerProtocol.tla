------------------------- MODULE SerializerProtocol -------------------------
(***************************************************************************)
(* The protocol of a serializer (rest_framework/serializers.py): a view     *)
(* calls is_valid, save and data in any order, and the serializer keeps     *)
(* what they gave in _validated_data, _errors, _data and instance.  The     *)
(* assertions of BaseSerializer refuse the orders that would lose           *)
(* something; ListSerializer has its own is_valid and save.                 *)
(*                                                                         *)
(* create() and update() are the project's or ModelSerializer's: they write *)
(* and return an instance, or raise before or after they wrote, or return   *)
(* None.                                                                    *)
(***************************************************************************)
EXTENDS Integers

CONSTANTS
    Unset,     \* the attribute does not exist
    None,
    MaxWrites  \* bound on the writes to the database

ASSUME SerializerAssumption ==
    /\ MaxWrites \in Nat
    /\ Unset # None /\ None \notin Nat

VARIABLES
    many,       \* it is a ListSerializer, as many=True makes it
    initial,    \* whether data= was passed: initial_data
    instance,   \* the version of the instance: None, 0 if it was passed or is an empty list, or
                \* that which was saved
    errors,     \* _errors: "unset", "ok" (none) or "bad"; _validated_data is set with it
    data,       \* _data: Unset, or what it represents
    writes,     \* the writes of create() and update(), which number the versions
    creates,    \* those of create()
    incomplete, \* create() wrote and did not return, or one of them returned None
    saved,      \* the version the last save() returned, None if it did not or before
    refused     \* the last call raised an AssertionError

vars == <<many, initial, instance, errors, data, writes, creates, incomplete, saved, refused>>

\* What data may represent: an instance, the validated data or the initial data.
Of(what, version) == [what |-> what, version |-> version]

Init ==
    /\ many \in BOOLEAN /\ initial \in BOOLEAN
    /\ instance \in {None, 0}
    /\ errors = "unset" /\ data = Unset
    /\ writes = 0 /\ creates = 0 /\ incomplete = FALSE
    /\ saved = None
    /\ refused = FALSE

Refuse ==
    /\ refused' = TRUE
    /\ UNCHANGED <<many, initial, instance, errors, data, writes, creates, incomplete, saved>>

\* is_valid: the first call validates, the others repeat its answer.
IsValid ==
    IF ~initial THEN Refuse
    ELSE /\ errors' \in IF errors = "unset" THEN {"ok", "bad"} ELSE {errors}
         /\ refused' = FALSE
         /\ UNCHANGED <<many, initial, instance, data, writes, creates, incomplete, saved>>

\* Access to data: of the instance, of the validated data or of the initial data; what it
\* was the first time.
Data ==
    IF initial /\ errors = "unset" THEN Refuse
    ELSE /\ data' = IF data # Unset THEN data
                    ELSE IF instance # None /\ errors # "bad" THEN Of("instance", instance)
                    ELSE Of(IF errors = "ok" THEN "validated" ELSE "initial", None)
         /\ refused' = FALSE
         /\ UNCHANGED <<many, initial, instance, errors, writes, creates, incomplete, saved>>

(***************************************************************************)
(* save.                                                                    *)
(***************************************************************************)
\* create() or update() writes and returns the instance.
Written ==
    /\ writes' = writes + 1
    /\ creates' = IF instance = None THEN creates + 1 ELSE creates
    /\ instance' = writes'
    /\ saved' = instance'
    /\ refused' = FALSE
    /\ UNCHANGED incomplete

\* It raises before it wrote anything.
Raised == refused' = FALSE /\ UNCHANGED <<instance, writes, creates, incomplete, saved>>

\* It wrote, and raises, or returns None, which an assertion refuses after it was assigned.
Interrupted ==
    /\ writes' = writes + 1
    /\ creates' = IF instance = None THEN creates + 1 ELSE creates
    /\ saved' = None
    /\ \/ /\ refused' = FALSE
          /\ incomplete' = (incomplete \/ instance = None)
          /\ UNCHANGED instance
       \/ /\ refused' = TRUE
          /\ incomplete' = TRUE
          /\ instance' = None

\* Mutants of Save: data that was accessed does not prevent it; the errors do not; the
\* instance that create() returned is forgotten.
SaveAfterData ==
    IF errors \in {"unset", "bad"} THEN Refuse
    ELSE /\ Written \/ Raised \/ Interrupted
         /\ UNCHANGED <<many, initial, errors, data>>
SaveInvalid ==
    IF errors = "unset" \/ data # Unset THEN Refuse
    ELSE /\ Written \/ Raised \/ Interrupted
         /\ UNCHANGED <<many, initial, errors, data>>
SaveAndForget ==
    IF errors \in {"unset", "bad"} \/ data # Unset THEN Refuse
    ELSE /\ \/ /\ writes' = writes + 1
               /\ creates' = IF instance = None THEN creates + 1 ELSE creates
               /\ saved' = writes'
               /\ refused' = FALSE
               /\ UNCHANGED <<instance, incomplete>>
            \/ Raised \/ Interrupted
         /\ UNCHANGED <<many, initial, errors, data>>

\* BaseSerializer.save.
Save ==
    IF errors \in {"unset", "bad"} \/ data # Unset THEN Refuse
    ELSE /\ Written \/ Raised \/ Interrupted
         /\ UNCHANGED <<many, initial, errors, data>>

\* ListSerializer.save: access to validated_data asserts that there is one; with errors it
\* is empty, and nothing is created.  update() raises NotImplementedError.
SaveList ==
    IF errors = "unset" THEN Refuse
    ELSE /\ IF instance # None THEN Raised
            ELSE IF errors = "bad"
            THEN /\ instance' = 0 /\ saved' = 0 /\ refused' = FALSE
                 /\ UNCHANGED <<writes, creates, incomplete>>
            ELSE Written \/ Raised \/ Interrupted
         /\ UNCHANGED <<many, initial, errors, data>>

Next ==
    \/ IsValid \/ Data
    \/ writes < MaxWrites /\ IF many THEN SaveList ELSE Save

Spec == Init /\ [][Next]_vars

(***************************************************************************)
(* Properties.                                                              *)
(***************************************************************************)
\* Every variable has the shape serializers.py gives it.
TypeOK ==
    /\ many \in BOOLEAN /\ initial \in BOOLEAN /\ refused \in BOOLEAN /\ incomplete \in BOOLEAN
    /\ writes \in Nat /\ creates \in Nat /\ creates <= writes
    /\ instance \in {None} \cup Nat
    /\ saved \in {None} \cup Nat
    /\ errors \in {"unset", "ok", "bad"}
    /\ data \in {Unset} \cup
         [what : {"instance", "validated", "initial"}, version : {None} \cup Nat]

\* "You cannot call `.save()` after accessing `serializer.data`": what a view returns from
\* serializer.data after a save is what that save left, however the calls are ordered.
DataIsCurrent == saved # None /\ data # Unset => data = Of("instance", saved)

\* It holds of the serializer of one object.
DataIsWhatWasSaved == ~many => DataIsCurrent

\* The same assertion of a list: ListSerializer.save does not have it.
ListDataIsWhatWasSaved == many => DataIsCurrent

\* "You cannot call `.save()` on a serializer with invalid data": nothing that is_valid
\* refused is ever written, by a list either, and save of one object does not even return.
SavedWasValid == writes > 0 \/ (saved # None /\ ~many) => errors = "ok"

\* A serializer without an instance creates one at most, however often save is called and
\* fails, unless create() or update() wrote and did not return what it wrote.
CreatedOnce == creates > 1 => incomplete
=============================================================================
