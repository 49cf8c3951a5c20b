-------------------------- MODULE ModelWritesProofs --------------------------
(***************************************************************************)
(* Proofs about ModelWrites, for any number of workers, rows, values and    *)
(* items of a list.                                                         *)
(***************************************************************************)
EXTENDS ModelWrites, SequenceTheorems, TLAPS

(***************************************************************************)
(* The inductive invariants.                                                *)
(***************************************************************************)
Items(w) == request[w].items

\* No required field of item i is missing; ~Incomplete(w) is this of the item at hand.
Complete(w, i) ==
    LET d == Items(w)[i]
    IN  Partial(w) \/ (d.a # Missing /\ (d.b # Missing \/ ReadOnly \/ None \in Bs))

\* Where a worker is in its request.
Shape(w) ==
    /\ pc[w] \in {"get_object", "delete"} => request[w].pk \in Pks
    /\ pc[w] \in {"get_object", "delete"} => ~Creating(w)
    /\ pc[w] = "get_object" => request[w].op = "destroy" \/ Len(Items(w)) = 1
    /\ pc[w] = "get_object" /\ ReadOnly => request[w].user \in Bs
    /\ pc[w] = "idle" => item[w] = 1
    /\ pc[w] = "get_object" => item[w] = 1
    /\ pc[w] \in {"fields", "validators", "save"} =>
         /\ item[w] \in 1..Len(Items(w))
         /\ Len(Items(w)) <= MaxItems
         /\ Creating(w) => request[w].pk = 0
         /\ ~Creating(w) => request[w].pk \in Pks /\ instance[w] \in Rows
         /\ ReadOnly => request[w].user \in Bs
    /\ pc[w] \in {"fields", "validators"} /\ w \notin refused =>
         \A i \in 1..(item[w] - 1) : Complete(w, i)
    /\ pc[w] = "validators" => Complete(w, item[w])
    /\ pc[w] = "save" => \A i \in 1..Len(Items(w)) : Complete(w, i)

ShapeInv == \A w \in Workers : Shape(w)

\* A write brings no conflict of this kind that was not there.
Safe(w, kind) ==
    Creating(w) \/ ~Conflicts({kind}, request[w].pk, instance[w])
        => ~Conflicts({kind}, request[w].pk, Saved(w))

\* What a worker whose reads are current has found out so far.
SafeInv == \A w \in Workers : w \in fresh /\ Single(w) =>
    /\ pc[w] = "validators" /\ "unique" \in Validators => Safe(w, "unique")
    /\ pc[w] = "save" => \A kind \in Validators : Safe(w, kind)

(***************************************************************************)
(* The data, and the row that is saved.                                     *)
(***************************************************************************)
LEMMA ItemIsInput ==
    ASSUME TypeOK, NEW w \in Workers, NEW i \in 1..Len(Items(w))
    PROVE  Items(w)[i] \in Inputs
  <1>1. Items(w) \in Seq(Inputs)
    BY DEF TypeOK, Requests, Items
  <1> QED
    BY <1>1, ElementOfSeq

LEMMA CompleteItem ==
    ASSUME NEW w \in Workers
    PROVE  Complete(w, item[w]) <=> ~Incomplete(w)
  BY DEF Complete, Incomplete, Data, Items

LEMMA DataFields ==
    ASSUME NEW w \in Workers, Data(w) \in Inputs
    PROVE  /\ Data(w).a \in As \cup {Missing}
           /\ Data(w).b \in Bs \cup {Missing}
           /\ Validated(w).a = Data(w).a
           /\ Data(w).b # Missing => Validated(w).b = Data(w).b
           /\ Data(w).b = Missing =>
                Validated(w).b = IF ~Partial(w) /\ ~ReadOnly THEN None ELSE Missing
  BY DEF Inputs, Validated

LEMMA SavedIsRow ==
    ASSUME NEW w \in Workers, Data(w) \in Inputs, ~Incomplete(w),
           Creating(w) \/ instance[w] \in Rows, ReadOnly => request[w].user \in Bs
    PROVE  Saved(w) \in Rows
  <1>1. CASE Creating(w)
    BY <1>1, DataFields, ModelWritesAssumption
       DEF Saved, Rows, Inputs, Creating, Partial, Incomplete, Validated
  <1>2. CASE ~Creating(w)
    BY <1>2, DataFields, ModelWritesAssumption
       DEF Saved, Rows, Inputs, Creating, Partial, Incomplete, Validated
  <1> QED
    BY <1>1, <1>2

\* Of the first field the row has what is given, or what the instance had.
LEMMA SavedField ==
    ASSUME NEW w \in Workers, Data(w) \in Inputs, ~Incomplete(w)
    PROVE  Saved(w).a = IF Data(w).a = Missing THEN instance[w].a ELSE Data(w).a
  <1>1. CASE Creating(w)
    BY <1>1, DataFields DEF Saved, Inputs, Incomplete, Creating, Partial, Validated
  <1>2. CASE ~Creating(w)
    BY <1>2, DataFields DEF Saved
  <1> QED
    BY <1>1, <1>2

\* The pair that is looked for is the one that is saved.
LEMMA CheckedSaved ==
    ASSUME NEW w \in Workers, Data(w) \in Inputs, ~Incomplete(w), ~ReadOnly,
           Creating(w) \/ instance[w] \in Rows
    PROVE  Checked(w) = Saved(w)
  <1>1. CASE Creating(w)
    BY <1>1, DataFields, ModelWritesAssumption
       DEF Saved, Rows, Inputs, Creating, Partial, Incomplete, Validated, Checked, Attrs
  <1>2. CASE ~Creating(w)
    BY <1>2, DataFields, ModelWritesAssumption
       DEF Saved, Rows, Inputs, Creating, Partial, Incomplete, Validated, Checked, Attrs
  <1> QED
    BY <1>1, <1>2

(***************************************************************************)
(* Types, and where a worker is.                                            *)
(***************************************************************************)
\* The step of w leaves the request of every other worker where it was.
Alone(w) == \A v \in Workers \ {w} :
    /\ pc'[v] = pc[v] /\ request'[v] = request[v] /\ item'[v] = item[v]
    /\ instance'[v] = instance[v] /\ (v \in refused' <=> v \in refused) /\ status'[v] = status[v]

Step(w) ==
    \/ Begin(w) \/ GetObject(w) \/ ValidateFields(w) \/ Validate(w)
    \/ Create(w) \/ Update(w) \/ Destroy(w)

\* Which items a list of data may have.
LEMMA RequestItems ==
    ASSUME NEW op \in Operations,
           NEW items \in IF op = "create" THEN UNION {[1..n -> Inputs] : n \in 1..MaxItems}
                         ELSE IF op = "destroy" THEN {<<>>} ELSE [1..1 -> Inputs]
    PROVE  /\ items \in Seq(Inputs)
           /\ op # "destroy" => Len(items) \in 1..MaxItems
           /\ op \notin {"create", "destroy"} => Len(items) = 1
  <1>1. ASSUME NEW n \in 1..MaxItems, NEW seq \in [1..n -> Inputs]
        PROVE  seq \in Seq(Inputs) /\ Len(seq) = n
    <2>1. n \in Nat
      BY ModelWritesAssumption
    <2>2. seq \in Seq(Inputs)
      BY <2>1, SeqDef
    <2> QED
      BY <2>1, <2>2, LenProperties
  <1>2. 1 \in 1..MaxItems
    BY ModelWritesAssumption
  <1>3. CASE op = "create"
    BY <1>1, <1>3
  <1>4. CASE op = "destroy"
    BY <1>4, EmptySeq
  <1>5. CASE op \notin {"create", "destroy"}
    <2>1. items \in [1..1 -> Inputs]
      BY <1>5
    <2> QED
      BY <2>1, <1>1, <1>2, <1>5
  <1> QED
    BY <1>3, <1>4, <1>5

LEMMA OthersAreLeftAlone ==
    ASSUME TypeOK, NEW w \in Workers, Step(w)
    PROVE  Alone(w)
  <1>1. CASE Begin(w)
    BY <1>1 DEF Alone, Begin, TypeOK, Goto
  <1>2. CASE GetObject(w)
    BY <1>2 DEF Alone, GetObject, TypeOK, Goto, Respond
  <1>3. CASE ValidateFields(w)
    BY <1>3 DEF Alone, ValidateFields, NextItem, TypeOK, Goto, Respond
  <1>4. CASE Validate(w)
    BY <1>4 DEF Alone, Validate, NextItem, TypeOK, Goto, Respond
  <1>5. CASE Create(w)
    BY <1>5 DEF Alone, Create, TypeOK, Goto, Respond
  <1>6. CASE Update(w)
    BY <1>6 DEF Alone, Update, TypeOK, Goto, Respond
  <1>7. CASE Destroy(w)
    BY <1>7 DEF Alone, Destroy, TypeOK, Goto, Respond
  <1> QED
    BY <1>1, <1>2, <1>3, <1>4, <1>5, <1>6, <1>7 DEF Step

\* The row a worker saves is one.
LEMMA SavesRow ==
    ASSUME TypeOK, NEW w \in Workers, Shape(w), pc[w] = "save"
    PROVE  /\ Data(w) \in Inputs
           /\ ~Incomplete(w)
           /\ Saved(w) \in Rows
  <1>1. item[w] \in 1..Len(Items(w)) /\ Complete(w, item[w])
    BY DEF Shape
  <1>2. Data(w) \in Inputs
    BY <1>1, ItemIsInput DEF Data, Items
  <1>3. ~Incomplete(w)
    BY <1>1, CompleteItem
  <1> QED
    BY <1>2, <1>3, SavedIsRow DEF Shape

LEMMA TypeStep ==
    ASSUME TypeOK, ShapeInv, NEW w \in Workers, Step(w)
    PROVE  TypeOK'
  <1> USE ModelWritesAssumption
  <1>0. Shape(w) /\ Len(Items(w)) \in Nat
    BY LenProperties DEF ShapeInv, TypeOK, Requests, Items
  <1>1. CASE Begin(w)
    <2>1. PICK op \in Operations, pk \in Pks, user \in IF ReadOnly THEN Bs ELSE {None} :
            \E items \in IF op = "create" THEN UNION {[1..n -> Inputs] : n \in 1..MaxItems}
                         ELSE IF op = "destroy" THEN {<<>>} ELSE [1..1 -> Inputs] :
                request' = [request EXCEPT ![w] =
                    [op |-> op, pk |-> IF op = "create" THEN 0 ELSE pk, items |-> items,
                     user |-> user]]
      BY <1>1 DEF Begin
    <2>2. request' \in [Workers -> Requests]
      BY <2>1, RequestItems DEF TypeOK, Requests
    <2>3. pc' \in [Workers -> {"idle", "get_object", "fields", "validators", "save",
                               "delete", "done"}]
      BY <1>1 DEF Begin, TypeOK, Goto
    <2> QED
      BY <2>2, <2>3, <1>1 DEF Begin, TypeOK
  <1>2. CASE GetObject(w)
    <2>1. request[w].pk \in Pks
      BY <1>0, <1>2 DEF GetObject, Shape
    <2> QED
      BY <1>2, <2>1 DEF GetObject, TypeOK, Goto, Respond
  <1>3. ASSUME NEW ok \in BOOLEAN, NextItem(w, ok), pc[w] \in {"fields", "validators"}
        PROVE  /\ pc' \in [Workers -> {"idle", "get_object", "fields", "validators", "save",
                                       "delete", "done"}]
               /\ item' \in [Workers -> 1..MaxItems]
               /\ refused' \subseteq Workers
               /\ status' \in [Workers -> {0, 200, 201, 204, 400, 404, 500}]
    <2>1. item[w] < Len(Items(w)) => item[w] + 1 \in 1..MaxItems
      BY <1>0, <1>3 DEF Shape, TypeOK
    <2>2. refused' \subseteq Workers
      BY <1>3 DEF NextItem, TypeOK
    <2>3. item' \in [Workers -> 1..MaxItems]
      BY <2>1, <1>3 DEF NextItem, TypeOK, Items
    <2>4. status' \in [Workers -> {0, 200, 201, 204, 400, 404, 500}]
      <3>1. UNCHANGED status \/ Respond(w, 400)
        BY <1>3 DEF NextItem
      <3> QED
        BY <3>1 DEF TypeOK, Respond
    <2>5. pc' \in [Workers -> {"idle", "get_object", "fields", "validators", "save",
                               "delete", "done"}]
      BY <1>3 DEF NextItem, TypeOK, Goto, Respond
    <2> QED
      BY <2>2, <2>3, <2>4, <2>5
  <1>4. CASE ValidateFields(w)
    <2>1. CASE NextItem(w, FALSE)
      <3>1. pc[w] \in {"fields", "validators"}
            /\ UNCHANGED <<table, nextPk, request, instance, fresh, deleted>>
        BY <1>4 DEF ValidateFields
      <3> QED
        BY <2>1, <3>1, <1>3, ZenonT(30) DEF TypeOK
    <2>2. CASE Goto(w, "validators") /\ UNCHANGED <<item, refused, status>>
      BY <1>4, <2>2 DEF ValidateFields, TypeOK, Goto
    <2> QED
      BY <1>4, <2>1, <2>2 DEF ValidateFields
  <1>5. CASE Validate(w)
    <2>1. CASE Respond(w, 500) /\ UNCHANGED <<item, refused>>
      BY <1>5, <2>1 DEF Validate, TypeOK, Goto, Respond
    <2>2. ASSUME NEW ok \in BOOLEAN, NextItem(w, ok)
          PROVE  TypeOK'
      <3>1. pc[w] \in {"fields", "validators"}
            /\ UNCHANGED <<table, nextPk, request, instance, fresh, deleted>>
        BY <1>5 DEF Validate
      <3> QED
        BY <2>2, <3>1, <1>3 DEF TypeOK
    <2> QED
      BY <1>5, <2>1, <2>2 DEF Validate
  <1>6. CASE Create(w)
    <2>1. Saved(w) \in Rows /\ item[w] \in 1..Len(Items(w)) /\ Len(Items(w)) <= MaxItems
      BY <1>6, <1>0, SavesRow DEF Create, Shape
    <2>2. item[w] < Len(Items(w)) => item[w] + 1 \in 1..MaxItems
      BY <1>0, <2>1 DEF TypeOK
    <2>3. nextPk' \in Pks \cup {MaxPk + 1}
      BY <1>6 DEF Create, TypeOK, Pks
    <2>4. fresh' \subseteq Workers
      BY <1>6 DEF Create, TypeOK, Changed
    <2>5. table' \in [Pks -> Rows \cup {Absent}]
      BY <1>6, <2>1 DEF Create, TypeOK
    <2>6. item' \in [Workers -> 1..MaxItems]
      BY <1>6, <2>2, SMTT(30) DEF Create, TypeOK, Items
    <2>7. \/ UNCHANGED <<pc, status>>
          \/ Respond(w, 500)
          \/ Respond(w, 201)
      BY <1>6 DEF Create
    <2>8. /\ pc' \in [Workers -> {"idle", "get_object", "fields", "validators", "save",
                                  "delete", "done"}]
          /\ status' \in [Workers -> {0, 200, 201, 204, 400, 404, 500}]
      BY <2>7 DEF TypeOK, Respond, Goto
    <2> QED
      BY <1>6, <2>3, <2>4, <2>5, <2>6, <2>8 DEF Create, TypeOK
  <1>7. CASE Update(w)
    <2>1. Saved(w) \in Rows
      BY <1>7, <1>0, SavesRow DEF Update
    <2>2. fresh' \subseteq Workers
      BY <1>7 DEF Update, TypeOK, Changed
    <2> QED
      BY <1>7, <2>1, <2>2 DEF Update, TypeOK, Goto, Respond
  <1>8. CASE Destroy(w)
    <2>1. fresh' \subseteq Workers
      BY <1>8 DEF Destroy, TypeOK, Changed
    <2>2. request[w].pk \in Pks
      BY <1>8, <1>0 DEF Destroy, Shape
    <2> QED
      BY <1>8, <2>1, <2>2 DEF Destroy, TypeOK, Goto, Respond
  <1> QED
    BY <1>1, <1>2, <1>4, <1>5, <1>6, <1>7, <1>8 DEF Step

LEMMA ShapeStep ==
    ASSUME TypeOK, ShapeInv, NEW w \in Workers, Step(w)
    PROVE  ShapeInv'
  <1> USE ModelWritesAssumption
  <1>0. Shape(w) /\ Len(Items(w)) \in Nat /\ Alone(w)
    BY LenProperties, OthersAreLeftAlone DEF ShapeInv, TypeOK, Requests, Items
  <1>1. ASSUME NEW v \in Workers, v # w
        PROVE  Shape(v)'
    <2>1. /\ pc'[v] = pc[v] /\ request'[v] = request[v] /\ item'[v] = item[v]
          /\ instance'[v] = instance[v] /\ (v \in refused' <=> v \in refused)
      BY <1>0, <1>1 DEF Alone
    <2>2. Items(v)' = Items(v) /\ (Creating(v)' <=> Creating(v))
      BY <2>1 DEF Items, Creating
    <2>3. ASSUME NEW i
          PROVE  Complete(v, i)' <=> Complete(v, i)
      BY <2>1, <2>2 DEF Complete, Partial
    <2> QED
      BY <1>1, <2>1, <2>2, <2>3 DEF ShapeInv, Shape
  <1>2. Shape(w)'
    <2>1. CASE Begin(w)
      <3>1. PICK op \in Operations, pk \in Pks, user \in IF ReadOnly THEN Bs ELSE {None} :
            \E items \in IF op = "create" THEN UNION {[1..n -> Inputs] : n \in 1..MaxItems}
                         ELSE IF op = "destroy" THEN {<<>>} ELSE [1..1 -> Inputs] :
                request' = [request EXCEPT ![w] =
                    [op |-> op, pk |-> IF op = "create" THEN 0 ELSE pk, items |-> items,
                     user |-> user]]
        BY <2>1 DEF Begin
      <3>2. /\ request'[w].op = op /\ request'[w].user = user
            /\ request'[w].pk = IF op = "create" THEN 0 ELSE pk
            /\ op # "destroy" => Len(request'[w].items) \in 1..MaxItems
            /\ op \notin {"create", "destroy"} => Len(request'[w].items) = 1
        BY <3>1, RequestItems DEF TypeOK
      <3>3. /\ pc'[w] = IF op = "create" THEN "fields" ELSE "get_object"
            /\ item'[w] = 1
        BY <2>1, <3>2, <1>0 DEF Begin, Goto, TypeOK, Creating, Shape
      <3> QED
        BY <3>2, <3>3 DEF Shape, Creating, Items
    <2>2. CASE GetObject(w)
      <3>1. UNCHANGED <<request, item, refused>> /\ pc[w] = "get_object"
        BY <2>2 DEF GetObject
      <3>2. CASE pc'[w] = "done"
        BY <3>2 DEF Shape
      <3>3. CASE pc'[w] = "delete" /\ request[w].op = "destroy"
        BY <3>1, <3>3, <1>0 DEF Shape, Creating
      <3>4. CASE pc'[w] = "fields" /\ instance'[w] \in Rows /\ request[w].op # "destroy"
        <4>1. /\ item'[w] = 1 /\ Len(Items(w)') = 1 /\ request'[w] = request[w]
              /\ ~Creating(w)' /\ request[w].pk \in Pks /\ (ReadOnly => request[w].user \in Bs)
          BY <3>1, <3>4, <1>0 DEF Shape, Creating, Items
        <4>2. 1..(item'[w] - 1) = {} /\ item'[w] \in 1..Len(Items(w)')
          BY <4>1
        <4> QED
          BY <4>1, <4>2, <3>4 DEF Shape
      <3>5. request[w].pk \in Pks
        BY <3>1, <1>0 DEF Shape
      <3> QED
        BY <2>2, <3>2, <3>3, <3>4, <3>5 DEF GetObject, Goto, Respond, TypeOK
    <2>3. ASSUME NEW ok \in BOOLEAN, NextItem(w, ok), pc[w] \in {"fields", "validators"},
                 ok => Complete(w, item[w]), UNCHANGED <<request, instance>>
          PROVE  Shape(w)'
      <3>1. /\ w \notin refused' => w \notin refused /\ ok
            /\ item[w] \in 1..Len(Items(w))
        BY <2>3, <1>0 DEF NextItem, TypeOK, Shape
      <3>2. ASSUME NEW i \in Int
            PROVE  Complete(w, i)' = Complete(w, i)
        BY <2>3 DEF Complete, Items, Partial
      <3>3. w \notin refused' => \A i \in 1..item[w] : Complete(w, i)
        BY <2>3, <3>1, <1>0 DEF Shape
      <3>4. CASE item[w] < Len(Items(w))
        <4>1. pc'[w] = "fields" /\ item'[w] = item[w] + 1
          BY <2>3, <3>4 DEF NextItem, Goto, TypeOK, Items
        <4> QED
          BY <4>1, <3>1, <3>2, <3>3, <3>4, <2>3, <1>0 DEF Shape, Creating, Items
      <3>5. CASE ~(item[w] < Len(Items(w))) /\ w \notin refused'
        <4>1. pc'[w] = "save" /\ item'[w] = 1 /\ item[w] = Len(Items(w))
          BY <2>3, <3>1, <3>5, <1>0 DEF NextItem, Goto, TypeOK, Items
        <4> QED
          BY <4>1, <3>1, <3>2, <3>3, <3>5, <2>3, <1>0 DEF Shape, Creating, Items
      <3>6. CASE ~(item[w] < Len(Items(w))) /\ w \in refused'
        <4>1. pc'[w] = "done"
          BY <2>3, <3>6 DEF NextItem, Goto, Respond, TypeOK, Items
        <4> QED
          BY <4>1 DEF Shape
      <3> QED
        BY <3>4, <3>5, <3>6
    <2>4. CASE ValidateFields(w)
      <3>1. CASE NextItem(w, FALSE)
        BY <2>3, <2>4, <3>1 DEF ValidateFields
      <3>2. CASE Goto(w, "validators") /\ UNCHANGED <<item, refused, status>> /\ ~Incomplete(w)
        <4>1. Complete(w, item[w])
          BY <3>2, CompleteItem
        <4> QED
          BY <2>4, <3>2, <4>1, <1>0
          DEF ValidateFields, Goto, TypeOK, Shape, Creating, Items, Complete, Partial
      <3> QED
        BY <2>4, <3>1, <3>2 DEF ValidateFields
    <2>5. CASE Validate(w)
      <3>1. CASE Respond(w, 500)
        BY <3>1 DEF Respond, Goto, Shape, TypeOK
      <3>2. ASSUME NEW ok \in BOOLEAN, NextItem(w, ok)
            PROVE  Shape(w)'
        BY <2>5, <3>2, <2>3, <1>0 DEF Validate, Shape
      <3> QED
        BY <2>5, <3>1, <3>2 DEF Validate
    <2>6. CASE Create(w)
      <3>1. CASE Goto(w, "done")
        BY <3>1 DEF Goto, Shape, TypeOK
      <3>2. CASE item[w] < Len(Items(w)) /\ item' = [item EXCEPT ![w] = @ + 1] /\ UNCHANGED pc
        BY <2>6, <3>2, <1>0 DEF Create, Shape, TypeOK, Creating, Items, Complete, Partial
      <3> QED
        BY <2>6, <3>1, <3>2 DEF Create, Respond, Items
    <2>7. CASE Update(w)
      BY <2>7 DEF Update, Goto, Respond, Shape, TypeOK
    <2>8. CASE Destroy(w)
      BY <2>8 DEF Destroy, Goto, Respond, Shape, TypeOK
    <2> QED
      BY <2>1, <2>2, <2>4, <2>5, <2>6, <2>7, <2>8 DEF Step
  <1> QED
    BY <1>1, <1>2 DEF ShapeInv

(***************************************************************************)
(* What the validators have found out.                                      *)
(***************************************************************************)
LEMMA UniqueFound ==
    ASSUME NEW w \in Workers, Data(w) \in Inputs, ~Incomplete(w), ~UniqueConflict(w)
    PROVE  Safe(w, "unique")
  <1>1. Saved(w).a = IF Data(w).a = Missing THEN instance[w].a ELSE Data(w).a
    BY SavedField
  <1>2. Creating(w) => Data(w).a # Missing
    BY DEF Incomplete, Creating, Partial
  <1> QED
    BY <1>1, <1>2 DEF Safe, Conflicts, UniqueConflict

LEMMA TogetherFound ==
    ASSUME NEW w \in Workers, Saved(w) \in Rows, Creating(w) \/ instance[w] \in Rows,
           Checked(w) = Saved(w), ~TogetherConflict(w)
    PROVE  Safe(w, "together")
  <1> DEFINE changed == {f \in {"a", "b"} : Creating(w) \/ Saved(w)[f] # instance[w][f]}
  <1>1. CASE changed = {}
    <2>1. Saved(w) = instance[w]
      BY <1>1 DEF Rows
    <2> QED
      BY <1>1, <2>1 DEF Safe
  <1>2. CASE None \in {Saved(w)[f] : f \in changed}
    <2>1. Saved(w).b = None
      BY <1>2, ModelWritesAssumption DEF Rows
    <2> QED
      BY <2>1 DEF Safe, Conflicts
  <1>3. CASE \A p \in Others(request[w].pk) : table[p] # Saved(w)
    BY <1>3 DEF Safe, Conflicts
  <1> QED
    BY <1>1, <1>2, <1>3 DEF TogetherConflict

\* What UniqueForDateValidator looks for is the row that is saved.
LEMMA DateAttrsSaved ==
    ASSUME NEW w \in Workers, Checked(w) = Saved(w), ~DateMissing(w), Data(w) \in Inputs
    PROVE  DateAttrs(w) = Saved(w)
  <1>1. CASE DateAttrs(w) = Attrs(w)
    <2>1. Attrs(w).a # Missing /\ Attrs(w).b # Missing
      BY <1>1 DEF DateMissing
    <2>2. Attrs(w) = [f \in {"a", "b"} |-> Attrs(w)[f]]
      BY DEF Attrs, Validated, Inputs
    <2> QED
      BY <1>1, <2>1, <2>2 DEF Checked
  <1> QED
    BY <1>1 DEF DateAttrs

LEMMA ForDateFound ==
    ASSUME NEW w \in Workers, Checked(w) = Saved(w), ~DateMissing(w), ~DateConflict(w),
           Data(w) \in Inputs
    PROVE  Safe(w, "for_date")
  BY DateAttrsSaved DEF Safe, Conflicts, DateConflict

(***************************************************************************)
(* They stay found while nobody else writes.                                *)
(***************************************************************************)
LEMMA SafeStays ==
    ASSUME NEW v \in Workers, NEW kind, Safe(v, kind), table' = table,
           request'[v] = request[v], item'[v] = item[v], instance'[v] = instance[v]
    PROVE  Safe(v, kind)'
  <1>1. Saved(v)' = Saved(v)
    BY DEF Saved, Validated, Data, Partial, Creating
  <1>2. ASSUME NEW row
        PROVE  Conflicts({kind}, request[v].pk, row)'
                 <=> Conflicts({kind}, request[v].pk, row)
    BY DEF Conflicts, Others
  <1> QED
    BY <1>1, <1>2 DEF Safe, Creating, Conflicts, Others

\* A worker at an item: its data is complete, and the row it would save is one.
LEMMA ValidatesRow ==
    ASSUME TypeOK, NEW w \in Workers, Shape(w), pc[w] = "validators"
    PROVE  /\ Data(w) \in Inputs
           /\ ~Incomplete(w)
           /\ Saved(w) \in Rows
           /\ Creating(w) \/ instance[w] \in Rows
  <1>1. item[w] \in 1..Len(Items(w)) /\ Complete(w, item[w])
    BY DEF Shape
  <1>2. Data(w) \in Inputs
    BY <1>1, ItemIsInput DEF Data, Items
  <1>3. ~Incomplete(w)
    BY <1>1, CompleteItem
  <1> QED
    BY <1>2, <1>3, SavedIsRow DEF Shape

\* A step of w that does not write leaves what another worker v found out.
LEMMA SafeOfOthers ==
    ASSUME TypeOK, SafeInv, NEW w \in Workers, Step(w), NEW v \in Workers, v # w,
           (v \in fresh /\ Single(v))'
    PROVE  /\ (pc[v] = "validators")' /\ "unique" \in Validators => Safe(v, "unique")'
           /\ (pc[v] = "save")' => \A kind \in Validators : Safe(v, kind)'
  <1>1. /\ pc'[v] = pc[v] /\ request'[v] = request[v] /\ item'[v] = item[v]
        /\ instance'[v] = instance[v]
    BY OthersAreLeftAlone DEF Alone
  <1>2. v \in fresh /\ table' = table
    BY DEF Step, Begin, GetObject, ValidateFields, Validate, Create, Update, Destroy, Changed
  <1>3. Single(v)
    BY <1>1 DEF Single
  <1>4. ASSUME NEW kind, Safe(v, kind)
        PROVE  Safe(v, kind)'
    BY <1>1, <1>2, <1>4, SafeStays
  <1>5. pc[v] = "validators" /\ "unique" \in Validators => Safe(v, "unique")
    BY <1>2, <1>3 DEF SafeInv
  <1>6. pc[v] = "save" => \A kind \in Validators : Safe(v, kind)
    BY <1>2, <1>3 DEF SafeInv
  <1> QED
    BY <1>1, <1>4, <1>5, <1>6

LEMMA SafeStep ==
    ASSUME TypeOK, ShapeInv, SafeInv, ~ReadOnly, NEW w \in Workers, Step(w)
    PROVE  SafeInv'
  <1> USE ModelWritesAssumption
  <1>0. Shape(w) /\ Len(Items(w)) \in Nat
    BY LenProperties DEF ShapeInv, TypeOK, Requests, Items
  <1>1. ASSUME NEW v \in Workers, v # w, (v \in fresh /\ Single(v))'
        PROVE  /\ (pc[v] = "validators")' /\ "unique" \in Validators => Safe(v, "unique")'
               /\ (pc[v] = "save")' => \A kind \in Validators : Safe(v, kind)'
    BY <1>1, SafeOfOthers
  <1>2. ASSUME (w \in fresh /\ Single(w))'
        PROVE  /\ (pc[w] = "validators")' /\ "unique" \in Validators => Safe(w, "unique")'
               /\ (pc[w] = "save")' => \A kind \in Validators : Safe(w, kind)'
    <2>1. ASSUME pc'[w] = "validators", "unique" \in Validators
          PROVE  Safe(w, "unique")'
      <3>1. /\ pc[w] = "fields" /\ ~Incomplete(w) /\ ~UniqueConflict(w)
            /\ UNCHANGED <<table, request, instance, item>>
        BY <2>1 DEF Step, Begin, GetObject, ValidateFields, Validate, NextItem, Create,
                    Update, Destroy, Goto, Respond, TypeOK
      <3>2. Data(w) \in Inputs
        BY <3>1, <1>0, ItemIsInput DEF Shape, Data, Items
      <3> QED
        BY <3>1, <3>2, UniqueFound, SafeStays
    <2>2. ASSUME pc'[w] = "save"
          PROVE  \A kind \in Validators : Safe(w, kind)'
      <3>1. CASE Validate(w)
        <4> DEFINE ok == /\ "together" \in Validators => ~TogetherConflict(w)
                         /\ "for_date" \in Validators => ~DateMissing(w) /\ ~DateConflict(w)
        <4>1. NextItem(w, ok)
          <5>1. CASE Respond(w, 500)
            BY <5>1, <2>2 DEF Respond, Goto, TypeOK
          <5> QED
            BY <5>1, <3>1 DEF Validate
        <4> HIDE DEF ok
        <4>2. UNCHANGED <<table, request, instance, fresh>> /\ pc[w] = "validators"
          BY <3>1 DEF Validate
        <4>3. Single(w) /\ item[w] = 1 /\ w \in fresh
          BY <4>2, <1>0, <1>2 DEF Single, Shape, Items
        <4>4. ok /\ item'[w] = item[w]
          BY <2>2, <4>1, <4>3 DEF NextItem, Goto, Respond, TypeOK, Single
        <4>5. /\ Data(w) \in Inputs /\ ~Incomplete(w) /\ Saved(w) \in Rows
              /\ Creating(w) \/ instance[w] \in Rows
          BY <4>2, <1>0, ValidatesRow
        <4>6. Checked(w) = Saved(w)
          BY <4>5, CheckedSaved
        <4>7. ASSUME NEW kind \in Validators
              PROVE  Safe(w, kind)
          <5> USE DEF ok
          <5>1. CASE kind = "unique"
            BY <5>1, <4>2, <4>3 DEF SafeInv
          <5>2. CASE kind = "together"
            BY <5>2, <4>4, <4>5, <4>6, TogetherFound
          <5>3. CASE kind = "for_date"
            BY <5>3, <4>4, <4>5, <4>6, ForDateFound
          <5> QED
            BY <5>1, <5>2, <5>3
        <4> QED
          BY <4>2, <4>4, <4>7, SafeStays
      <3>2. CASE ValidateFields(w)
        <4>1. NextItem(w, FALSE)
          <5>1. CASE Goto(w, "validators")
            BY <5>1, <2>2 DEF Goto, TypeOK
          <5> QED
            BY <5>1, <3>2 DEF ValidateFields
        <4> QED
          BY <4>1, <2>2 DEF NextItem, Goto, Respond, TypeOK
      <3>3. CASE Create(w)
        <4>1. UNCHANGED <<pc, request>> /\ item[w] < Len(Items(w)) /\ pc[w] = "save"
          BY <3>3, <2>2 DEF Create, Respond, Goto, TypeOK, Items
        <4> QED
          BY <4>1, <1>0, <1>2 DEF Single, Items, Shape
      <3>4. CASE Begin(w) \/ GetObject(w) \/ Update(w) \/ Destroy(w)
        BY <3>4, <2>2 DEF Begin, GetObject, Update, Destroy, Goto, Respond, TypeOK
      <3> QED
        BY <3>1, <3>2, <3>3, <3>4 DEF Step
    <2> QED
      BY <2>1, <2>2
  <1> QED
    BY <1>1, <1>2 DEF SafeInv

(***************************************************************************)
(* The theorems.                                                            *)
(***************************************************************************)
LEMMA WritesInit ==
    ASSUME Init
    PROVE  TypeOK /\ ShapeInv /\ SafeInv
  <1> USE ModelWritesAssumption
  <1>1. NoRequest \in Requests
    BY EmptySeq DEF NoRequest, Requests
  <1>2. TypeOK
    BY <1>1 DEF Init, TypeOK
  <1>3. \A w \in Workers : pc[w] = "idle" /\ item[w] = 1
    BY DEF Init
  <1>4. ShapeInv
    BY <1>3 DEF ShapeInv, Shape
  <1>5. SafeInv
    BY <1>3 DEF SafeInv
  <1> QED
    BY <1>2, <1>4, <1>5

LEMMA WritesStutter ==
    ASSUME TypeOK, ShapeInv, UNCHANGED vars
    PROVE  TypeOK' /\ ShapeInv'
  <1>1. TypeOK'
    BY DEF TypeOK, vars
  <1>2. ASSUME NEW w \in Workers
        PROVE  Shape(w)'
    <2>1. Items(w)' = Items(w) /\ (Creating(w)' <=> Creating(w))
      BY DEF Items, Creating, vars
    <2>2. ASSUME NEW i
          PROVE  Complete(w, i)' <=> Complete(w, i)
      BY DEF Complete, Partial, Items, vars
    <2> QED
      BY <2>1, <2>2 DEF ShapeInv, Shape, vars
  <1> QED
    BY <1>1, <1>2 DEF ShapeInv

LEMMA ShapeHolds == Spec => [](TypeOK /\ ShapeInv)
  <1>1. TypeOK /\ ShapeInv /\ [Next]_vars => (TypeOK /\ ShapeInv)'
    <2> SUFFICES ASSUME TypeOK, ShapeInv, [Next]_vars
                 PROVE  TypeOK' /\ ShapeInv'
      OBVIOUS
    <2>1. CASE UNCHANGED vars
      BY <2>1, WritesStutter
    <2>2. ASSUME NEW w \in Workers, Step(w)
          PROVE  TypeOK' /\ ShapeInv'
      BY <2>2, TypeStep, ShapeStep
    <2> QED
      BY <2>1, <2>2 DEF Next, Step
  <1> QED
    BY <1>1, WritesInit, PTL DEF Spec

\* Every variable keeps the shape mixins.py and serializers.py give it: above all, the
\* row that is saved is one of the table, with every field given, defaulted or kept.
THEOREM WritesTypes == Spec => []TypeOK
  BY ShapeHolds, PTL

\* Without a read-only field, the pair of values UniqueTogetherValidator looks for is the
\* one that create or update saves, for any data and any writes of other workers.
THEOREM ChecksWhatIsSaved ==
    ASSUME ~ReadOnly
    PROVE  Spec => []CheckedIsSaved
  <1>1. TypeOK /\ ShapeInv => CheckedIsSaved
    <2> SUFFICES ASSUME TypeOK, ShapeInv, NEW w \in Workers, pc[w] = "validators"
                 PROVE  Checked(w) = Saved(w)
      BY DEF CheckedIsSaved
    <2>1. /\ Data(w) \in Inputs /\ ~Incomplete(w)
          /\ Creating(w) \/ instance[w] \in Rows
      BY ValidatesRow DEF ShapeInv
    <2> QED
      BY <2>1, CheckedSaved
  <1> QED
    BY <1>1, ShapeHolds, PTL

\* What is found out stays so, whatever the others do.
LEMMA SafeHolds ==
    ASSUME ~ReadOnly
    PROVE  Spec => []SafeInv
  <1>1. TypeOK /\ ShapeInv /\ SafeInv /\ [Next]_vars => SafeInv'
    <2> SUFFICES ASSUME TypeOK, ShapeInv, SafeInv, [Next]_vars
                 PROVE  SafeInv'
      OBVIOUS
    <2>1. CASE UNCHANGED vars
      <3> SUFFICES ASSUME NEW w \in Workers, (w \in fresh /\ Single(w))'
                   PROVE  /\ (pc[w] = "validators")' /\ "unique" \in Validators
                               => Safe(w, "unique")'
                          /\ (pc[w] = "save")' => \A kind \in Validators : Safe(w, kind)'
        BY DEF SafeInv
      <3>1. UNCHANGED <<pc, fresh, table, request, item, instance>>
        BY <2>1 DEF vars
      <3>2. ASSUME NEW kind, Safe(w, kind)
            PROVE  Safe(w, kind)'
        BY <3>1, <3>2, SafeStays
      <3> QED
        BY <3>1, <3>2 DEF SafeInv, Single
    <2>2. ASSUME NEW w \in Workers, Step(w)
          PROVE  SafeInv'
      BY <2>2, SafeStep
    <2> QED
      BY <2>1, <2>2 DEF Next, Step
  <1> QED
    BY <1>1, ShapeHolds, WritesInit, PTL DEF Spec

\* Without a read-only field, each validator is enough where nobody interferes: the row
\* that is about to be saved conflicts with no other, unless the instance did already.
THEOREM ValidatorsAreEnough ==
    ASSUME ~ReadOnly
    PROVE  Spec => []ValidatorsSuffice
  <1>1. SafeInv => ValidatorsSuffice
    BY DEF SafeInv, ValidatorsSuffice, Safe
  <1> QED
    BY <1>1, SafeHolds, PTL

(***************************************************************************)
(* Server errors.                                                           *)
(***************************************************************************)
\* No two rows of the table conflict.
CleanInv == \A p \in Pks : table[p] # Absent => ~Conflicts(Constraints, p, table[p])

\* The instance of a worker is the row as long as nobody else writes.
CurrentInv == \A w \in Workers :
    w \in fresh /\ pc[w] \in {"fields", "validators", "save"} /\ ~Creating(w)
        => table[request[w].pk] = instance[w]

\* A server error ends the request.
ErrorInv == \A w \in Workers :
    status[w] = 500 => pc[w] = "done" /\ (w \notin fresh \/ ~Single(w))

LEMMA WriteIsClean ==
    ASSUME TypeOK, CleanInv, NEW q \in Pks, NEW row \in Rows, ~Conflicts(Constraints, q, row),
           table' = [table EXCEPT ![q] = row]
    PROVE  CleanInv'
  <1> SUFFICES ASSUME NEW p \in Pks, table'[p] # Absent,
                      NEW o \in Pks \ {p}, table'[o] # Absent,
                      \/ "unique" \in Constraints /\ table'[o].a = table'[p].a
                      \/ /\ Constraints \cap {"together", "for_date"} # {}
                         /\ table'[o] = table'[p] /\ table'[p].b # None
               PROVE  FALSE
    BY DEF CleanInv, Conflicts, Others
  <1>1. CASE p = q
    BY <1>1 DEF Conflicts, Others, TypeOK
  <1>2. CASE o = q
    BY <1>2 DEF Conflicts, Others, TypeOK
  <1>3. CASE p # q /\ o # q
    BY <1>3 DEF CleanInv, Conflicts, Others, TypeOK
  <1> QED
    BY <1>1, <1>2, <1>3

LEMMA CleanStep ==
    ASSUME TypeOK, ShapeInv, CleanInv, NEW w \in Workers, Step(w)
    PROVE  CleanInv'
  <1>0. Shape(w)
    BY DEF ShapeInv
  <1>1. CASE UNCHANGED table
    BY <1>1 DEF CleanInv, Conflicts, Others
  <1>2. CASE Create(w) /\ table' = [table EXCEPT ![nextPk] = Saved(w)]
    <2>1. ~Conflicts(Constraints, nextPk, Saved(w)) \/ UNCHANGED table
      BY <1>2 DEF Create
    <2> QED
      BY <1>0, <1>1, <1>2, <2>1, SavesRow, WriteIsClean DEF Create
  <1>3. CASE Update(w) /\ table' = [table EXCEPT ![request[w].pk] = Saved(w)]
    <2>1. ~Conflicts(Constraints, request[w].pk, Saved(w)) \/ UNCHANGED table
      BY <1>3 DEF Update
    <2> QED
      BY <1>0, <1>1, <1>3, <2>1, SavesRow, WriteIsClean DEF Update, Shape
  <1>4. CASE Destroy(w)
    BY <1>4 DEF Destroy, CleanInv, Conflicts, Others, TypeOK
  <1> QED
    BY <1>1, <1>2, <1>3, <1>4
    DEF Step, Begin, GetObject, ValidateFields, Validate, Create, Update

LEMMA CurrentStep ==
    ASSUME TypeOK, ShapeInv, CurrentInv, NEW w \in Workers, Step(w)
    PROVE  CurrentInv'
  <1> SUFFICES ASSUME NEW v \in Workers,
                      (v \in fresh /\ pc[v] \in {"fields", "validators", "save"} /\ ~Creating(v))'
               PROVE  table'[request'[v].pk] = instance'[v]
    BY DEF CurrentInv
  <1>1. CASE v # w
    <2>1. /\ pc'[v] = pc[v] /\ request'[v] = request[v] /\ instance'[v] = instance[v]
      BY <1>1, OthersAreLeftAlone DEF Alone
    <2>2. v \in fresh /\ table' = table
      BY <1>1 DEF Step, Begin, GetObject, ValidateFields, Validate, Create, Update, Destroy,
                  Changed
    <2> QED
      BY <2>1, <2>2 DEF CurrentInv, Creating
  <1>2. CASE v = w
    <2>1. CASE Begin(w)
      BY <1>2, <2>1 DEF Begin, Goto, TypeOK
    <2>2. CASE GetObject(w)
      BY <1>2, <2>2 DEF GetObject, Goto, Respond, TypeOK
    <2>3. CASE ValidateFields(w) \/ Validate(w)
      BY <1>2, <2>3 DEF ValidateFields, Validate, CurrentInv, Creating
    <2>4. CASE Create(w)
      BY <1>2, <2>4 DEF Create, Creating
    <2>5. CASE Update(w) \/ Destroy(w)
      BY <1>2, <2>5 DEF Update, Destroy, Goto, Respond, TypeOK
    <2> QED
      BY <2>1, <2>2, <2>3, <2>4, <2>5 DEF Step
  <1> QED
    BY <1>1, <1>2

\* A write that the validators let through and that no other overtook meets no constraint.
LEMMA NoError ==
    ASSUME TypeOK, ShapeInv, SafeInv, CleanInv, CurrentInv, Constraints \subseteq Validators,
           NEW w \in Workers, pc[w] = "save", w \in fresh, Single(w)
    PROVE  /\ Creating(w) => \A q \in Pks : ~Conflicts(Constraints, q, Saved(w))
           /\ ~Creating(w) => ~Conflicts(Constraints, request[w].pk, Saved(w))
  <1>1. \A kind \in Constraints : Safe(w, kind)
    BY DEF SafeInv
  <1>2. CASE Creating(w)
    <2>1. \A kind \in Constraints : ~Conflicts({kind}, request[w].pk, Saved(w))
      BY <1>1, <1>2 DEF Safe
    <2>2. request[w].pk \notin Pks
      BY <1>2 DEF ShapeInv, Shape, Pks
    <2> QED
      BY <1>2, <2>1, <2>2, ModelWritesAssumption DEF Conflicts, Others
  <1>3. CASE ~Creating(w)
    <2>1. table[request[w].pk] = instance[w] /\ instance[w] \in Rows /\ request[w].pk \in Pks
      BY <1>3 DEF CurrentInv, ShapeInv, Shape
    <2>2. ~Conflicts(Constraints, request[w].pk, instance[w])
      BY <2>1, ModelWritesAssumption DEF CleanInv
    <2>3. \A kind \in Constraints : ~Conflicts({kind}, request[w].pk, instance[w])
      BY <2>2, ModelWritesAssumption DEF Conflicts
    <2>4. \A kind \in Constraints : ~Conflicts({kind}, request[w].pk, Saved(w))
      BY <1>1, <2>3 DEF Safe
    <2> QED
      BY <1>3, <2>4, ModelWritesAssumption DEF Conflicts
  <1> QED
    BY <1>2, <1>3

LEMMA ErrorStep ==
    ASSUME TypeOK, ShapeInv, SafeInv, CleanInv, CurrentInv, ErrorInv,
           Constraints \subseteq Validators, "for_date" \notin Validators,
           NEW w \in Workers, Step(w)
    PROVE  ErrorInv'
  <1> SUFFICES ASSUME NEW v \in Workers, status'[v] = 500
               PROVE  pc'[v] = "done" /\ (v \notin fresh' \/ ~Single(v)')
    BY DEF ErrorInv
  <1>1. CASE v # w
    <2>1. pc'[v] = pc[v] /\ status'[v] = status[v] /\ request'[v] = request[v]
      BY <1>1, OthersAreLeftAlone DEF Alone
    <2>2. v \in fresh' => v \in fresh
      <3>1. \/ fresh' = fresh \cup {w}
            \/ fresh' = fresh
            \/ fresh' = fresh \cap {w}
        BY DEF Step, Begin, GetObject, ValidateFields, Validate, Create, Update, Destroy, Changed
      <3> QED
        BY <1>1, <3>1
    <2> QED
      BY <2>1, <2>2 DEF ErrorInv, Single
  <1>2. CASE v = w
    <2>0. pc[w] # "done" /\ status[w] # 500
      <3>1. pc[w] # "done"
        BY DEF Step, Begin, GetObject, ValidateFields, Validate, Create, Update, Destroy
      <3> QED
        BY <3>1 DEF ErrorInv
    <2>1. CASE Begin(w) \/ GetObject(w) \/ ValidateFields(w) \/ Destroy(w)
      BY <1>2, <2>0, <2>1
      DEF Begin, GetObject, ValidateFields, NextItem, Destroy, Respond, TypeOK
    <2>2. CASE Validate(w)
      BY <1>2, <2>0, <2>2 DEF Validate, NextItem, Respond, TypeOK
    <2>3. CASE Create(w)
      <3>1. /\ Conflicts(Constraints, nextPk, Saved(w)) /\ Respond(w, 500)
            /\ Creating(w) /\ nextPk \in Pks /\ pc[w] = "save"
            /\ UNCHANGED <<request, fresh>>
        BY <1>2, <2>0, <2>3 DEF Create, Respond, TypeOK
      <3>2. w \notin fresh \/ ~Single(w)
        BY <3>1, NoError
      <3> QED
        BY <1>2, <3>1, <3>2 DEF Respond, Goto, TypeOK, Single
    <2>4. CASE Update(w)
      <3>1. /\ Conflicts(Constraints, request[w].pk, Saved(w)) /\ Respond(w, 500)
            /\ ~Creating(w) /\ pc[w] = "save" /\ UNCHANGED <<request, fresh>>
        BY <1>2, <2>0, <2>4 DEF Update, Respond, TypeOK
      <3>2. w \notin fresh \/ ~Single(w)
        BY <3>1, NoError
      <3> QED
        BY <1>2, <3>1, <3>2 DEF Respond, Goto, TypeOK, Single
    <2> QED
      BY <2>1, <2>2, <2>3, <2>4 DEF Step
  <1> QED
    BY <1>1, <1>2

\* Where the serializer validates what the database enforces, and no date is taken apart,
\* a server error is the work of a race, or of the items of one list among each other.
THEOREM ServerErrorsAreOfRaces ==
    ASSUME ~ReadOnly, Constraints \subseteq Validators, "for_date" \notin Validators
    PROVE  Spec => []ServerErrorsAreRaces
  <1> DEFINE Errors == CleanInv /\ CurrentInv /\ ErrorInv
  <1>1. Init => Errors
    <2> SUFFICES ASSUME Init
                 PROVE  CleanInv /\ CurrentInv /\ ErrorInv
      OBVIOUS
    <2>1. CleanInv
      BY DEF Init, CleanInv, Conflicts
    <2>2. CurrentInv /\ ErrorInv
      BY DEF Init, CurrentInv, ErrorInv
    <2> QED
      BY <2>1, <2>2
  <1>2. TypeOK /\ ShapeInv /\ SafeInv /\ Errors /\ [Next]_vars => Errors'
    <2> SUFFICES ASSUME TypeOK, ShapeInv, SafeInv, CleanInv, CurrentInv, ErrorInv, [Next]_vars
                 PROVE  CleanInv' /\ CurrentInv' /\ ErrorInv'
      OBVIOUS
    <2>1. CASE UNCHANGED vars
      BY <2>1 DEF vars, CleanInv, CurrentInv, ErrorInv, Conflicts, Others, Creating, Single
    <2>2. ASSUME NEW w \in Workers, Step(w)
          PROVE  CleanInv' /\ CurrentInv' /\ ErrorInv'
      BY <2>2, CleanStep, CurrentStep, ErrorStep
    <2> QED
      BY <2>1, <2>2 DEF Next, Step
  <1>3. ErrorInv => ServerErrorsAreRaces
    BY DEF ErrorInv, ServerErrorsAreRaces
  <1> QED
    BY <1>1, <1>2, <1>3, ShapeHolds, SafeHolds, PTL DEF Spec

(***************************************************************************)
(* What a write touches.                                                    *)
(***************************************************************************)
\* Primary keys are given in order: there is no row from nextPk on, and no request that has
\* found its row is about one.
NextPkInv ==
    /\ \A p \in Pks : p >= nextPk => table[p] = Absent
    /\ \A w \in Workers : pc[w] \in {"fields", "validators", "save", "delete"} /\ ~Creating(w)
         => request[w].pk \in Pks /\ request[w].pk < nextPk

LEMMA NextPkStep ==
    ASSUME TypeOK, ShapeInv, NextPkInv, NEW w \in Workers, Step(w)
    PROVE  NextPkInv'
  <1> USE ModelWritesAssumption
  <1>0. nextPk \in Int /\ nextPk' \in Int /\ nextPk' >= nextPk /\ Pks \subseteq Int
    <2>1. nextPk' = nextPk \/ nextPk' = nextPk + 1
      BY DEF Step, Begin, GetObject, ValidateFields, Validate, Create, Update, Destroy
    <2> QED
      BY <2>1 DEF TypeOK, Pks
  <1>1. ASSUME NEW p \in Pks, p >= nextPk'
        PROVE  table'[p] = Absent
    <2>1. table[p] = Absent
      BY <1>0, <1>1 DEF NextPkInv
    <2>2. CASE UNCHANGED table
      BY <2>1, <2>2
    <2>3. CASE Create(w) /\ ~UNCHANGED table
      <3>1. p # nextPk /\ table' = [table EXCEPT ![nextPk] = Saved(w)]
        BY <1>0, <1>1, <2>3 DEF Create
      <3> QED
        BY <2>1, <3>1 DEF TypeOK
    <2>4. CASE Update(w) /\ ~UNCHANGED table
      <3>1. request[w].pk < nextPk /\ table' = [table EXCEPT ![request[w].pk] = Saved(w)]
        BY <2>4 DEF Update, NextPkInv
      <3>2. p # request[w].pk
        BY <1>0, <1>1, <3>1
      <3> QED
        BY <2>1, <3>1, <3>2 DEF TypeOK
    <2>5. CASE Destroy(w)
      BY <2>1, <2>5 DEF Destroy, TypeOK
    <2> QED
      BY <2>2, <2>3, <2>4, <2>5 DEF Step, Begin, GetObject, ValidateFields, Validate
  <1>2. \A p \in Pks : p < nextPk => p < nextPk'
    BY <1>0
  <1>3. \A p \in Pks : table[p] # Absent => p < nextPk
    BY <1>0 DEF NextPkInv
  <1>4. ASSUME NEW v \in Workers, ~Creating(v)',
               pc'[v] \in {"fields", "validators", "save", "delete"}
        PROVE  request'[v].pk \in Pks /\ request'[v].pk < nextPk'
    <2>1. CASE v # w
      <3>1. pc'[v] = pc[v] /\ request'[v] = request[v]
        BY <2>1, OthersAreLeftAlone DEF Alone
      <3> QED
        BY <1>2, <1>4, <3>1 DEF NextPkInv, Creating
    <2>2. CASE v = w
      <3>1. CASE Begin(w)
        BY <1>4, <2>2, <3>1 DEF Begin, Goto, TypeOK
      <3>2. CASE GetObject(w)
        <4>1. request[w].pk \in Pks /\ table[request[w].pk] # Absent /\ UNCHANGED request
          BY <1>4, <2>2, <3>2 DEF GetObject, Goto, Respond, TypeOK, ShapeInv, Shape
        <4> QED
          BY <1>2, <1>3, <2>2, <4>1
      <3>3. CASE ValidateFields(w) \/ Validate(w) \/ Create(w) \/ Update(w) \/ Destroy(w)
        <4>1. UNCHANGED request /\ pc[w] \in {"fields", "validators", "save", "delete"}
          BY <3>3 DEF ValidateFields, Validate, Create, Update, Destroy
        <4> QED
          BY <1>2, <1>4, <2>2, <4>1 DEF NextPkInv, Creating
      <3> QED
        BY <3>1, <3>2, <3>3 DEF Step
    <2> QED
      BY <2>1, <2>2
  <1> QED
    BY <1>1, <1>4 DEF NextPkInv

\* Of a partial update, a field that is not in the data is the instance's.
LEMMA KeptField ==
    ASSUME NEW w \in Workers, Data(w) \in Inputs, Partial(w), NEW f \in {"a", "b"},
           Data(w)[f] = Missing
    PROVE  Saved(w)[f] = instance[w][f]
  <1>1. Validated(w)[f] = Missing
    BY DataFields
  <1>2. ~Creating(w)
    BY DEF Creating, Partial
  <1> QED
    BY <1>1, <1>2 DEF Saved

LEMMA OthersKeptStep ==
    ASSUME TypeOK, ShapeInv, CurrentInv, NextPkInv, NEW v \in Workers, Step(v),
           NEW w \in Workers, w \in fresh, pc[w] = "save", table' # table, pc'[w] # pc[w]
    PROVE  \E q \in Pks :
             /\ \A p \in Pks \ {q} : table'[p] = table[p]
             /\ table'[q] # Absent
             /\ Creating(w) <=> table[q] = Absent
             /\ Partial(w) => \A f \in {"a", "b"} :
                  Data(w)[f] = Missing => table'[q][f] = table[q][f]
  <1>1. v = w
    BY OthersAreLeftAlone DEF Alone
  <1>2. Data(w) \in Inputs /\ Saved(w) \in Rows /\ Saved(w) # Absent
    BY SavesRow, ModelWritesAssumption DEF ShapeInv
  <1>3. CASE Create(w)
    <2>1. /\ Creating(w) /\ nextPk \in Pks
          /\ table' = [table EXCEPT ![nextPk] = Saved(w)]
      BY <1>3 DEF Create
    <2>2. table[nextPk] = Absent
      BY <2>1 DEF NextPkInv, Pks
    <2>3. ~Partial(w)
      BY <2>1 DEF Creating, Partial
    <2>4. table'[nextPk] = Saved(w) /\ \A p \in Pks \ {nextPk} : table'[p] = table[p]
      BY <2>1 DEF TypeOK
    <2> QED
      BY <1>2, <2>1, <2>2, <2>3, <2>4
  <1>4. CASE Update(w)
    <2> DEFINE q == request[w].pk
    <2>1. ~Creating(w) /\ q \in Pks /\ instance[w] \in Rows
      BY <1>4 DEF Update, ShapeInv, Shape
    <2>2. table[q] = instance[w] /\ table[q] # Absent
      BY <2>1, ModelWritesAssumption DEF CurrentInv
    <2>3. table' = [table EXCEPT ![q] = Saved(w)]
      BY <1>4 DEF Update
    <2>4. table'[q] = Saved(w) /\ \A p \in Pks \ {q} : table'[p] = table[p]
      BY <2>1, <2>3 DEF TypeOK
    <2>5. ASSUME Partial(w), NEW f \in {"a", "b"}, Data(w)[f] = Missing
          PROVE  table'[q][f] = table[q][f]
      BY <1>2, <2>2, <2>4, <2>5, KeptField
    <2> HIDE DEF q
    <2> QED
      BY <1>2, <2>1, <2>2, <2>4, <2>5
  <1> QED
    BY <1>1, <1>3, <1>4 DEF Step, Begin, GetObject, ValidateFields, Validate, Destroy

\* A write that no other overtook touches one row: a create one that was not there, an
\* update the one it read, of which a partial update keeps the fields it was not sent.
THEOREM WritesTouchOneRow == Spec => OthersKept
  <1> DEFINE Current == CurrentInv /\ NextPkInv
  <1>1. Init => Current
    <2> SUFFICES ASSUME Init
                 PROVE  CurrentInv /\ NextPkInv
      OBVIOUS
    <2>1. CurrentInv
      BY DEF Init, CurrentInv
    <2>2. ASSUME NEW p \in Pks, p >= nextPk
          PROVE  table[p] = Absent
      BY <2>2, ModelWritesAssumption DEF Init, Pks
    <2> QED
      BY <2>1, <2>2 DEF Init, NextPkInv
  <1>2. TypeOK /\ ShapeInv /\ Current /\ [Next]_vars => Current'
    <2> SUFFICES ASSUME TypeOK, ShapeInv, CurrentInv, NextPkInv, [Next]_vars
                 PROVE  CurrentInv' /\ NextPkInv'
      OBVIOUS
    <2>1. CASE UNCHANGED vars
      BY <2>1 DEF vars, CurrentInv, NextPkInv, Creating
    <2>2. ASSUME NEW w \in Workers, Step(w)
          PROVE  CurrentInv' /\ NextPkInv'
      BY <2>2, CurrentStep, NextPkStep
    <2> QED
      BY <2>1, <2>2 DEF Next, Step
  <1> DEFINE Kept == \A w \in Workers : w \in fresh /\ pc[w] = "save" /\ table' # table /\ pc'[w] # pc[w]
        => \E q \in Pks :
            /\ \A p \in Pks \ {q} : table'[p] = table[p]
            /\ table'[q] # Absent
            /\ Creating(w) <=> table[q] = Absent
            /\ Partial(w) => \A f \in {"a", "b"} :
                 Data(w)[f] = Missing => table'[q][f] = table[q][f]
  <1>3. TypeOK /\ ShapeInv /\ Current /\ [Next]_vars => [Kept]_vars
    <2> SUFFICES ASSUME TypeOK, ShapeInv, CurrentInv, NextPkInv, Next
                 PROVE  Kept
      OBVIOUS
    <2>1. PICK v \in Workers : Step(v)
      BY DEF Next, Step
    <2> QED
      BY <2>1, OthersKeptStep
  <1> QED
    BY <1>1, <1>2, <1>3, ShapeHolds, PTL DEF Spec, OthersKept

(***************************************************************************)
(* What the validators refuse.                                              *)
(***************************************************************************)
LEMMA UniqueRefuses ==
    ASSUME TypeOK, NEW w \in Workers, Shape(w), pc[w] = "fields", ~Incomplete(w),
           "unique" \in Validators, UniqueConflict(w)
    PROVE  Conflicts(Validators, request[w].pk, Saved(w))
  <1>1. Data(w) \in Inputs
    BY ItemIsInput DEF Shape, Data, Items
  <1>2. Saved(w).a = Data(w).a
    BY <1>1, SavedField DEF UniqueConflict
  <1> QED
    BY <1>2 DEF UniqueConflict, Conflicts

LEMMA TogetherRefuses ==
    ASSUME NEW w \in Workers, "together" \in Validators, TogetherConflict(w),
           Checked(w) = Saved(w), Creating(w) \/ instance[w].b # None
    PROVE  Conflicts(Validators, request[w].pk, Saved(w))
  <1>1. Saved(w).b # None
    <2>1. CASE Creating(w)
      BY <2>1 DEF TogetherConflict
    <2>2. CASE ~Creating(w) /\ Saved(w).b = instance[w].b
      BY <2>2
    <2>3. CASE ~Creating(w) /\ Saved(w).b # instance[w].b
      BY <2>3 DEF TogetherConflict
    <2> QED
      BY <2>1, <2>2, <2>3
  <1> QED
    BY <1>1 DEF TogetherConflict, Conflicts

LEMMA ForDateRefuses ==
    ASSUME NEW w \in Workers, "for_date" \in Validators, ~DateMissing(w), ~DateFails(w),
           DateConflict(w), Checked(w) = Saved(w), Data(w) \in Inputs
    PROVE  Conflicts(Validators, request[w].pk, Saved(w))
  <1>1. DateAttrs(w) = Saved(w)
    BY DateAttrsSaved
  <1>2. Saved(w).b # None
    BY <1>1 DEF DateFails
  <1> QED
    BY <1>1, <1>2 DEF DateConflict, Conflicts

LEMMA RefusalStep ==
    ASSUME TypeOK, ShapeInv, ~ReadOnly, NEW v \in Workers, Step(v),
           NEW w \in Workers, w \notin refused, w \in refused', ~Incomplete(w),
           pc[w] = "validators" => Creating(w) \/ instance[w].b # None,
           ~("for_date" \in Validators /\ DateMissing(w))
    PROVE  Conflicts(Validators, request[w].pk, Saved(w))
  <1>1. v = w
    BY OthersAreLeftAlone DEF Alone
  <1>2. CASE ValidateFields(w)
    <2>1. pc[w] = "fields" /\ "unique" \in Validators /\ UniqueConflict(w)
      BY <1>2 DEF ValidateFields
    <2> QED
      BY <2>1, UniqueRefuses DEF ShapeInv
  <1>3. CASE Validate(w)
    <2>1. /\ pc[w] = "validators"
          /\ ~("for_date" \in Validators /\ DateFails(w))
          /\ \/ "together" \in Validators /\ TogetherConflict(w)
             \/ "for_date" \in Validators /\ DateConflict(w)
      BY <1>3 DEF Validate, NextItem
    <2>2. Data(w) \in Inputs /\ Checked(w) = Saved(w)
      BY <2>1, ValidatesRow, CheckedSaved DEF ShapeInv
    <2> QED
      BY <2>1, <2>2, TogetherRefuses, ForDateRefuses
  <1> QED
    BY <1>1, <1>2, <1>3 DEF Step, Begin, GetObject, Create, Update, Destroy

\* Without a read-only field, complete data is refused only for a row that conflicts with
\* the one that would be saved, or for the dates that UniqueForDateValidator misses.
THEOREM RefusalsAreOfConflicts ==
    ASSUME ~ReadOnly
    PROVE  Spec => RefusalsAreConflicts
  <1> DEFINE Refusals == \A w \in Workers :
        /\ w \notin refused /\ w \in refused' /\ ~Incomplete(w)
        /\ pc[w] = "validators" => Creating(w) \/ instance[w].b # None
        /\ ~("for_date" \in Validators /\ DateMissing(w))
        => Conflicts(Validators, request[w].pk, Saved(w))
  <1>1. TypeOK /\ ShapeInv /\ [Next]_vars => [Refusals]_vars
    <2> SUFFICES ASSUME TypeOK, ShapeInv, Next
                 PROVE  Refusals
      OBVIOUS
    <2>1. PICK v \in Workers : Step(v)
      BY DEF Next, Step
    <2> QED
      BY <2>1, RefusalStep
  <1> QED
    BY <1>1, ShapeHolds, PTL DEF Spec, RefusalsAreConflicts
=============================================================================
