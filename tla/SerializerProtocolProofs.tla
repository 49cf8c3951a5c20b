---------------------- MODULE SerializerProtocolProofs ----------------------
(***************************************************************************)
(* Proofs about SerializerProtocol, for any number of calls in any order.   *)
(***************************************************************************)
EXTENDS SerializerProtocol, TLAPS

\* The type invariant in two parts: the flags, and the attributes and counters.
Flags == many \in BOOLEAN /\ initial \in BOOLEAN /\ refused \in BOOLEAN /\ incomplete \in BOOLEAN
Values ==
    /\ writes \in Nat /\ creates \in Nat /\ creates <= writes
    /\ instance \in {None} \cup Nat
    /\ saved \in {None} \cup Nat
    /\ errors \in {"unset", "ok", "bad"}
    /\ data \in {Unset} \cup
         [what : {"instance", "validated", "initial"}, version : {None} \cup Nat]

\* A serializer that has created an instance, and knows it, has one to update.
Created ==
    /\ creates > 0 => incomplete \/ instance # None
    /\ creates > 1 => incomplete
    /\ SavedWasValid

\* What the assertions of BaseSerializer protect: the instance is what save returned.
Guarded ==
    /\ saved # None => instance = saved
    /\ DataIsCurrent

Protocol == Flags /\ Values /\ Created /\ (~many => Guarded)

LEMMA ProtocolInit == Init => Protocol
<1> SUFFICES ASSUME Init PROVE Protocol
    OBVIOUS
<1>1. Flags
    BY DEF Init, Flags
<1>2. Values
    BY DEF Init, Values
<1>3. Created
    BY DEF Init, Created, SavedWasValid
<1>4. Guarded
    BY DEF Init, Guarded, DataIsCurrent
<1> QED BY <1>1, <1>2, <1>3, <1>4 DEF Protocol

LEMMA ProtocolStep == Protocol /\ [Next]_vars => Protocol'
<1> SUFFICES ASSUME Protocol, [Next]_vars PROVE Protocol'
    OBVIOUS
<1> USE SerializerAssumption DEF Protocol
<1>1. CASE Refuse
    <2>1. Flags'
        BY <1>1 DEF Refuse, Flags
    <2>2. Values'
        BY <1>1 DEF Refuse, Values
    <2>3. Created'
        BY <1>1 DEF Refuse, Created, SavedWasValid, Flags, Values
    <2>4. (~many => Guarded)'
        BY <1>1 DEF Refuse, Guarded, DataIsCurrent, Values
    <2> QED BY <2>1, <2>2, <2>3, <2>4
<1>2. CASE IsValid /\ ~Refuse
    <2>1. Flags'
        BY <1>2 DEF IsValid, Flags
    <2>2. Values'
        BY <1>2 DEF IsValid, Values
    <2>3. Created'
        BY <1>2 DEF IsValid, Created, SavedWasValid, Flags, Values
    <2>4. (~many => Guarded)'
        BY <1>2 DEF IsValid, Guarded, DataIsCurrent, Values
    <2> QED BY <2>1, <2>2, <2>3, <2>4
<1>3. CASE Data /\ ~Refuse
    <2>1. Flags'
        BY <1>3 DEF Data, Of, Flags
    <2>2. Values'
        BY <1>3 DEF Data, Of, Values
    <2>3. Created'
        <3>1. UNCHANGED <<many, instance, writes, creates, incomplete, saved, errors>>
            BY <1>3 DEF Data
        <3> QED BY <3>1 DEF Created, SavedWasValid
    <2>4. (~many => Guarded)'
        <3>1. /\ UNCHANGED <<many, instance, saved>>
              /\ data' = data \/ (instance # None /\ errors # "bad" => data' = Of("instance", instance))
            BY <1>3 DEF Data
        <3>2. ~many /\ saved # None => instance = saved /\ errors # "bad"
            BY DEF Guarded, Created, SavedWasValid
        <3> QED BY <3>1, <3>2 DEF Guarded, DataIsCurrent, Of
    <2> QED BY <2>1, <2>2, <2>3, <2>4
<1>4. ASSUME Written \/ Raised \/ Interrupted, errors = "ok",
             UNCHANGED <<many, initial, errors, data>>, many \/ data = Unset
      PROVE  Protocol'
    <2>1. CASE Written
        <3>1. Flags'
            BY <1>4, <2>1 DEF Written, Flags
        <3>2. Values'
            BY <1>4, <2>1 DEF Written, Values
        <3>3. Created'
            BY <1>4, <2>1 DEF Written, Created, SavedWasValid, Flags, Values
        <3>4. (~many => Guarded)'
            BY <1>4, <2>1 DEF Written, Guarded, DataIsCurrent, Values
        <3> QED BY <3>1, <3>2, <3>3, <3>4
    <2>2. CASE Raised
        <3>1. Flags'
            BY <1>4, <2>2 DEF Raised, Flags
        <3>2. Values'
            BY <1>4, <2>2 DEF Raised, Values
        <3>3. Created'
            BY <1>4, <2>2 DEF Raised, Created, SavedWasValid, Flags, Values
        <3>4. (~many => Guarded)'
            BY <1>4, <2>2 DEF Raised, Guarded, DataIsCurrent, Values
        <3> QED BY <3>1, <3>2, <3>3, <3>4
    <2>3. CASE Interrupted
        <3>1. Flags'
            BY <1>4, <2>3 DEF Interrupted, Flags
        <3>2. Values'
            BY <1>4, <2>3 DEF Interrupted, Values
        <3>3. Created'
            BY <1>4, <2>3 DEF Interrupted, Created, SavedWasValid, Flags, Values
        <3>4. (~many => Guarded)'
            BY <1>4, <2>3 DEF Interrupted, Guarded, DataIsCurrent, Values
        <3> QED BY <3>1, <3>2, <3>3, <3>4
    <2> QED BY <1>4, <2>1, <2>2, <2>3
<1>5. CASE ~many /\ Save
    BY <1>1, <1>4, <1>5 DEF Save, Values
<1>6. CASE many /\ SaveList
    <2>1. CASE errors = "unset"
        BY <1>1, <1>6, <2>1 DEF SaveList
    <2>2. CASE errors # "unset" /\ instance # None
        <3>1. Raised /\ UNCHANGED <<many, initial, errors, data>>
            BY <1>6, <2>2 DEF SaveList
        <3> QED BY <1>6, <3>1 DEF Raised, Flags, Values, Created, SavedWasValid
    <2>3. CASE errors = "bad" /\ instance = None
        <3>1. /\ instance' = 0 /\ saved' = 0 /\ refused' = FALSE
              /\ UNCHANGED <<writes, creates, incomplete, many, initial, errors, data>>
            BY <1>6, <2>3 DEF SaveList
        <3>2. Flags'
            BY <3>1 DEF Flags
        <3>3. Values' /\ Created'
            BY <1>6, <3>1 DEF Values, Created, SavedWasValid
        <3>4. (~many => Guarded)'
            BY <1>6, <3>1
        <3> QED BY <3>2, <3>3, <3>4
    <2>4. CASE errors = "ok" /\ instance = None
        BY <1>4, <1>6, <2>4 DEF SaveList
    <2> QED BY <2>1, <2>2, <2>3, <2>4 DEF Values
<1>7. CASE UNCHANGED vars
    <2>1. Flags'
        BY <1>7 DEF vars, Flags
    <2>2. Values'
        BY <1>7 DEF vars, Values
    <2>3. Created'
        BY <1>7 DEF vars, Created, SavedWasValid, Flags, Values
    <2>4. (~many => Guarded)'
        BY <1>7 DEF vars, Guarded, DataIsCurrent, Values
    <2> QED BY <2>1, <2>2, <2>3, <2>4
<1> QED
    BY <1>1, <1>2, <1>3, <1>5, <1>6, <1>7 DEF Next

THEOREM ProtocolHolds == Spec => []Protocol
  BY ProtocolInit, ProtocolStep, PTL DEF Spec

\* Whatever the order of the calls, every attribute has a value serializers.py gives it.
THEOREM SerializerTypes == Spec => []TypeOK
<1>1. Protocol => TypeOK
    BY DEF Protocol, Flags, Values, TypeOK
<1> QED BY <1>1, ProtocolHolds, PTL

\* A serializer without an instance creates one at most, single or list.
THEOREM CreatesOnce == Spec => []CreatedOnce
<1>1. Protocol => CreatedOnce
    BY DEF Protocol, Created, CreatedOnce
<1> QED BY <1>1, ProtocolHolds, PTL

\* Nothing that is_valid refused is ever written.
THEOREM SavesValidOnly == Spec => []SavedWasValid
<1>1. Protocol => SavedWasValid
    BY DEF Protocol, Created
<1> QED BY <1>1, ProtocolHolds, PTL

\* The data of a single serializer shows what the last save left.
THEOREM ShowsWhatWasSaved == Spec => []DataIsWhatWasSaved
<1>1. Protocol => DataIsWhatWasSaved
    BY DEF Protocol, Guarded, DataIsWhatWasSaved
<1> QED BY <1>1, ProtocolHolds, PTL
=============================================================================
