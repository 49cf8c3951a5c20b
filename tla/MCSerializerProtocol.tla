------------------------ MODULE MCSerializerProtocol ------------------------
(***************************************************************************)
(* Small instances of SerializerProtocol.                                   *)
(***************************************************************************)
EXTENDS SerializerProtocol

CONSTANTS unset, none
=============================================================================
