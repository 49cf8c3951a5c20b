---------------------------- MODULE MCRequestAuth ----------------------------
(***************************************************************************)
(* Small instances of RequestAuth: token, then session authentication.      *)
(***************************************************************************)
EXTENDS RequestAuth

CONSTANTS alice, bob, anonymous, none, unset, bad, r1, clone

TokenThenSession == <<"token", "session">>
=============================================================================
