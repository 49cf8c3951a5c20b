----------------------------- MODULE MCDispatch -----------------------------
(***************************************************************************)
(* Small instances of Dispatch: one user with a token, one with a session.  *)
(***************************************************************************)
EXTENDS Dispatch

CONSTANTS alice, bob, anonymous, none, unset, bad

TokenThenSession == <<"token", "session">>
BrowsableFirst == <<"api", "json">>
JsonFirst == <<"json", "api">>
AllRequests == 0..8
Detail == {"GET", "PUT", "OPTIONS"}
DetailOrDelete == Detail \cup {"DELETE"}
\* Object permissions, or a list that anyone may read.
EitherPermissions == {{"IsAuthenticated", "DjangoObjectPermissions"},
                      {"IsAuthenticatedOrReadOnly", "AllowAny"}}
\* perms_map, with the view permission for GET that its comment suggests.
WithView == [m \in Methods |-> CASE m \in {"GET", "HEAD"} -> {"view"}
                                 [] m = "OPTIONS" -> {}
                                 [] OTHER -> {"change"}]
WithDelete == [WithView EXCEPT !["DELETE"] = {"delete"}]
=============================================================================
