-------------------------------- MODULE MCStore --------------------------------
(* Instances of Store for TLC. *)
EXTENDS Store, TLC

OneKey == {1}

CreateRequests == {SetRequest(1, FALSE, 0, -1)}
ListRequests == {SetRequest(1, FALSE, -1, -1), RangeRequest(Keys, "ok", 0, Unlimited)}

ClientSymmetry == Permutations(Clients)
===============================================================================
