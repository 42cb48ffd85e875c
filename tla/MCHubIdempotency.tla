------------------------- MODULE MCHubIdempotency -------------------------
(***************************************************************************)
(* Three requests with room for one record, and every mix of keys and      *)
(* payloads up to the order of the requests and the names of the two role  *)
(* keys and of the two payloads.                                           *)
(***************************************************************************)
EXTENDS HubIdempotency, Sequences, TLC

CONSTANTS r1, r2, r3, post, role1, role2, h1, h2

FewRequests == {r1, r2, r3}
ThreeKeys   == {post, role1, role2}
TwoRoleKeys == {role1, role2}
TwoHashes   == {h1, h2}

KeyMixes == {<<role1, role1, role1>>, <<role1, role1, role2>>, <<role1, role1, post>>,
             <<role1, role2, post>>, <<post, post, role1>>, <<post, post, post>>}

(* Requests with different keys never compare their payloads.              *)
HashMixes(ks) ==
    CASE ks[1] # ks[2] -> {<<h1, h1, h1>>}
      [] ks[1] = ks[2] /\ ks[2] # ks[3] -> {<<h1, h1, h1>>, <<h1, h2, h1>>}
      [] OTHER -> {<<h1, h1, h1>>, <<h1, h1, h2>>}

Number == r1 :> 1 @@ r2 :> 2 @@ r3 :> 3

Mixes == UNION {{[r \in FewRequests |-> [key |-> ks[Number[r]], hash |-> hs[Number[r]]]]
                    : hs \in HashMixes(ks)} : ks \in KeyMixes}
=============================================================================
