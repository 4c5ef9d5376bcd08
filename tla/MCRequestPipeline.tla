--------------------------- MODULE MCRequestPipeline ---------------------------
(* Model-checking instance of RequestPipeline.  Two requests overlap, so    *)
(* that one can set and reset its id while the other is inside; a single    *)
(* client id lets them share one.  One origin may be listed, another never  *)
(* is; the wildcard comes alone, padded, in an array, and in company.       *)
EXTENDS RequestPipeline, TLC

CONSTANTS r1, r2, id1, home, stranger

MCRequests == {r1, r2}
MCClientIds == {id1}
MCOrigins == {home, stranger}

(* Requests are interchangeable. *)
RequestSymmetry == Permutations(MCRequests)

Padded(o) == [text |-> o, padded |-> TRUE]

Lists ==
    {[form |-> "commas", items |-> {Entry(home), Padded(""), Padded("*")}],
     [form |-> "commas", items |-> {Padded(home)}],
     [form |-> "json", items |-> {Star}],
     [form |-> "json", items |-> {Entry(home), Padded("*")}],
     [form |-> "broken", items |-> {Star}]}

Deployment(env, def, list, cred) ==
    [environment |-> env, defaultSecret |-> def, origins |-> list, credentials |-> cred]

MCDeployments ==
    {Deployment("development", TRUE, list, cred) : list \in Lists, cred \in BOOLEAN}
      \cup {Deployment("staging", def, [form |-> "json", items |-> {Entry(home)}], TRUE) :
              def \in BOOLEAN}

=============================================================================
