---------------------------- MODULE MCModelRouting ----------------------------
(* Instances of ModelRouting for TLC. *)
EXTENDS ModelRouting, TLC

CONSTANTS a, b, work, alone

Providers == <<"Meta", "OpenRouter-Auto">>

\* The keys 1 and 2, of organizations a and b, share a name.
OwnerOf == <<a, b>>
ListedAs == <<"OrgGroq", "OrgGroq">>

FamilyOf == [n \in {"Meta", "OpenRouter-Auto", "OrgGroq"} |->
               IF n = "OrgGroq" THEN "Groq" ELSE n]

\* The quality order prefers Meta to Groq, the others the reverse.
Ranks ==
  [m \in RoutingModes |->
     IF m = "quality_first"
     THEN [Meta |-> 0, Groq |-> 1] @@ ("OpenRouter-Auto" :> 2)
     ELSE [Groq |-> 0, Meta |-> 1] @@ ("OpenRouter-Auto" :> 2)]

OrgOfTask == [t \in Tasks |-> IF t = work THEN a ELSE b]

\* A task charged as a whole runs two agents.
AgentsOf == [t \in Tasks |-> IF t = work THEN 2 ELSE 1]

AskedFor == [t \in Tasks |-> "quality_first"]

Business == [byok |-> TRUE, mode |-> "organization_first", limit |-> 1,
             allowed |-> <<"cost_optimized", "quality_first">>]
Enterprise == [Business EXCEPT !.mode = "organization_only"]
Starter == [byok |-> FALSE, mode |-> "platform_first", limit |-> 0,
            allowed |-> <<"cost_optimized">>]

AllPlans == {Business, Enterprise, Starter}
=============================================================================
