------------------------- MODULE RegistryConstants -------------------------
(* What ServiceRegistry and the modules built on it are parameterised by. *)
EXTENDS Naturals, Sequences

CONSTANTS
    Names,          \* names services are registered under
    Plain,          \* names of services with neither shutdown() nor close()
    Boot,           \* what bootstrap registered, in this order
    MayReplace,     \* names the application may set() over
    MaxInstances    \* bound: services ever registered

ASSUME RegistryAssumption ==
    /\ Plain \subseteq Names /\ MayReplace \subseteq Names
    /\ Boot \in Seq(Names)
    /\ \A i, j \in DOMAIN Boot : Boot[i] = Boot[j] => i = j
    /\ MaxInstances \in Nat /\ MaxInstances >= Len(Boot)
=============================================================================
