------------------------- MODULE MCClassInitialize -------------------------
(* The hierarchy of the deadlock the source describes: a root whose        *)
(* +initialize reaches a grandchild, and two branches below it.            *)
EXTENDS ClassInitialize, TLC

CONSTANTS Root, Address, Controller, Console

MCSuper == (Root :> NoClass) @@ (Address :> Root) @@ (Controller :> Root) @@ (Console :> Controller)
MCAncestors == (Root :> {}) @@ (Address :> {Root}) @@ (Controller :> {Root})
               @@ (Console :> {Root, Controller})
(* Ancestors and descendants.                                              *)
MCMayMessage == [c \in Class |-> {d \in Class : d \in MCAncestors[c] \/ c \in MCAncestors[d]}]
=============================================================================
