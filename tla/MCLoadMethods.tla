--------------------------- MODULE MCLoadMethods ---------------------------
(***************************************************************************)
(* An application and three bundles.  The class `middle` of bundle B has   *)
(* no +load; bundle C subclasses it; bundle D stands beside them and lists *)
(* a subclass before its superclass.  The bundles have categories, one of  *)
(* them on a weak-linked class that is missing.                            *)
(***************************************************************************)
EXTENDS LoadMethods, TLC

CONSTANTS t1, t2, app, bundleB, bundleC, bundleD,
          root, middle, leaf, other, derived, onRoot, onLeaf, onMissing, onOther

MCThread == {t1, t2}
MCImage == {app, bundleB, bundleC, bundleD}
MCBundle == {bundleB, bundleC, bundleD}
MCClass == {root, middle, leaf, other, derived}
MCCategory == {onRoot, onLeaf, onMissing, onOther}

MCSuper == (root :> Nil) @@ (middle :> root) @@ (leaf :> middle) @@ (other :> root) @@
           (derived :> other)
MCCategoryClass == (onRoot :> root) @@ (onLeaf :> leaf) @@ (onMissing :> Nil) @@
                   (onOther :> other)
MCImageOf == (root :> app) @@ (middle :> bundleB) @@ (leaf :> bundleC) @@
             (other :> bundleD) @@ (derived :> bundleD) @@
             (onRoot :> bundleB) @@ (onLeaf :> bundleC) @@ (onMissing :> bundleC) @@ (onOther :> bundleD)
MCHasLoad == (MCClass \cup MCCategory) \ {middle}
MCNonlazyClasses == (app :> <<root>>) @@ (bundleB :> <<>>) @@ (bundleC :> <<leaf>>) @@
                    (bundleD :> <<derived, other>>)
MCNonlazyCategories == (app :> <<>>) @@ (bundleB :> <<onRoot>>) @@
                       (bundleC :> <<onMissing, onLeaf>>) @@ (bundleD :> <<onOther>>)

(* Bundle B, whose category is on a class of the application, is initialized *)
(* after it; the other links are upward, so that dyld may announce bundles   *)
(* before the images of their superclasses.                                  *)
MCInitializedFirst == [m \in MCImage |-> IF m = bundleB THEN {app} ELSE {}]

(* All links are upward. *)
MCUpward == [m \in MCImage |-> {}]
=============================================================================
