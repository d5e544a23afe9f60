----------------------------- MODULE MCExtension -----------------------------
(***************************************************************************)
(* Two databases of one user: the first has its settings changed and       *)
(* serves on one SQL thread, stops and attaches on another; the second     *)
(* dials, over the same key file.  Two ordinary relay lists are alike.     *)
(***************************************************************************)
EXTENDS Extension, TLC

CONSTANTS d1, d2, t1, t2, t3, r1, r2

MCDbOf == (t1 :> d1) @@ (t2 :> d1) @@ (t3 :> d2)

MCMakes == (t1 :> {"set", "serve"}) @@ (t2 :> {"stop", "attach"}) @@ (t3 :> {"dial"})

Symmetry == Permutations({r1, r2})
=============================================================================
