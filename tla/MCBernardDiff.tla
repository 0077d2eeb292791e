---------------------------- MODULE MCBernardDiff ----------------------------
(* A small instance of BernardDiff for TLC. *)
EXTENDS BernardDiff

CONSTANTS a, b, c, f, na, nb, nc, nf, new

MayTake == [i \in {a, b, c, f} |->
              CASE i = a -> {na, new} [] i = b -> {nb} [] i = c -> {nc} [] OTHER -> {nf}]

At(p, n) == [parent |-> p, name |-> n, trashed |-> FALSE]

\* /a/b/c with a file in c, and all of it side by side.
Nested == [i \in {a, b, c, f} |->
             CASE i = a -> At(Top, na) [] i = b -> At(a, nb) [] i = c -> At(b, nc) [] OTHER -> At(c, nf)]
Flat == [i \in {a, b, c, f} |->
           CASE i = a -> At(Top, na) [] i = b -> At(Top, nb) [] i = c -> At(Top, nc) [] OTHER -> At(a, nf)]

BothTrees == {Nested, Flat}
=============================================================================
