----------------------------- MODULE MCCatalogue -----------------------------
(* Instances of Catalogue for TLC: the names of the catalogues and of the   *)
(* products, and the `_id` that catalogue-index.repository.ts makes of them.*)
EXTENDS Catalogue, Sequences

Spell(c, name) == c \o ":" \o name

(* The products "", "b:c" and "c", in this order.  Within one catalogue no *)
(* two of them are alike; "a" with "b:c" and "a:b" with "c" are "a:b:c".   *)
IndexDocId == [p \in Pairs |-> Spell(p[1], <<"", "b:c", "c">>[p[2] + 1])]
=============================================================================
