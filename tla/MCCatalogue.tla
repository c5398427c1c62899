------------------------------ MODULE MCCatalogue ------------------------------
(***************************************************************************)
(* Instances of Catalogue for TLC.  The first write describes a reasoning   *)
(* model that cannot be sold, since it emits less than one token of each    *)
(* kind, at a price in whole atomic units; the second one that can, at a    *)
(* price that is negative for the prompt, so that the cost of a request is  *)
(* above the minimum charge, below it or below nothing.  A gateway that did *)
(* not get the reasoning record takes either for a plain model.             *)
(***************************************************************************)
EXTENDS CatalogueProps, TLC

CONSTANTS m1, m2

TwoModels == <<m1, m2>>
ModelOf(i, o, m, t) == [inputPrice |-> i, outputPrice |-> o, maxOutput |-> m, reasoning |-> t]
Offers == <<ModelOf(1, 7, 1, TRUE), ModelOf(-2, 3, 3, TRUE)>>

\* The price of the first model is read apart from everything else.
Split == {{<<m1, "price">>}, {<<m1, "identity">>, <<m2, "identity">>, <<m2, "price">>}}
===============================================================================
