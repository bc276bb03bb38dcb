----------------------------- MODULE SellerCatalog -----------------------------
(***************************************************************************)
(* Which items the seller simulator answers a discovery with               *)
(* (services/sim-bpp/src/handler.py, build_on_discover).  A query and an   *)
(* item are sets of words, in the singular and in lower case.              *)
(***************************************************************************)
CONSTANT Keywords  \* Keywords[i]: the words of item i, its name and keywords

Vocabulary == UNION {Keywords[i] : i \in DOMAIN Keywords}

(* Words of place, time or colour that no item has do not void a search. *)
Recognised(query) == query \cap Vocabulary

(* Every word that counts must be the item's; where none does, nothing is  *)
(* found, and not the whole catalogue.                                     *)
Matches(query) ==
  {i \in DOMAIN Keywords : Recognised(query) # {} /\ Recognised(query) \subseteq Keywords[i]}
=============================================================================
