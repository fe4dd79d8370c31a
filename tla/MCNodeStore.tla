----------------------------- MODULE MCNodeStore -----------------------------
(***************************************************************************)
(* NodeStore for TLC: two kinds of terms, one IRI that has a reserved ID,  *)
(* two more IRIs, so that a second insertion can follow a lookup that lost  *)
(* the race for the first, and one literal.                                *)
(***************************************************************************)
EXTENDS NodeStore, TLC

CONSTANTS iri, literal, xsd_string, i1, i2, l1

MCKinds    == {iri, literal}
MCViews    == {xsd_string, i1, i2, l1}
MCKindOf   == xsd_string :> iri @@ i1 :> iri @@ i2 :> iri @@ l1 :> literal
MCReserved == xsd_string :> 1 @@ i1 :> 0 @@ i2 :> 0 @@ l1 :> 0
MCFirstId  == iri :> 3 @@ literal :> 1

=============================================================================
