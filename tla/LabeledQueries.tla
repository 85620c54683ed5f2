--------------------------- MODULE LabeledQueries ----------------------------
(***************************************************************************)
(* What other files of the repository say about the generated catalog: the *)
(* labelled queries of the evaluation and the SKUs the benches name.       *)
(***************************************************************************)
EXTENDS Catalog, FiniteSetsExt, TLC

\* A criterion an entry does not state.
Anything == "any"
NoAttributes == <<>>

Label(subtype, material, attributes, has_typo) ==
  [criteria |-> [subtype |-> subtype, material |-> material, attributes |-> attributes],
   has_typo |-> has_typo]

\* Entries q01 to q16: criteria, and whether there is a misspelled variant.
LABELED_QUERIES == <<
  Label("Hex Bolt", "Stainless Steel", NoAttributes, TRUE),
  Label("Hex Nut", "Brass", NoAttributes, TRUE),
  Label("Circuit Breaker", Anything, "voltage" :> "480V", TRUE),
  Label("Circuit Breaker", Anything, "amperage" :> "20A", TRUE),
  Label("Work Gloves", "Nitrile", NoAttributes, TRUE),
  Label("Work Gloves", "Leather", NoAttributes, FALSE),
  Label("AC Motor", Anything, "horsepower" :> "5 HP", TRUE),
  Label("AC Motor", Anything, "voltage" :> "460V", FALSE),
  Label("Ball Valve", "Brass", NoAttributes, TRUE),
  Label("Grinding Wheel", Anything, NoAttributes, TRUE),
  Label("Safety Glasses", Anything, "tint" :> "Amber", FALSE),
  Label("Adjustable Wrench", Anything, NoAttributes, TRUE),
  Label("Fuse", Anything, "amperage" :> "30A", FALSE),
  Label("Contactor", Anything, "voltage" :> "240V", TRUE),
  Label("Ball Bearing", Anything, "bore" :> "20mm", FALSE),
  Label("Hex Nut", "Zinc-Plated Steel", NoAttributes, FALSE) >>

\* Mutant: the material is not looked at.
AnyMaterial(products, criteria) ==
  {i \in DOMAIN products :
     /\ criteria.subtype \in {Anything, products[i].subtype}
     /\ \A axis \in DOMAIN criteria.attributes :
          /\ axis \in DOMAIN products[i].attributes
          /\ products[i].attributes[axis] = criteria.attributes[axis]}

\* relevant_ids: the products that meet every criterion that is stated.
RelevantIds(products, criteria) ==
  {i \in DOMAIN products :
     /\ criteria.subtype \in {Anything, products[i].subtype}
     /\ criteria.material \in {Anything, products[i].material}
     /\ \A axis \in DOMAIN criteria.attributes :
          /\ axis \in DOMAIN products[i].attributes
          /\ products[i].attributes[axis] = criteria.attributes[axis]}

RelevantTo == [n \in DOMAIN LABELED_QUERIES |->
  RelevantIds(GeneratedProducts, LABELED_QUERIES[n].criteria)]

\* How many products are relevant to each label.
Sizes == [n \in DOMAIN LABELED_QUERIES |-> Cardinality(RelevantTo[n])]

\* A part number is made of the brand, the subtype and the product's number.
SCENARIO_SKUS == <<
  <<"IronClad", "Hex Bolt", 55>>, <<"IronClad", "Circuit Breaker", 454>>,
  <<"AceGrip", "Work Gloves", 583>>, <<"DuraDrive", "AC Motor", 743>>,
  <<"Titan", "Hex Bolt", 1>>, <<"FlowMaster", "Ball Valve", 777>>,
  <<"MaxForce", "Grinding Wheel", 687>>, <<"Voltec", "Contactor", 499>> >>

AVAILABILITY_SKUS == <<
  <<"IronClad", "Hex Bolt", 55>>, <<"IronClad", "Circuit Breaker", 454>>,
  <<"AceGrip", "Work Gloves", 583>>, <<"DuraDrive", "AC Motor", 743>>,
  <<"DuraDrive", "V-Belt", 607>> >>

\* The lookup by part_no finds a product.
IsKnown(sku) ==
  /\ sku[3] \in DOMAIN GeneratedProducts
  /\ GeneratedProducts[sku[3]].brand = sku[1]
  /\ GeneratedProducts[sku[3]].subtype = sku[2]
=============================================================================
