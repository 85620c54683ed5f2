------------------------------ MODULE Catalog -------------------------------
(***************************************************************************)
(* catalog/seed.py as data: the table of subtypes and the products that    *)
(* generate_products makes of it.  A product is what can be told of it     *)
(* through search and the labelled queries; prices, texts, lead times and  *)
(* the stock drawn at random are left out.                                 *)
(***************************************************************************)
EXTENDS Integers, SequencesExt

\* A row of SUBTYPE_SPECS; its attribute axes are pairs of a name and the values.
Family(category, subtype, materials, brands, attrs) ==
  [category |-> category, subtype |-> subtype, materials |-> materials,
   brands |-> brands, attrs |-> attrs]

WAREHOUSES == {"ILCHI", "TXDAL", "CALAX", "GAATL", "NJEWR"}

SUBTYPE_SPECS == <<
  Family("Fasteners", "Hex Bolt", <<"Stainless Steel", "Zinc-Plated Steel", "Brass">>,
    <<"Titan", "IronClad", "MaxForce", "ProLine">>,
    << <<"thread_size", <<"1/4-20", "3/8-16", "1/2-13", "M6", "M8", "M10">> >>,
       <<"length", <<"1in", "2in", "3in">> >> >>),
  Family("Fasteners", "Socket Cap Screw", <<"Stainless Steel", "Alloy Steel">>,
    <<"Titan", "IronClad", "MaxForce">>,
    << <<"thread_size", <<"M4", "M5", "M6", "M8", "M10">> >>,
       <<"length", <<"10mm", "20mm", "30mm">> >> >>),
  Family("Fasteners", "Hex Nut", <<"Stainless Steel", "Zinc-Plated Steel", "Brass">>,
    <<"Titan", "IronClad", "ProLine">>,
    << <<"thread_size", <<"1/4-20", "3/8-16", "1/2-13", "M6", "M8", "M10">> >> >>),
  Family("Fasteners", "Flat Washer", <<"Stainless Steel", "Zinc-Plated Steel">>,
    <<"Titan", "MaxForce", "ProLine">>,
    << <<"size", <<"1/4in", "3/8in", "1/2in", "M6", "M8">> >> >>),
  Family("Electrical", "Circuit Breaker", <<"Thermoplastic">>,
    <<"Voltec", "IronClad", "ProLine">>,
    << <<"voltage", <<"120V", "240V", "480V">> >>,
       <<"amperage", <<"15A", "20A", "30A", "50A">> >>,
       <<"poles", <<"1-Pole", "2-Pole", "3-Pole">> >> >>),
  Family("Electrical", "Contactor", <<"Thermoplastic">>,
    <<"Voltec", "DuraDrive", "ProLine">>,
    << <<"voltage", <<"120V", "240V", "480V">> >>,
       <<"amperage", <<"25A", "40A", "60A">> >> >>),
  Family("Electrical", "Fuse", <<"Ceramic">>, <<"Voltec", "SafeGuard", "ProLine">>,
    << <<"voltage", <<"250V", "600V">> >>,
       <<"amperage", <<"5A", "10A", "20A", "30A">> >> >>),
  Family("Safety", "Safety Glasses", <<"Polycarbonate">>,
    <<"SafeGuard", "GripPro", "ProLine">>,
    << <<"tint", <<"Clear", "Gray", "Amber">> >>, <<"rating", <<"ANSI Z87.1">> >> >>),
  Family("Safety", "Work Gloves", <<"Nitrile", "Leather", "Latex">>,
    <<"SafeGuard", "GripPro", "AceGrip">>,
    << <<"size", <<"S", "M", "L", "XL">> >> >>),
  Family("Safety", "Hard Hat", <<"HDPE">>, <<"SafeGuard", "GripPro">>,
    << <<"color", <<"White", "Yellow", "Blue">> >>,
       <<"class", <<"Type I", "Type II">> >> >>),
  Family("Power Transmission", "V-Belt", <<"Rubber">>,
    <<"DuraDrive", "FlowMaster", "MaxForce">>,
    << <<"series", <<"A", "B", "C">> >>,
       <<"length", <<"30in", "40in", "50in", "60in">> >> >>),
  Family("Power Transmission", "Roller Chain", <<"Carbon Steel">>,
    <<"DuraDrive", "MaxForce">>, << <<"pitch", <<"#40", "#50", "#60">> >> >>),
  Family("Power Transmission", "Ball Bearing", <<"Chrome Steel">>,
    <<"DuraDrive", "FlowMaster">>,
    << <<"bore", <<"10mm", "15mm", "20mm", "25mm">> >> >>),
  Family("Hand Tools", "Adjustable Wrench", <<"Chrome Vanadium">>,
    <<"GripPro", "MaxForce", "Titan">>,
    << <<"size", <<"6in", "8in", "10in", "12in">> >> >>),
  Family("Hand Tools", "Screwdriver", <<"Chrome Vanadium">>,
    <<"GripPro", "AceGrip", "Titan">>,
    << <<"drive", <<"Phillips #1", "Phillips #2", "Slotted 1/4in", "Torx T20">> >> >>),
  Family("Hand Tools", "Pliers", <<"Steel">>, <<"GripPro", "AceGrip">>,
    << <<"style", <<"Needle-Nose", "Lineman", "Slip-Joint">> >> >>),
  Family("Abrasives", "Grinding Wheel", <<"Aluminum Oxide">>,
    <<"MaxForce", "IronClad", "ProLine">>,
    << <<"diameter", <<"4in", "4.5in", "6in", "7in">> >>,
       <<"grit", <<"24", "36", "60">> >> >>),
  Family("Abrasives", "Cutoff Wheel", <<"Aluminum Oxide">>, <<"MaxForce", "IronClad">>,
    << <<"diameter", <<"4in", "4.5in", "6in">> >>,
       <<"thickness", <<"0.045in", "1/8in">> >> >>),
  Family("Motors", "AC Motor", <<"Cast Iron">>, <<"DuraDrive", "Voltec">>,
    << <<"horsepower", <<"1 HP", "2 HP", "5 HP">> >>,
       <<"voltage", <<"230V", "460V">> >>,
       <<"rpm", <<"1750 RPM", "3450 RPM">> >> >>),
  Family("Pneumatics", "Air Filter Regulator", <<"Aluminum">>,
    <<"FlowMaster", "Voltec">>,
    << <<"port", <<"1/4in NPT", "3/8in NPT", "1/2in NPT">> >> >>),
  Family("Pneumatics", "Push-to-Connect Fitting", <<"Brass", "Nylon">>,
    <<"FlowMaster", "ProLine">>, << <<"port", <<"1/4in", "3/8in", "1/2in">> >> >>),
  Family("Plumbing", "Ball Valve", <<"Brass", "PVC", "Stainless Steel">>,
    <<"FlowMaster", "ProLine", "IronClad">>,
    << <<"size", <<"1/2in", "3/4in", "1in">> >> >>),
  Family("Plumbing", "Pipe Elbow", <<"PVC", "Copper", "Brass">>,
    <<"FlowMaster", "ProLine">>,
    << <<"size", <<"1/2in", "3/4in", "1in">> >>,
       <<"angle", <<"90 degree", "45 degree">> >> >>) >>

\* [f(x) for x in s], and [y for x in s for y in f(x)]
Mapped(s, f(_)) == [i \in DOMAIN s |-> f(s[i])]
FlatMapped(s, f(_)) == FlattenSeq(Mapped(s, f))

\* Cartesian product of the axes; the last axis varies fastest.
IterAttrCombos(attrs) ==
  FoldLeft(LAMBDA combos, axis :
      FlatMapped(combos, LAMBDA c : Mapped(axis[2], LAMBDA v : (axis[1] :> v) @@ c)),
    << <<>> >>, attrs)

\* Mutant: the loops over brands and materials are swapped.
MaterialsFirst(spec) ==
  FlatMapped(spec.materials, LAMBDA material :
    FlatMapped(spec.brands, LAMBDA brand :
      Mapped(IterAttrCombos(spec.attrs), LAMBDA combo :
        [brand |-> brand, category |-> spec.category, subtype |-> spec.subtype,
         material |-> material, attributes |-> combo])))

\* The products of one family, brand by brand and material by material.
ProductsOfSpec(spec) ==
  FlatMapped(spec.brands, LAMBDA brand :
    FlatMapped(spec.materials, LAMBDA material :
      Mapped(IterAttrCombos(spec.attrs), LAMBDA combo :
        [brand |-> brand, category |-> spec.category, subtype |-> spec.subtype,
         material |-> material, attributes |-> combo])))

\* generate_products: a product's id, and the number in its part_no, is its place
\* in this sequence.
GeneratedProducts == FlatMapped(SUBTYPE_SPECS, ProductsOfSpec)
=============================================================================
