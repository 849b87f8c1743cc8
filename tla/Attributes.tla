----------------------------- MODULE Attributes -----------------------------
(***************************************************************************)
(* What the attribute extractors find in the title and description of a    *)
(* listing (foundation/attrs/attrs.go).  A text is the set of the phrases  *)
(* it holds; a pattern is the set of the phrases it matches, each phrase   *)
(* chosen for the patterns it tells apart.  The patterns have no word      *)
(* boundaries but for wells, septic and property types: an unpaved road is *)
(* paved and ponderosas are a pond.                                        *)
(***************************************************************************)
EXTENDS Integers, FiniteSets

Null == "null"

WaterNeg == {"no creek"}
WaterPos == {"no creek", "creek", "ponderosas"}
OffGridPos == {"off-grid", "no power available", "no utilities"}
OffGridNeg == {"no power available", "power available", "on-grid"}
PowerNeg == {"no power available", "no electricity", "off-grid"}
PowerPos == {"no power available", "power available", "electric service"}
WellNeg == {"no well"}
WellPos == {"no well", "drilled well", "well kept"}
SepticNeg == {"no septic"}
SepticPos == {"no septic", "septic"}

(* The candidates of the road access in their order, confidence in         *)
(* hundredths, and the categories of the property type in theirs.          *)
Roads == <<
  [re |-> {"county road", "unpaved road"}, value |-> "paved", confidence |-> 95],
  [re |-> {"landlocked"}, value |-> "none", confidence |-> 90],
  [re |-> {"gravel road"}, value |-> "gravel", confidence |-> 90],
  [re |-> {"two-track"}, value |-> "dirt", confidence |-> 85],
  [re |-> {"forest service road"}, value |-> "seasonal", confidence |-> 80] >>
PropertyTypes == <<
  [re |-> {"timber", "tree farm", "forest service road"}, value |-> "timber"],
  [re |-> {"tree farm", "pasture"}, value |-> "agricultural"],
  [re |-> {"hunting", "elk"}, value |-> "hunting"],
  [re |-> {"lot", "residential"}, value |-> "homesite"],
  [re |-> {"commercial"}, value |-> "commercial"] >>

Patterns == {WaterPos, OffGridPos, OffGridNeg, PowerNeg, PowerPos, WellPos, SepticPos}
              \cup {Roads[i].re : i \in 1..5} \cup {PropertyTypes[i].re : i \in 1..5}
Phrases == UNION Patterns

Says(text, re) == text \cap re # {}

Negated(text, neg, pos) ==
  IF Says(text, neg) THEN "false" ELSE IF Says(text, pos) THEN "true" ELSE Null

(* The first of five candidates with the highest score, if any scores.     *)
Best(score) ==
  CHOOSE i \in 1..5 : \A j \in 1..5 :
    score[i] > score[j] \/ (score[i] = score[j] /\ i <= j)
Winner(candidates, score) ==
  IF \A i \in 1..5 : score[i] = 0 THEN Null ELSE candidates[Best(score)].value

ExtractWaterFrontage(text) == Negated(text, WaterNeg, WaterPos)

ExtractOffGrid(text) ==
  IF Says(text, OffGridPos) THEN "true" ELSE IF Says(text, OffGridNeg) THEN "false" ELSE Null

ExtractRoadAccess(text) ==
  Winner(Roads, [i \in 1..5 |-> IF Says(text, Roads[i].re) THEN Roads[i].confidence ELSE 0])

(* Mutant: the positive pattern first.                                     *)
ExtractPowerPositive(text) ==
  IF Says(text, PowerPos) THEN "true" ELSE IF Says(text, PowerNeg) THEN "false" ELSE Null

ExtractPower(text) == Negated(text, PowerNeg, PowerPos)
ExtractWell(text) == Negated(text, WellNeg, WellPos)
ExtractSeptic(text) == Negated(text, SepticNeg, SepticPos)

(* A phrase of the text counts once for each type it speaks of.            *)
ExtractPropertyType(text) ==
  Winner(PropertyTypes, [i \in 1..5 |-> Cardinality(text \cap PropertyTypes[i].re)])

Attrs == {"water_frontage", "off_grid", "road_access", "power", "well", "septic", "property_type"}
Words == {"true", "false", "paved", "none", "gravel", "dirt", "seasonal",
          "timber", "agricultural", "hunting", "homesite", "commercial", Null}

ExtractAll(text) ==
  [x \in Attrs |->
     CASE x = "water_frontage" -> ExtractWaterFrontage(text)
       [] x = "off_grid"       -> ExtractOffGrid(text)
       [] x = "road_access"    -> ExtractRoadAccess(text)
       [] x = "power"          -> ExtractPower(text)
       [] x = "well"           -> ExtractWell(text)
       [] x = "septic"         -> ExtractSeptic(text)
       [] x = "property_type"  -> ExtractPropertyType(text)]
=============================================================================
