------------------------------- MODULE MCResearch -------------------------------
(***************************************************************************)
(* Research for TLC.  A grain is a hundredth.  The magnitudes are tens and *)
(* hundreds, so that the figures fit TLC's integers.                       *)
(***************************************************************************)
EXTENDS Research

CONSTANTS first, restated, filing, amendment, phantom, r1, r2, claude, ollama

MCPowerOf == [thousand |-> 1, million |-> 2, margins |-> 2]
MCMagnitudes == {"thousand", "million"}
MCYearRange == 1900..2100

Written(digits, places, word, suffix) ==
  [digits |-> digits, places |-> places, currency |-> word \in MCMagnitudes, word |-> word,
   suffix |-> suffix]

\* Revenue, a margin in percent and a ratio; the restatement changes all.
MCComputed == first :> {2346, -125} @@ restated :> {1754, 4}
MCReported == first :> {161359, -99960} @@ restated :> {164950}
MCWorth == first :> {777700} @@ restated :> Invalid
MCSourceOf == first :> {filing} @@ restated :> {filing, amendment}

Draft(figures, cited) == [figures |-> figures, cited |-> cited]
MCDrafts ==
  {Draft({Written(16, 0, "million", ""), Written(235, 1, "", "%"), Written(1000, 0, "", "")},
         {filing}),
   Draft({Written(165, 0, "thousand", ""), Written(2024, 0, "", ""), Written(4, 0, "", "%")},
         {filing}),
   Draft({Written(1600, 0, "", ""), Written(7777, 0, "", "")}, {amendment}),
   Draft({Written(2024, 0, "margins", ""), Written(18, 0, "", "")}, {filing}),
   Draft({Written(19, 0, "million", "")}, {filing, phantom}),
   Draft({Written(2, 0, "thousand", "")}, {phantom})}
MCRequests == {r1, r2}
Twins == Permutations(MCRequests)
MCFallbacks == <<claude, ollama, ollama>>
=============================================================================
