------------------------------- MODULE MCRetrieval -------------------------------
(***************************************************************************)
(* Retrieval for TLC: two companies that may be joined by two edges, and   *)
(* an industry two hops from one of them.                                  *)
(***************************************************************************)
EXTENDS Retrieval

CONSTANTS acme, zenith, robotics, filing, news

MCEntities == {acme, zenith, robotics}
MCTypeOf == acme :> "Company" @@ zenith :> "Company" @@ robotics :> "Industry"
MCOrder == acme :> 1 @@ robotics :> 2 @@ zenith :> 3
MCSchema ==
  [SUPPLIES |-> [sources |-> {"Company"}, targets |-> {"Company"}],
   COMPETES_WITH |-> [sources |-> {"Company"}, targets |-> {"Company"}],
   OPERATES_IN |-> [sources |-> {"Company"}, targets |-> {"Industry"}]]
MCTypeOrder == [COMPETES_WITH |-> 1, OPERATES_IN |-> 2, SUPPLIES |-> 3]
MCFilters == {DOMAIN MCSchema, {"SUPPLIES", "OPERATES_IN"}}

Said(type, source, target, validity) ==
  [type |-> type, source |-> source, target |-> target, validity |-> validity]

\* A rival is named in both directions; a relationship ends, and is then
\* mentioned without its end; an industry operates in no company.
MCStatements ==
  {Said("SUPPLIES", zenith, acme, "until"), Said("SUPPLIES", zenith, acme, "unknown"),
   Said("COMPETES_WITH", zenith, acme, "unknown"), Said("COMPETES_WITH", acme, zenith, "unknown"),
   Said("OPERATES_IN", zenith, robotics, "unknown"),
   Said("OPERATES_IN", robotics, zenith, "unknown")}
MCMentionsOf == filing :> {zenith} @@ news :> {acme, zenith}
MCSimilarity == filing :> 2 @@ news :> 1
=============================================================================
