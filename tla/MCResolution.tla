----------------------------- MODULE MCResolution -----------------------------
EXTENDS Resolution

CONSTANTS d1, d2

M(name, identifiers) == [name |-> name, identifiers |-> identifiers]

MCNames == {"acme", "acme labs", "acme lab", "acme lamb", "zenith"}
MCIdentifiers == {"cik:1", "ticker:A", "ticker:B"}
MCTypeOf == [k \in MCIdentifiers |-> IF k = "cik:1" THEN "cik" ELSE "ticker"]
MCBlockOf == [s \in MCNames |-> IF s = "zenith" THEN "zenith" ELSE "acme"]

\* "acme lab" is a spelling of "acme labs"; "acme lamb" scores even higher
\* against it but shares too few tokens.
MCScore == [p \in MCNames \X MCNames |->
  IF p[1] = p[2] THEN 100
  ELSE IF {p[1], p[2]} = {"acme lab", "acme labs"} THEN 94
  ELSE IF {p[1], p[2]} = {"acme lab", "acme lamb"} THEN 95
  ELSE IF {p[1], p[2]} = {"acme labs", "acme lamb"} THEN 85 ELSE 40]
MCSharesTokens ==
  {p \in MCNames \X MCNames : p[1] = p[2] \/ {p[1], p[2]} = {"acme lab", "acme labs"}}

MCMentions ==
  {M("acme", {}), M("acme", {"ticker:A"}), M("acme", {"ticker:B"}),
   M("acme", {"cik:1", "ticker:B"}), M("acme labs", {"cik:1", "ticker:A"}),
   M("acme lab", {}), M("acme lamb", {}), M("zenith", {"ticker:A"}), M("zenith", {})}
===============================================================================
