------------------------------- MODULE MCEvidence -------------------------------
(* Two platforms, two releases, one identifier that may be asked for and one  *)
(* that may be observed, and a handful of answers a provider may give.        *)
EXTENDS Evidence

CONSTANTS xbox, wii, one, two, idA, idB, image

Record(method, status) ==
  [method |-> method, authority |-> "no-intro", status |-> status,
   current |-> TRUE, named |-> TRUE]

Match(platform, name, support, records) ==
  [platform |-> platform, name |-> name, evidence |-> support,
   conflicted |-> FALSE, catalogue |-> records]

Good(platform, name) == Match(platform, name, "content", {Record("strong", "verified")})

MCMatches ==
  {Good(xbox, one), Good(xbox, two), Good(wii, one),
   Match(xbox, one, "content", {Record("strong", "bad"), Record("strong", "verified")}),
   Match(xbox, one, "content", {Record("crc", "verified")}),
   Match(xbox, one, "content", {}), Match(xbox, one, "name", {}),
   [Good(wii, two) EXCEPT !.conflicted = TRUE]}

MCDetections ==
  {[top |-> {}, best |-> None], [top |-> {xbox}, best |-> xbox],
   [top |-> {wii}, best |-> wii], [top |-> {xbox, wii}, best |-> wii],
   [top |-> {xbox, wii}, best |-> xbox]}

Metadata(platform, id) == [platform |-> platform, primary |-> id, identified |-> id # None]

MCInspections ==
  {[representation |-> image, metadata |-> None],
   [representation |-> None, metadata |-> Metadata(xbox, idA)],
   [representation |-> image, metadata |-> Metadata(xbox, idB)],
   [representation |-> None, metadata |-> Metadata(wii, None)],
   [representation |-> None, metadata |-> Metadata(None, None)]}

MCExtractions ==
  {[representation |-> None, metadata |-> None],
   [representation |-> image, metadata |-> Metadata(xbox, idA)]}
=================================================================================
