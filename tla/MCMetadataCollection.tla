--------------------------- MODULE MCMetadataCollection ---------------------------
(* Instance of MetadataCollection.tla: a game of two files, one of which shares *)
(* the CRC32 of the target, and two metadata providers.                        *)
EXTENDS MetadataCollection

CONSTANTS track, twin

File(c, r, s, current) == [content |-> c, recorded |-> r, status |-> s, current |-> current]
Strong == {"SHA1", "CRC"}

\* The target in every condition, and another file of the game, listed with a strong
\* hash or with a CRC only.
MCFileRecords ==
  {File(track, Strong, "verified", TRUE), File(track, Strong, "verified", FALSE),
   File(track, Strong, None, TRUE), File(track, Strong, "bad", TRUE),
   File(track, {"CRC"}, "bad", TRUE), File(twin, Strong, "bad", TRUE),
   File(twin, Strong, "verified", TRUE),
   File(twin, {"CRC"}, "bad", TRUE)}
MCSentHashes == {{"SHA256", "SHA1", "CRC"}, {"CRC"}, {}}

MCNormalForm == [t \in Texts |-> IF t = "Zelda" THEN "zelda" ELSE IF t = " " THEN "" ELSE t]
MCObservations ==
  {[titles |-> {}, identifiers |-> {}],
   [titles |-> {"zelda"}, identifiers |-> {"zelda"}],
   [titles |-> {"Zelda", " "}, identifiers |-> {"Zelda"}],
   [titles |-> {"link"}, identifiers |-> {"zelda", "link"}]}
MCProviderOrder == <<"first", "second">>
===================================================================================
