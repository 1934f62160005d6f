---------------------------- MODULE MCLifecycle ----------------------------
(* Two releases; the second adds a media migration and one of m4. *)
EXTENDS Lifecycle

Known1 == [l \in LedgerNames |-> << l >>]
Known2 == [Known1 EXCEPT !["media"] = << "media", "media2" >>]
MCReleases == {"r1", "r2"}
MCKnown == [r \in MCReleases |-> IF r = "r1" THEN Known1 ELSE Known2]
MCLeast == [r \in MCReleases |-> [l \in LedgerNames |-> IF l = "m4" THEN 0 ELSE Len(MCKnown[r][l])]]
MCInitial == {NoRelease, "r1"}

=============================================================================
