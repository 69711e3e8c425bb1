--------------------------- MODULE MCReleaseTagger ---------------------------
EXTENDS ReleaseTagger

\* Versions on which SEMVER_RE and the spec's pattern agree: two releases,
\* a version with two fields, and one with a trailing letter.
MCVersions == {<<"1", ".", "2", ".", "1">>, <<"1", ".", "2", ".", "2">>,
               <<"1", ".", "2">>, <<"1", ".", "2", ".", "1", "a">>}

\* The same, plus "1.2.1\n" (a trailing newline) and "U.2.1" (a non-ASCII
\* decimal digit).
MCVersionsEdge == MCVersions \cup {<<"1", ".", "2", ".", "1", "\n">>,
                                   <<"U", ".", "2", ".", "1">>}
=============================================================================
