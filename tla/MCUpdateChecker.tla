---------------------------- MODULE MCUpdateChecker ----------------------------
(* A small instance of UpdateChecker.                                          *)
EXTENDS UpdateChecker, TLC

Number(n) == [number |-> TRUE, value |-> n]
Word(n) == [number |-> FALSE, value |-> n]
Version(core, prerelease) == [core |-> core, prerelease |-> prerelease]

\* 1.0.0-2 < 1.0.0-rc < 1.0.0-rc.1 < 1.0.0 < 1.1.0-rc
MCAscending == <<Version(<<1, 0, 0>>, <<Number(2)>>), Version(<<1, 0, 0>>, <<Word(1)>>),
                 Version(<<1, 0, 0>>, <<Word(1), Number(1)>>), Version(<<1, 0, 0>>, <<>>),
                 Version(<<1, 1, 0>>, <<Word(1)>>)>>
MCManifests == {[version |-> MCAscending[3], repository |-> TRUE],
                [version |-> Odd, repository |-> FALSE],
                [version |-> Absent, repository |-> FALSE]}
=============================================================================
