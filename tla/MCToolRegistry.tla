---------------------------- MODULE MCToolRegistry ----------------------------
EXTENDS ToolRegistry, TLC

CONSTANTS s1, s2, n1, n2

\* Two servers that offer the same name; the second also has a tool that
\* cannot be built.
TwoServers == <<s1, s2>>
SharedName == (s1 :> {n1}) @@ (s2 :> {n1, n2})
FirstBlockable == (s1 :> {n1}) @@ (s2 :> {})
SecondBad == {<<s2, n2>>}

\* One server with a tool that can be built and one that cannot.
OneServer == <<s1>>
OneCatalogue == (s1 :> {n1, n2})
OneBad == {<<s1, n1>>}
=============================================================================
