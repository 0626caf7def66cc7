----------------------------- MODULE MCURLTest -----------------------------
EXTENDS URLTest, TLC

\* The second list drops a proxy and keeps one by name.
MCLists == << <<"a", "b">>, <<"b">> >>

\* A test fails or measures a delay.
MCTestResults == {0, 100}

Symmetric == Permutations(Callers)
=============================================================================
