----------------------------- MODULE MCDataTable -----------------------------
EXTENDS DataTable

\* A primary key of two values and a second unique column.
MCTuples == {<<1, 1>>, <<1, 2>>, <<2, 2>>}
MCLoaded == <<1, 1>>
MCUnique == {1, 2}
=============================================================================
