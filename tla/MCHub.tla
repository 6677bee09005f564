-------------------------------- MODULE MCHub --------------------------------
EXTENDS EventPage

MCSaved == [v \in 0..MaxVersion |-> IF v = 0 THEN "list" ELSE "kanban"]

Budget(d, s, n, w, r, x) ==
  [drops |-> d, signOuts |-> s, watches |-> n, writes |-> w, restarts |-> r, deletes |-> x]
On(v, l) == [view |-> v, layout |-> l]
MCWatches == {On("v1", "none"), On("v1", "kanban"), On("v2", "none")}
First == [t \in Tabs |-> On("v1", IF t = "t1" THEN "none" ELSE "kanban")]
Network(tabs, b, tidy) ==
  [tabs |-> tabs, first |-> First, budget |-> b, tidy |-> tidy]

\* A page that navigates while its stream breaks; one that gives a stream up
\* before its head came and opens another; the server restarts; the account is
\* deleted; two tabs on one view in two layouts.
MCNetworks ==
  {Network({"t1"}, Budget(1, 0, 1, 1, 0, 0), TRUE),
   Network({"t1"}, Budget(1, 0, 0, 0, 0, 0), FALSE),
   Network({"t1"}, Budget(0, 0, 1, 0, 1, 0), TRUE),
   Network({"t1"}, Budget(0, 1, 0, 0, 0, 1), FALSE),
   Network({"t1", "t2"}, Budget(0, 0, 0, 1, 0, 0), TRUE)}
=============================================================================
