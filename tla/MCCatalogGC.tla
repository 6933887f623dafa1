----------------------------- MODULE MCCatalogGC -----------------------------
(* A small instance of CatalogGC for TLC.                                   *)
EXTENDS CatalogGC, TLC

CONSTANTS root, a, b, c

Four == {root, a, b, c}
\* c hangs from a and from b, which are both root entities.
Diamond == {<<root, a>>, <<root, b>>, <<a, b>>, <<a, c>>, <<b, c>>}
=============================================================================
