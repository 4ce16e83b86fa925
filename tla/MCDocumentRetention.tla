------------------------- MODULE MCDocumentRetention -------------------------
(* Instances of DocumentRetention for model checking: one architect is      *)
(* enough, since the page it looks at can be stale against its own changes. *)
EXTENDS DocumentRetention
=============================================================================
