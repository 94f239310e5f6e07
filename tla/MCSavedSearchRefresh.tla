----------------------- MODULE MCSavedSearchRefresh -----------------------
(***************************************************************************)
(* SavedSearchRefresh for TLC.  One lot of each provider, on the page that *)
(* every search fetches, on the one that only a search of Copart alone     *)
(* fetches, or on none.                                                    *)
(***************************************************************************)
EXTENDS SavedSearchRefresh

CONSTANT Iaai

SearchLots == {<<Copart, 1>>, <<Iaai, 1>>}
=============================================================================
