----------------------- MODULE MCWatchlistMonitoring -----------------------
(***************************************************************************)
(* WatchlistMonitoring for TLC.  Two revisions after the first are enough  *)
(* for a refresh that saw an older page than the one stored before it, and *)
(* one more for a change that comes after such a race.                     *)
(***************************************************************************)
EXTENDS WatchlistMonitoring
=============================================================================
