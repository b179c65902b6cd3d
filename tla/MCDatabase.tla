----------------------------- MODULE MCDatabase -----------------------------
(* Instances of Database for TLC: the Digger and the snapshot tool, with   *)
(* the options that wdigger.cpp and xdb_rtap_snap_main.cpp set, and a      *)
(* program with the two that the constructor finds contradictory.          *)
EXTENDS Database

MCDigger == {"OF_CREATE", "OF_LOAD_SNAP", "OF_SAVE_SNAP", "OF_REGISTER_EVENT"}
MCSnap == {"OF_TRUNCATE", "OF_SAVE_SNAP"}
MCBoth == {"OF_TRUNCATE", "OF_LOAD_SNAP"}
MCPrograms == {MCDigger, MCSnap, MCBoth}

=============================================================================
