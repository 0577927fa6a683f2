-------------------------- MODULE TilePublication ---------------------------
(****************************************************************************)
(* What the import of the transport tiles promises to the readers of the    *)
(* table: it goes in one step from one complete file to another, never      *)
(* through a part of a file or a mixture of two, and a version number is    *)
(* announced only for an import whose tiles are already in the table.       *)
(****************************************************************************)
EXTENDS Integers

CONSTANTS
    Tables,     \* the complete tables, one per file
    NoTable,    \* the empty table before the first import
    Imports     \* ids of imports, in the order they were opened

VARIABLES
    table,      \* what a reader finds
    waiting,    \* imports published and not yet announced
    version     \* the version the catalog gives (0: none)

publicationVars == <<table, waiting, version>>

PublicationInit ==
    /\ table = NoTable
    /\ waiting = {}
    /\ version = 0

(* The tiles of a whole file replace the ones of the previous import.       *)
Replace ==
    /\ \E run \in Imports \ waiting : waiting' = waiting \cup {run}
    /\ table' \in Tables
    /\ UNCHANGED version

(* An import that is in the table becomes the version of the URLs, unless a *)
(* later one already is.                                                    *)
Announce ==
    /\ \E run \in waiting :
          /\ waiting' = waiting \ {run}
          /\ version' = IF run > version THEN run ELSE version
    /\ UNCHANGED table

PublicationNext == Replace \/ Announce

PublicationSpec == PublicationInit /\ [][PublicationNext]_publicationVars
=============================================================================
