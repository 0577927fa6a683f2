--------------------------- MODULE TransportTiles ---------------------------
(****************************************************************************)
(* The import of the OpenStreetMap tiles (jobs/import_transport_tiles.py)   *)
(* and its readers (the catalog and tile routes of api/v1/transport.py).    *)
(*                                                                          *)
(* An import prepares a staging table batch by batch, each batch in a       *)
(* transaction of its own that is retried when the connection drops, so     *)
(* that an import that died can be resumed; then it swaps the staging table *)
(* with the served one in a single transaction and, in a later one, closes  *)
(* its ingestion run.  Browsers keep a tile for a year under a URL that     *)
(* carries the id of the last run that succeeded.                           *)
(*                                                                          *)
(* Assumed of the operator: imports that overlap are of the same file.      *)
(* Nothing in the code prevents the contrary; see README.                   *)
(****************************************************************************)
EXTENDS Integers, Sequences, FiniteSets, SequencesExt, FiniteSetsExt

CONSTANTS
    Importers,      \* processes running the job
    Files,          \* .mbtiles files
    RowsOf,         \* [Files -> Seq([zoom, x, row])], the table `tiles` of each
    MarkOf,         \* [Files -> marks], size and replication time of each
    BatchSize,      \* BATCH_SIZE
    Attempts,       \* ATTEMPTS
    Browsers,       \* browsers (or CDN nodes) asking for tiles
    NoFile,         \* no file, no mark, no tile
    MaxTileRuns,    \* bound: ingestion runs opened
    MaxDrops        \* bound: crashes of an import and dropped connections

(* An MBTiles file has one row per tile, of whole numbers.                  *)
ASSUME FilesAssumption ==
    /\ NoFile \notin Files
    /\ \A f \in Files :
          /\ RowsOf[f] \in Seq([zoom : Nat, x : Nat, row : Nat])
          /\ \A i, j \in 1..Len(RowsOf[f]) : RowsOf[f][i] = RowsOf[f][j] => i = j

(* A batch holds a row, a batch is tried once, and the bounds are numbers.  *)
ASSUME ImportAssumption ==
    /\ BatchSize \in Nat \ {0} /\ Attempts \in Nat \ {0}
    /\ MaxTileRuns \in Nat /\ MaxDrops \in Nat

(* Two files never have the same size and replication time.                 *)
ASSUME MarkAssumption == \A f, g \in Files : MarkOf[f] = MarkOf[g] => f = g

VARIABLES
    staging,    \* transport_tiles_next: does it exist, its comment, its rows
    served,     \* transport_tiles: the file each tile comes from
    importer,   \* the local state of each process
    tileRuns,   \* ingestion_runs of the job, in order of id
    page,       \* version in the catalog each browser holds (0: none)
    kept,       \* tiles kept by browsers under their versioned URL
    drops       \* crashes and dropped connections so far

tileVars == <<staging, served, importer, tileRuns, page, kept, drops>>

(* A row numbered from the bottom (TMS), as the map numbers it (XYZ).       *)
Xyz(t) == [zoom |-> t.zoom, x |-> t.x, y |-> 2^t.zoom - 1 - t.row]

(* The k-th batch of a file, empty after the last.                          *)
TileBatch(f, k) ==
    LET from == (k - 1) * BatchSize + 1
        last == k * BatchSize
    IN  ToSet(SubSeq(RowsOf[f], from, IF last < Len(RowsOf[f]) THEN last ELSE Len(RowsOf[f])))

TileKeys == {Xyz(t) : t \in UNION {ToSet(RowsOf[f]) : f \in Files}}
NoTiles == [k \in TileKeys |-> NoFile]
Staged == {k \in TileKeys : staging.tiles[k] # NoFile}

NoStaging == [exists |-> FALSE, mark |-> NoFile, tiles |-> NoTiles]
IdleImporter == [pc |-> "idle", file |-> NoFile, done |-> {}, batch |-> 0, attempt |-> 0, run |-> 0]

TilesInit ==
    /\ staging = NoStaging
    /\ served = NoTiles
    /\ importer = [p \in Importers |-> IdleImporter]
    /\ tileRuns = <<>>
    /\ page = [b \in Browsers |-> 0]
    /\ kept = {}
    /\ drops = 0

At(p, pc) == importer[p].pc = pc
Become(p, r) == importer' = [importer EXCEPT ![p] = r]
Goto(p, pc) == Become(p, [importer[p] EXCEPT !.pc = pc])

(****************************************************************************)
(* The import.                                                              *)
(****************************************************************************)

(* The operator starts the job; see the assumption above.                   *)
StartImport(p, f) ==
    /\ At(p, "idle")
    /\ Len(tileRuns) < MaxTileRuns
    /\ \A q \in Importers \ {p} : At(q, "idle") \/ importer[q].file = f
    /\ Become(p, [IdleImporter EXCEPT !.pc = "prepare", !.file = f])
    /\ UNCHANGED <<staging, served, tileRuns, page, kept, drops>>

(* Mutant: a staging table of another file is taken over as it is.          *)
EmptiedMutant(f) == [exists |-> TRUE, mark |-> MarkOf[f], tiles |-> staging.tiles]

Emptied(f) == [exists |-> TRUE, mark |-> MarkOf[f], tiles |-> NoTiles]

(* _prepare_staging: CREATE IF NOT EXISTS, then the comment is compared.  A *)
(* table this transaction creates has no comment, so it is truncated and    *)
(* marked before anyone sees it; an existing one with another mark is       *)
(* truncated in a later statement, which others may precede.                *)
PrepareStaging(p) ==
    LET f == importer[p].file IN
    /\ At(p, "prepare")
    /\ \/ /\ ~staging.exists
          /\ staging' = Emptied(f)
          /\ Become(p, [importer[p] EXCEPT !.pc = "write", !.batch = 1])
       \/ /\ staging.exists /\ staging.mark # MarkOf[f]
          /\ Goto(p, "truncate")
          /\ UNCHANGED staging
       \/ /\ staging.exists /\ staging.mark = MarkOf[f]
          /\ Become(p, [importer[p] EXCEPT !.pc = "write", !.batch = 1, !.done = Staged])
          /\ UNCHANGED staging
    /\ UNCHANGED <<served, tileRuns, page, kept, drops>>

(* TRUNCATE, COMMENT, COMMIT; the table may have been dropped since.        *)
TruncateStaging(p) ==
    /\ At(p, "truncate")
    /\ IF staging.exists
       THEN /\ staging' = Emptied(importer[p].file)
            /\ Become(p, [importer[p] EXCEPT !.pc = "write", !.batch = 1])
       ELSE /\ Become(p, IdleImporter)
            /\ UNCHANGED staging
    /\ UNCHANGED <<served, tileRuns, page, kept, drops>>

(* The tiles of the batch that were not found in the staging table.         *)
Unwritten(p) == {Xyz(t) : t \in TileBatch(importer[p].file, importer[p].batch)} \ importer[p].done

(* INSERT ... ON CONFLICT DO NOTHING of the pending tiles.                  *)
Inserted(p) ==
    [staging EXCEPT !.tiles =
        [k \in TileKeys |-> IF k \in Unwritten(p) /\ @[k] = NoFile THEN importer[p].file ELSE @[k]]]

NextBatch(p) == Become(p, [importer[p] EXCEPT !.batch = @ + 1, !.attempt = 0])

(* _write commits the batch, or there was nothing pending in it.            *)
WriteBatch(p) ==
    /\ At(p, "write")
    /\ TileBatch(importer[p].file, importer[p].batch) # {}
    /\ Unwritten(p) = {} \/ staging.exists
    /\ staging' = IF Unwritten(p) = {} THEN staging ELSE Inserted(p)
    /\ NextBatch(p)
    /\ UNCHANGED <<served, tileRuns, page, kept, drops>>

(* An attempt of _write fails: the table is gone, or the connection drops   *)
(* before the commit, or after it and the answer is lost.  The batch is     *)
(* tried again, and after the last attempt the job raises before it has     *)
(* opened a run.                                                            *)
WriteFails(p) ==
    /\ At(p, "write")
    /\ Unwritten(p) # {}
    /\ \/ ~staging.exists /\ UNCHANGED <<staging, drops>>
       \/ /\ staging.exists /\ drops < MaxDrops
          /\ drops' = drops + 1
          /\ staging' \in {staging, Inserted(p)}
    /\ IF importer[p].attempt + 1 = Attempts
       THEN Become(p, IdleImporter)
       ELSE Become(p, [importer[p] EXCEPT !.attempt = @ + 1])
    /\ UNCHANGED <<served, tileRuns, page, kept>>

(* After the last batch, job_session commits a run in state running.        *)
OpenRun(p) ==
    /\ At(p, "write")
    /\ TileBatch(importer[p].file, importer[p].batch) = {}
    /\ Len(tileRuns) < MaxTileRuns
    /\ tileRuns' = Append(tileRuns, [status |-> "running", file |-> importer[p].file, swapped |-> FALSE])
    /\ Become(p, [importer[p] EXCEPT !.pc = "swap", !.run = Len(tileRuns) + 1])
    /\ UNCHANGED <<staging, served, page, kept, drops>>

SetRun(p, field, value) == [tileRuns EXCEPT ![importer[p].run][field] = value]

(* Mutant: the staged tiles are not counted.                                *)
CountMatchesMutant(p) == staging.exists

(* The number of tiles staged is the one read from the file.                *)
CountMatches(p) == staging.exists /\ Cardinality(Staged) = Len(RowsOf[importer[p].file])

(* One transaction: the count is checked, the staged rows replace the       *)
(* served ones and the staging table is dropped.  (swapped records it.)     *)
Swap(p) ==
    /\ At(p, "swap")
    /\ CountMatches(p)
    /\ served' = staging.tiles
    /\ staging' = NoStaging
    /\ tileRuns' = SetRun(p, "swapped", TRUE)
    /\ Goto(p, "finish")
    /\ UNCHANGED <<page, kept, drops>>

(* The count differs or the table is gone: job_session rolls back, closes   *)
(* the run as failed and raises.                                            *)
SwapFails(p) ==
    /\ At(p, "swap")
    /\ ~CountMatches(p)
    /\ tileRuns' = SetRun(p, "status", "failed")
    /\ Become(p, IdleImporter)
    /\ UNCHANGED <<staging, served, page, kept, drops>>

(* finish_run, in a transaction of its own after the swap.                  *)
FinishImport(p) ==
    /\ At(p, "finish")
    /\ tileRuns' = SetRun(p, "status", "succeeded")
    /\ Become(p, IdleImporter)
    /\ UNCHANGED <<staging, served, page, kept, drops>>

(* The process dies, or the connection does outside _write.                 *)
ImportDies(p) ==
    /\ ~At(p, "idle")
    /\ drops < MaxDrops
    /\ drops' = drops + 1
    /\ Become(p, IdleImporter)
    /\ UNCHANGED <<staging, served, tileRuns, page, kept>>

(****************************************************************************)
(* The readers.                                                             *)
(****************************************************************************)

(* Mutant: the last run is taken, whatever its status.                      *)
TilesVersionMutant == Len(tileRuns)

(* fetch_tiles_run: the last run that succeeded, 0 when there is none.      *)
TilesVersion == Max({0} \cup {r \in 1..Len(tileRuns) : tileRuns[r].status = "succeeded"})

(* GET /transport/catalog: the URL of the tiles, when they were imported.   *)
GetCatalog(b) ==
    /\ TilesVersion # page[b]
    /\ page' = [page EXCEPT ![b] = TilesVersion]
    /\ UNCHANGED <<staging, served, importer, tileRuns, kept, drops>>

(* GET /transport/tiles/{version}/...: the version only names the URL; the  *)
(* answer (a missing tile too) is kept under it and never asked again.      *)
GetTile(b, k) ==
    /\ page[b] # 0
    /\ ~\E e \in kept : e.by = b /\ e.version = page[b] /\ e.key = k
    /\ kept' = kept \cup {[by |-> b, version |-> page[b], key |-> k, tile |-> served[k]]}
    /\ UNCHANGED <<staging, served, importer, tileRuns, page, drops>>

ImporterStep(p) ==
    \/ PrepareStaging(p)
    \/ TruncateStaging(p)
    \/ WriteBatch(p)
    \/ WriteFails(p)
    \/ OpenRun(p)
    \/ Swap(p)
    \/ SwapFails(p)
    \/ FinishImport(p)

TilesNext ==
    \/ \E p \in Importers :
          \/ \E f \in Files : StartImport(p, f)
          \/ ImporterStep(p)
          \/ ImportDies(p)
    \/ \E b \in Browsers :
          \/ GetCatalog(b)
          \/ \E k \in TileKeys : GetTile(b, k)

TilesSpec == TilesInit /\ [][TilesNext]_tileVars

(****************************************************************************)
(* Properties.                                                              *)
(****************************************************************************)

(* Every variable of the import and of its readers has the shape of the     *)
(* table, row or local state it stands for.                                 *)
TilesTypeOK ==
    /\ staging \in [exists : BOOLEAN, mark : {NoFile} \cup {MarkOf[f] : f \in Files},
                    tiles : [TileKeys -> Files \cup {NoFile}]]
    /\ served \in [TileKeys -> Files \cup {NoFile}]
    /\ \A p \in Importers :
          /\ importer[p].pc \in {"idle", "prepare", "truncate", "write", "swap", "finish"}
          /\ importer[p].file \in Files \cup {NoFile}
          /\ importer[p].done \subseteq TileKeys
          /\ importer[p].attempt \in 0..(Attempts - 1)
          /\ importer[p].run \in 0..Len(tileRuns)
    /\ \A r \in 1..Len(tileRuns) :
          /\ tileRuns[r].status \in {"running", "succeeded", "failed"}
          /\ tileRuns[r].file \in Files
    /\ page \in [Browsers -> 0..Len(tileRuns)]
    /\ drops \in 0..MaxDrops

(* The staging table that a later import may resume holds only tiles of the *)
(* file its comment names, whatever died, was retried or was started again  *)
(* before (fingerprint and _prepare_staging).                               *)
StagingIsOneFile ==
    \A k \in Staged : MarkOf[staging.tiles[k]] = staging.mark

(* A browser may find newer tiles under an old version, but never older     *)
(* ones: what it keeps for a year under version v comes whole from import v *)
(* or from an import published after it (the swap commits before            *)
(* finish_run announces it).                                                *)
KeptIsNotOlder ==
    \A e \in kept : \E r \in e.version..Len(tileRuns) :
        /\ tileRuns[r].swapped
        /\ e.tile = IF e.key \in {Xyz(t) : t \in ToSet(RowsOf[tileRuns[r].file])}
                    THEN tileRuns[r].file
                    ELSE NoFile

(* The complete tables, by the definition of the two numberings: row and y  *)
(* of the same tile add up to the last row of the zoom.                     *)
TableOf(f) ==
    [k \in TileKeys |->
        IF \E t \in ToSet(RowsOf[f]) :
              t.zoom = k.zoom /\ t.x = k.x /\ t.row + k.y + 1 = 2^k.zoom
        THEN f ELSE NoFile]

Publication ==
    INSTANCE TilePublication WITH
        Tables <- {TableOf(f) : f \in Files},
        NoTable <- NoTiles,
        Imports <- 1..MaxTileRuns,
        table <- served,
        waiting <- {r \in 1..Len(tileRuns) : tileRuns[r].swapped /\ tileRuns[r].status = "running"},
        version <- TilesVersion

(* The import implements TilePublication: through every retry, crash,       *)
(* resumption and overlap, readers of transport_tiles see one whole file,   *)
(* replaced in one step, and a version only of tiles already there.         *)
PublishesWholeFiles == Publication!PublicationSpec

(* What an import may resume is of one file, and every run, page and retry  *)
(* of the import keeps its shape.                                           *)
StagingIsSound == TilesTypeOK /\ StagingIsOneFile
=============================================================================
