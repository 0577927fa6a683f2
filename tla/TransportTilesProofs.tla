------------------------ MODULE TransportTilesProofs ------------------------
(****************************************************************************)
(* Proofs, for any files, processes, batches and browsers, that a staging   *)
(* table is of one file, that a kept tile is not older than its URL, and    *)
(* that the import implements TilePublication.                              *)
(****************************************************************************)
EXTENDS TransportTiles, FiniteSetTheorems, SequenceTheorems, TLAPS

(* The tiles of a file, and the table a whole import of it leaves.          *)
KeysOf(f) == {Xyz(t) : t \in ToSet(RowsOf[f])}
WholeFile(f) == [k \in TileKeys |-> IF k \in KeysOf(f) THEN f ELSE NoFile]

ImporterType ==
    [pc : {"idle", "prepare", "truncate", "write", "swap", "finish"}, file : Files \cup {NoFile},
     done : SUBSET TileKeys, batch : Nat, attempt : 0..(Attempts - 1), run : Nat]
TileRunType == [status : {"running", "succeeded", "failed"}, file : Files, swapped : BOOLEAN]
StagingType ==
    [exists : BOOLEAN, mark : {NoFile} \cup {MarkOf[f] : f \in Files},
     tiles : [TileKeys -> Files \cup {NoFile}]]
KeptType == [by : Browsers, version : Nat \ {0}, key : TileKeys, tile : Files \cup {NoFile}]

Shapes ==
    /\ staging \in StagingType
    /\ served \in [TileKeys -> Files \cup {NoFile}]
    /\ importer \in [Importers -> ImporterType]
    /\ tileRuns \in Seq(TileRunType) /\ Len(tileRuns) <= MaxTileRuns
    /\ page \in [Browsers -> Nat]
    /\ kept \subseteq KeptType
    /\ drops \in 0..MaxDrops

(* Imports in progress are of one file.                                     *)
ImportersAgree ==
    \A p \in Importers : importer[p].pc # "idle" =>
        /\ importer[p].file \in Files
        /\ importer[p].pc = "write" => importer[p].batch >= 1
        /\ \A q \in Importers : importer[q].pc # "idle" => importer[q].file = importer[p].file

(* A process that swaps or has swapped has a run of its own, still open,    *)
(* and every run opened since is of the same file.                          *)
RunsOwned ==
    \A p \in Importers :
        /\ importer[p].run <= Len(tileRuns)
        /\ importer[p].pc \in {"swap", "finish"} =>
              /\ importer[p].run >= 1
              /\ tileRuns[importer[p].run].status = "running"
              /\ tileRuns[importer[p].run].swapped = (importer[p].pc = "finish")
              /\ \A r \in importer[p].run..Len(tileRuns) : tileRuns[r].file = importer[p].file
              /\ \A q \in Importers \ {p} :
                    importer[q].pc \in {"swap", "finish"} => importer[q].run # importer[p].run

(* A staged tile belongs to the file that the comment names, and so does    *)
(* every import that writes or counts.                                      *)
StagingIsMarked ==
    /\ \A k \in TileKeys : staging.tiles[k] # NoFile =>
          /\ staging.exists
          /\ k \in KeysOf(staging.tiles[k])
          /\ staging.mark = MarkOf[staging.tiles[k]]
    /\ \A p \in Importers :
          importer[p].pc \in {"write", "swap"} /\ staging.exists =>
              staging.mark = MarkOf[importer[p].file]

(* Only what was swapped is announced, and announced versions have a last.  *)
Announced == {0} \cup {r \in 1..Len(tileRuns) : tileRuns[r].status = "succeeded"}
AnnouncedIsSwapped ==
    /\ \A r \in Announced \ {0} : tileRuns[r].swapped
    /\ \A b \in Browsers : page[b] # 0 => page[b] <= Len(tileRuns) /\ tileRuns[page[b]].swapped
    /\ \E m \in Announced : \A r \in Announced : r <= m

(* The served table is the file of a run not older than any that swapped.   *)
ServedIsLatest ==
    \A v \in 1..Len(tileRuns) : tileRuns[v].swapped =>
        \E r \in v..Len(tileRuns) : tileRuns[r].swapped /\ served = WholeFile(tileRuns[r].file)

TilesInv ==
    /\ Shapes
    /\ ImportersAgree
    /\ RunsOwned
    /\ StagingIsMarked
    /\ AnnouncedIsSwapped
    /\ ServedIsLatest
    /\ KeptIsNotOlder

-----------------------------------------------------------------------------
(* Operators on tiles.                                                      *)

(* The elements of a sequence.                                              *)
LEMMA SequenceElements ==
    ASSUME NEW S, NEW s \in Seq(S)
    PROVE  /\ Len(s) \in Nat /\ \A i \in 1..Len(s) : s[i] \in S
           /\ ToSet(s) = {s[i] : i \in 1..Len(s)}
BY DEF ToSet

(* The elements of a part of a sequence.                                    *)
LEMMA SubSequenceElements ==
    ASSUME NEW S, NEW s \in Seq(S), NEW from \in Nat, from >= 1, NEW last \in Nat, last <= Len(s)
    PROVE  ToSet(SubSeq(s, from, last)) \subseteq ToSet(s)
<1>1. /\ \A i \in from..last : s[i] \in S
      /\ from \in Int /\ last \in Int
  OBVIOUS
<1>2. /\ SubSeq(s, from, last) \in Seq(S)
      /\ Len(SubSeq(s, from, last)) = IF from <= last THEN last - from + 1 ELSE 0
      /\ \A i \in 1..last - from + 1 : SubSeq(s, from, last)[i] = s[from + i - 1]
  BY <1>1, SubSeqProperties
<1>3. ASSUME NEW i \in 1..Len(SubSeq(s, from, last))
      PROVE  SubSeq(s, from, last)[i] \in ToSet(s)
  <2>1. i \in 1..last - from + 1 /\ from + i - 1 \in 1..Len(s)
    BY <1>2
  <2>2. s[from + i - 1] \in ToSet(s)
    BY <2>1, SequenceElements
  <2> QED BY <1>2, <2>1, <2>2
<1>4. ToSet(SubSeq(s, from, last)) = {SubSeq(s, from, last)[i] : i \in 1..Len(SubSeq(s, from, last))}
  BY <1>2, SequenceElements
<1> QED BY <1>3, <1>4

(* The rows of a file.                                                      *)
LEMMA RowsOfFile ==
    ASSUME NEW f \in Files
    PROVE  /\ RowsOf[f] \in Seq([zoom : Nat, x : Nat, row : Nat]) /\ Len(RowsOf[f]) \in Nat
           /\ ToSet(RowsOf[f]) = {RowsOf[f][i] : i \in 1..Len(RowsOf[f])}
           /\ \A t \in ToSet(RowsOf[f]) : t \in [zoom : Nat, x : Nat, row : Nat]
<1> DEFINE R == [zoom : Nat, x : Nat, row : Nat]
<1>1. RowsOf[f] \in Seq(R)
  BY FilesAssumption
<1> HIDE DEF R
<1>2. /\ Len(RowsOf[f]) \in Nat /\ \A i \in 1..Len(RowsOf[f]) : RowsOf[f][i] \in R
      /\ ToSet(RowsOf[f]) = {RowsOf[f][i] : i \in 1..Len(RowsOf[f])}
  BY <1>1, SequenceElements
<1> QED BY <1>1, <1>2 DEF R

(* A batch is part of its file.                                             *)
LEMMA BatchOfFile ==
    ASSUME NEW f \in Files, NEW k \in Nat, k >= 1
    PROVE  TileBatch(f, k) \subseteq ToSet(RowsOf[f])
<1> DEFINE rows == RowsOf[f]
           from == (k - 1) * BatchSize + 1
           last == IF k * BatchSize < Len(rows) THEN k * BatchSize ELSE Len(rows)
<1>1. rows \in Seq([zoom : Nat, x : Nat, row : Nat]) /\ BatchSize \in Nat \ {0}
  BY FilesAssumption, ImportAssumption
<1>2. (k - 1) * BatchSize \in Nat /\ k * BatchSize \in Nat /\ Len(rows) \in Nat
  BY <1>1
<1>3. from \in Nat /\ from >= 1 /\ last \in Nat /\ last <= Len(rows)
  BY <1>2
<1>4. TileBatch(f, k) = ToSet(SubSeq(rows, from, last))
  BY DEF TileBatch
<1> HIDE DEF rows, from, last
<1>6. ToSet(SubSeq(rows, from, last)) \subseteq ToSet(rows)
  BY <1>1, <1>3, SubSequenceElements
<1> QED BY <1>4, <1>6 DEF rows

LEMMA KeysOfFile ==
    ASSUME NEW f \in Files
    PROVE  KeysOf(f) \subseteq TileKeys
BY DEF KeysOf, TileKeys

LEMMA WholeFileType ==
    ASSUME NEW f \in Files
    PROVE  WholeFile(f) \in [TileKeys -> Files \cup {NoFile}]
BY DEF WholeFile

(* A file has no more tiles than rows.                                      *)
LEMMA KeysCounted ==
    ASSUME NEW f \in Files
    PROVE  /\ IsFiniteSet(KeysOf(f)) /\ Cardinality(KeysOf(f)) \in Nat
           /\ Cardinality(KeysOf(f)) <= Len(RowsOf[f])
<1> DEFINE n == Len(RowsOf[f])
           key == [i \in 1..n |-> Xyz(RowsOf[f][i])]
<1>1. n \in Nat /\ ToSet(RowsOf[f]) = {RowsOf[f][i] : i \in 1..n}
  BY RowsOfFile
<1>2. key \in Surjection(1..n, KeysOf(f))
  <2> HIDE DEF n
  <2>1. KeysOf(f) = {Xyz(RowsOf[f][i]) : i \in 1..n}
    BY <1>1 DEF KeysOf
  <2> QED BY <2>1 DEF Surjection
<1>3. IsFiniteSet(1..n) /\ Cardinality(1..n) = n
  BY <1>1, FS_Interval
<1> HIDE DEF key, n
<1>4. IsFiniteSet(KeysOf(f)) /\ Cardinality(KeysOf(f)) <= Cardinality(1..n)
  BY <1>2, <1>3, FS_Surjection
<1> QED BY <1>3, <1>4, FS_CardinalityType DEF n

LEMMA PowerOfTwo ==
    ASSUME NEW n \in Nat
    PROVE  2^n \in Nat
<1>1. IsFiniteSet(1..n) /\ Cardinality(1..n) = n
  BY FS_Interval
<1>2. IsFiniteSet(SUBSET (1..n)) /\ Cardinality(SUBSET (1..n)) = 2^n
  BY <1>1, FS_SUBSET
<1> QED BY <1>2, FS_CardinalityType

(* The two numberings of a row agree, so the table that TilePublication     *)
(* names for a file is the one a whole import leaves.                       *)
LEMMA WholeFileIsTable ==
    ASSUME NEW f \in Files
    PROVE  TableOf(f) = WholeFile(f)
<1>1. ASSUME NEW k \in TileKeys
      PROVE  (\E t \in ToSet(RowsOf[f]) : t.zoom = k.zoom /\ t.x = k.x /\ t.row + k.y + 1 = 2^k.zoom)
                <=> k \in KeysOf(f)
  <2>1. \A g \in Files : \A t \in ToSet(RowsOf[g]) : t \in [zoom : Nat, x : Nat, row : Nat]
    BY RowsOfFile
  <2>2. PICK u \in [zoom : Nat, x : Nat, row : Nat] : k = Xyz(u)
    BY <2>1 DEF TileKeys
  <2>3. /\ k = [zoom |-> u.zoom, x |-> u.x, y |-> 2^u.zoom - 1 - u.row]
        /\ 2^u.zoom \in Nat /\ u.zoom \in Nat /\ u.row \in Nat
    BY <2>2, PowerOfTwo DEF Xyz
  <2>4. ASSUME NEW t \in ToSet(RowsOf[f])
        PROVE  (t.zoom = k.zoom /\ t.x = k.x /\ t.row + k.y + 1 = 2^k.zoom) <=> k = Xyz(t)
    <3>1. t.zoom \in Nat /\ t.row \in Nat /\ 2^t.zoom \in Nat
      BY <2>1, PowerOfTwo
    <3>2. Xyz(t) = [zoom |-> t.zoom, x |-> t.x, y |-> 2^t.zoom - 1 - t.row]
      BY DEF Xyz
    <3>3. k = Xyz(t) <=> t.zoom = k.zoom /\ t.x = k.x /\ k.y = 2^t.zoom - 1 - t.row
      BY <2>3, <3>2
    <3>4. t.zoom = k.zoom => (t.row + k.y + 1 = 2^k.zoom <=> k.y = 2^t.zoom - 1 - t.row)
      BY <2>3, <3>1
    <3> QED BY <3>3, <3>4
  <2> QED BY <2>4 DEF KeysOf
<1> QED BY <1>1 DEF TableOf, WholeFile

-----------------------------------------------------------------------------
(* The greatest of a set of numbers that has one.                           *)
LEMMA MaxIsGreatest ==
    ASSUME NEW S, S \subseteq Nat, \E m \in S : \A x \in S : x <= m
    PROVE  /\ Max(S) \in S /\ \A x \in S : x <= Max(S)
           /\ \A m \in S : (\A x \in S : x <= m) => Max(S) = m
<1>1. \E m \in S : \A x \in S : m >= x
  OBVIOUS
<1>2. Max(S) \in S /\ \A x \in S : Max(S) >= x
  BY <1>1 DEF Max
<1>3. Max(S) \in S /\ \A x \in S : x <= Max(S)
  BY <1>2
<1>4. ASSUME NEW m \in S, \A x \in S : x <= m PROVE Max(S) = m
  <2>1. m \in Nat /\ Max(S) \in Nat /\ m <= Max(S) /\ Max(S) <= m
    BY <1>3, <1>4
  <2> QED BY <2>1
<1> QED BY <1>3, <1>4

LEMMA InitTilesInv == TilesInit => TilesInv
<1> SUFFICES ASSUME TilesInit PROVE TilesInv
  OBVIOUS
<1>1. /\ staging = NoStaging /\ served = NoTiles /\ importer = [p \in Importers |-> IdleImporter]
      /\ tileRuns = <<>> /\ page = [b \in Browsers |-> 0] /\ kept = {} /\ drops = 0
  BY DEF TilesInit
<1>2. IdleImporter \in ImporterType /\ NoStaging \in StagingType /\ NoTiles \in [TileKeys -> Files \cup {NoFile}]
  BY ImportAssumption DEF IdleImporter, ImporterType, NoStaging, StagingType, NoTiles
<1>3. Shapes
  BY <1>1, <1>2, ImportAssumption DEF Shapes
<1>4. ImportersAgree /\ RunsOwned
  BY <1>1 DEF ImportersAgree, RunsOwned, IdleImporter
<1>5. StagingIsMarked
  BY <1>1 DEF StagingIsMarked, NoStaging, NoTiles, IdleImporter
<1>6. AnnouncedIsSwapped
  BY <1>1 DEF AnnouncedIsSwapped, Announced
<1>7. ServedIsLatest /\ KeptIsNotOlder
  BY <1>1 DEF ServedIsLatest, KeptIsNotOlder
<1> QED BY <1>3, <1>4, <1>5, <1>6, <1>7 DEF TilesInv

LEMMA ImporterRanges ==
    ASSUME Shapes, NEW p \in Importers
    PROVE  /\ importer[p] \in ImporterType /\ importer \in [Importers -> ImporterType]
           /\ importer[p].done \subseteq TileKeys /\ importer[p].batch \in Nat
           /\ importer[p].attempt \in 0..(Attempts - 1) /\ importer[p].run \in Nat
           /\ IdleImporter \in ImporterType
BY ImportAssumption DEF Shapes, ImporterType, IdleImporter

(* A process that works on the staging table, or gives up, leaves runs and  *)
(* readers alone.                                                           *)
LEMMA StagingStep ==
    ASSUME TilesInv, NEW p \in Importers, NEW next \in ImporterType,
           importer' = [importer EXCEPT ![p] = next],
           next.pc \notin {"swap", "finish"}, next.run <= Len(tileRuns),
           next.pc # "idle" =>
              /\ next.file \in Files
              /\ \A q \in Importers \ {p} : importer[q].pc # "idle" => importer[q].file = next.file,
           next.pc = "write" => next.batch >= 1,
           staging' \in StagingType, StagingIsMarked',
           drops' \in 0..MaxDrops, UNCHANGED <<served, tileRuns, page, kept>>
    PROVE  TilesInv'
<1>1. importer \in [Importers -> ImporterType]
  BY DEF TilesInv, Shapes
<1>2. Shapes'
  BY <1>1 DEF TilesInv, Shapes
<1>3. ImportersAgree'
  BY <1>1 DEF TilesInv, ImportersAgree
<1>4. RunsOwned'
  BY <1>1 DEF TilesInv, RunsOwned
<1>5. AnnouncedIsSwapped' /\ ServedIsLatest' /\ KeptIsNotOlder'
  BY DEF TilesInv, AnnouncedIsSwapped, Announced, ServedIsLatest, KeptIsNotOlder
<1> QED BY <1>2, <1>3, <1>4, <1>5 DEF TilesInv

(* The same, for a process that goes on with its file...                    *)
LEMMA ImporterGoesOn ==
    ASSUME TilesInv, NEW p \in Importers, NEW next \in ImporterType, importer[p].pc # "idle",
           importer' = [importer EXCEPT ![p] = next],
           next.pc \in {"truncate", "write"}, next.run = importer[p].run, next.file = importer[p].file,
           next.pc = "write" => next.batch >= 1,
           staging' \in StagingType, StagingIsMarked',
           drops' \in 0..MaxDrops, UNCHANGED <<served, tileRuns, page, kept>>
    PROVE  TilesInv'
<1>1. /\ next.run <= Len(tileRuns) /\ next.file \in Files
      /\ \A q \in Importers \ {p} : importer[q].pc # "idle" => importer[q].file = next.file
  BY DEF TilesInv, ImportersAgree, RunsOwned
<1>2. next.pc \notin {"swap", "finish"}
  OBVIOUS
<1> QED BY <1>1, <1>2, StagingStep

(* ... and for one that ends without having swapped.                        *)
LEMMA ImporterEnds ==
    ASSUME TilesInv, NEW p \in Importers, importer' = [importer EXCEPT ![p] = IdleImporter],
           staging' \in StagingType, StagingIsMarked',
           drops' \in 0..MaxDrops, UNCHANGED <<served, tileRuns, page, kept>>
    PROVE  TilesInv'
<1>1. /\ IdleImporter \in ImporterType /\ IdleImporter.pc \notin {"swap", "finish"}
      /\ IdleImporter.run <= Len(tileRuns) /\ ~(IdleImporter.pc # "idle") /\ IdleImporter.pc # "write"
  <2>1. Len(tileRuns) \in Nat
    BY DEF TilesInv, Shapes
  <2>2. IdleImporter \in ImporterType /\ IdleImporter.pc = "idle" /\ IdleImporter.run = 0
    BY ImporterRanges DEF TilesInv, IdleImporter
  <2> QED BY <2>1, <2>2
<1> QED BY <1>1, StagingStep

(* The staging table stays as it is, and the process that moves does not    *)
(* start to write to it unless it is of its file.                           *)
LEMMA StagingKept ==
    ASSUME TilesInv, NEW p \in Importers, NEW next \in ImporterType,
           importer' = [importer EXCEPT ![p] = next], UNCHANGED staging,
           next.pc \in {"write", "swap"} /\ staging.exists => staging.mark = MarkOf[next.file]
    PROVE  StagingIsMarked'
BY DEF TilesInv, Shapes, StagingIsMarked

(* The staging table is emptied and marked for the one file being imported. *)
LEMMA StagingEmptied ==
    ASSUME TilesInv, NEW p \in Importers, NEW next \in ImporterType, importer[p].pc # "idle",
           importer' = [importer EXCEPT ![p] = next], next.file = importer[p].file,
           staging' = Emptied(importer[p].file)
    PROVE  staging' \in StagingType /\ StagingIsMarked'
<1>1. /\ importer \in [Importers -> ImporterType] /\ importer[p].file \in Files
      /\ \A q \in Importers : importer[q].pc # "idle" => importer[q].file = importer[p].file
  BY DEF TilesInv, Shapes, ImportersAgree
<1>2. /\ staging'.mark = MarkOf[importer[p].file]
      /\ \A k \in TileKeys : staging'.tiles[k] = NoFile
  BY DEF Emptied, NoTiles
<1>3. staging' \in StagingType
  BY <1>1 DEF Emptied, NoTiles, StagingType
<1>4. \A q \in Importers : importer'[q].pc \in {"write", "swap"} => importer'[q].file = importer[p].file
  BY <1>1
<1> QED BY <1>2, <1>3, <1>4 DEF StagingIsMarked

LEMMA StartImportStep ==
    ASSUME TilesInv, NEW p \in Importers, NEW f \in Files, StartImport(p, f)
    PROVE  TilesInv'
<1> DEFINE next == [IdleImporter EXCEPT !.pc = "prepare", !.file = f]
<1>1. /\ importer' = [importer EXCEPT ![p] = next]
      /\ UNCHANGED <<staging, served, tileRuns, page, kept, drops>>
      /\ \A q \in Importers \ {p} : importer[q].pc # "idle" => importer[q].file = f
  BY DEF StartImport, Become, At
<1>2. IdleImporter \in ImporterType /\ IdleImporter.run = 0
  BY ImporterRanges DEF TilesInv, IdleImporter
<1>3. next \in ImporterType /\ next.pc = "prepare" /\ next.file = f /\ next.run = 0
  BY <1>2 DEF ImporterType
<1>4. staging \in StagingType /\ drops \in 0..MaxDrops /\ Len(tileRuns) \in Nat
  BY DEF TilesInv, Shapes
<1> HIDE DEF next
<1>5. StagingIsMarked'
  BY <1>1, <1>3, StagingKept
<1>6. /\ next.pc \notin {"swap", "finish"} /\ next.run <= Len(tileRuns) /\ next.pc # "write"
      /\ staging' \in StagingType /\ drops' \in 0..MaxDrops
  BY <1>1, <1>3, <1>4
<1> QED BY <1>1, <1>3, <1>5, <1>6, StagingStep

LEMMA PrepareStagingStep ==
    ASSUME TilesInv, NEW p \in Importers, PrepareStaging(p)
    PROVE  TilesInv'
<1> DEFINE f == importer[p].file
           fresh == [importer[p] EXCEPT !.pc = "write", !.batch = 1]
           late == [importer[p] EXCEPT !.pc = "truncate"]
           resumed == [importer[p] EXCEPT !.pc = "write", !.batch = 1, !.done = Staged]
<1>1. importer[p].pc = "prepare" /\ UNCHANGED <<served, tileRuns, page, kept, drops>>
  BY DEF PrepareStaging, At
<1>2. /\ importer[p] \in ImporterType /\ importer[p].run <= Len(tileRuns) /\ f \in Files
      /\ \A q \in Importers : importer[q].pc # "idle" => importer[q].file = f
      /\ staging \in StagingType /\ drops \in 0..MaxDrops
  BY <1>1, ImporterRanges DEF TilesInv, Shapes, ImportersAgree, RunsOwned
<1>3. Staged \subseteq TileKeys
  BY DEF Staged
<1>4. \A next \in {fresh, late, resumed} :
        /\ next \in ImporterType /\ next.file = f /\ next.run = importer[p].run
        /\ next.pc \in {"write", "truncate"}
        /\ next.pc = "write" => next.batch >= 1
  <2>1. fresh \in ImporterType /\ fresh.file = f /\ fresh.run = importer[p].run
        /\ fresh.pc = "write" /\ fresh.batch = 1
    BY <1>2 DEF ImporterType
  <2>2. late \in ImporterType /\ late.file = f /\ late.run = importer[p].run /\ late.pc = "truncate"
    BY <1>2 DEF ImporterType
  <2>3. resumed \in ImporterType /\ resumed.file = f /\ resumed.run = importer[p].run
        /\ resumed.pc = "write" /\ resumed.batch = 1
    BY <1>2, <1>3 DEF ImporterType
  <2> HIDE DEF fresh, late, resumed
  <2> QED BY <2>1, <2>2, <2>3
<1>5. late.pc = "truncate"
  BY <1>2 DEF ImporterType
<1> DEFINE Case1 == staging' = Emptied(f) /\ importer' = [importer EXCEPT ![p] = fresh]
           Case2 == staging' = staging /\ importer' = [importer EXCEPT ![p] = late]
           Case3 == /\ staging' = staging /\ importer' = [importer EXCEPT ![p] = resumed]
                    /\ staging.mark = MarkOf[f]
<1>6. Case1 \/ Case2 \/ Case3
  BY DEF PrepareStaging, Become, Goto
<1> HIDE DEF fresh, late, resumed
<1>7. CASE Case1
  <2>1. staging' \in StagingType /\ StagingIsMarked'
    BY <1>1, <1>4, <1>7, StagingEmptied
  <2> QED BY <1>1, <1>2, <1>4, <1>7, <2>1, ImporterGoesOn
<1>8. CASE Case2
  <2>1. StagingIsMarked'
    BY <1>4, <1>5, <1>8, StagingKept
  <2> QED BY <1>1, <1>2, <1>4, <1>8, <2>1, ImporterGoesOn
<1>9. CASE Case3
  <2>1. StagingIsMarked'
    BY <1>4, <1>9, StagingKept
  <2> QED BY <1>1, <1>2, <1>4, <1>9, <2>1, ImporterGoesOn
<1> QED BY <1>6, <1>7, <1>8, <1>9

LEMMA TruncateStagingStep ==
    ASSUME TilesInv, NEW p \in Importers, TruncateStaging(p)
    PROVE  TilesInv'
<1> DEFINE f == importer[p].file
           fresh == [importer[p] EXCEPT !.pc = "write", !.batch = 1]
<1>1. importer[p].pc = "truncate" /\ UNCHANGED <<served, tileRuns, page, kept, drops>>
  BY DEF TruncateStaging, At
<1>2. /\ importer[p] \in ImporterType /\ importer[p].run <= Len(tileRuns) /\ f \in Files
      /\ \A q \in Importers : importer[q].pc # "idle" => importer[q].file = f
      /\ staging \in StagingType /\ drops \in 0..MaxDrops /\ Len(tileRuns) \in Nat
  BY <1>1, ImporterRanges DEF TilesInv, Shapes, ImportersAgree, RunsOwned
<1>3. /\ fresh \in ImporterType /\ fresh.file = f /\ fresh.run = importer[p].run
      /\ fresh.pc = "write" /\ fresh.batch >= 1
  <2>1. /\ fresh \in ImporterType /\ fresh.file = f /\ fresh.run = importer[p].run
        /\ fresh.pc = "write" /\ fresh.batch = 1
    BY <1>2 DEF ImporterType
  <2> QED BY <2>1
<1>4. IdleImporter \in ImporterType /\ IdleImporter.pc = "idle" /\ IdleImporter.run = 0
  BY ImporterRanges DEF TilesInv, IdleImporter
<1>5. \/ staging' = Emptied(f) /\ importer' = [importer EXCEPT ![p] = fresh]
      \/ staging' = staging /\ importer' = [importer EXCEPT ![p] = IdleImporter]
  BY DEF TruncateStaging, Become
<1> HIDE DEF fresh
<1>6. CASE staging' = Emptied(f) /\ importer' = [importer EXCEPT ![p] = fresh]
  <2>1. staging' \in StagingType /\ StagingIsMarked'
    BY <1>1, <1>3, <1>6, StagingEmptied
  <2> QED BY <1>1, <1>2, <1>3, <1>6, <2>1, ImporterGoesOn
<1>7. CASE staging' = staging /\ importer' = [importer EXCEPT ![p] = IdleImporter]
  <2>1. StagingIsMarked'
    BY <1>4, <1>7, StagingKept
  <2> QED BY <1>1, <1>2, <1>7, <2>1, ImporterEnds
<1> QED BY <1>5, <1>6, <1>7

(* What a process inserts is of its file, which the comment names.          *)
LEMMA StagingInserted ==
    ASSUME TilesInv, NEW p \in Importers, importer[p].pc = "write", staging.exists,
           NEW next \in ImporterType, importer' = [importer EXCEPT ![p] = next],
           next.pc \in {"write", "swap"} => next.file = importer[p].file,
           staging' = Inserted(p)
    PROVE  staging' \in StagingType /\ StagingIsMarked'
<1> DEFINE f == importer[p].file
<1>1. /\ importer \in [Importers -> ImporterType] /\ staging \in StagingType /\ f \in Files
      /\ importer[p].batch \in Nat /\ importer[p].batch >= 1 /\ staging.mark = MarkOf[f]
  BY ImporterRanges DEF TilesInv, Shapes, ImportersAgree, StagingIsMarked
<1>2. Unwritten(p) \subseteq KeysOf(f)
  BY <1>1, BatchOfFile DEF Unwritten, KeysOf
<1> DEFINE tiles == [k \in TileKeys |-> IF k \in Unwritten(p) /\ staging.tiles[k] = NoFile
                                         THEN f ELSE staging.tiles[k]]
<1>3. staging.tiles \in [TileKeys -> Files \cup {NoFile}]
  BY <1>1 DEF StagingType
<1>4. tiles \in [TileKeys -> Files \cup {NoFile}]
  BY <1>1, <1>3
<1>5. staging' = [staging EXCEPT !.tiles = tiles]
  BY DEF Inserted
<1>6. ASSUME NEW k \in TileKeys, tiles[k] # NoFile
      PROVE  k \in KeysOf(tiles[k]) /\ staging.mark = MarkOf[tiles[k]]
  <2>1. CASE k \in Unwritten(p) /\ staging.tiles[k] = NoFile
    BY <1>1, <1>2, <2>1
  <2>2. CASE ~(k \in Unwritten(p) /\ staging.tiles[k] = NoFile)
    BY <1>6, <2>2 DEF TilesInv, StagingIsMarked
  <2> QED BY <2>1, <2>2
<1> HIDE DEF tiles, f
<1>7. /\ staging' \in StagingType /\ staging'.mark = staging.mark /\ staging'.exists = staging.exists
      /\ staging'.tiles = tiles
  BY <1>1, <1>4, <1>5 DEF StagingType
<1>8. \A k \in TileKeys : staging'.tiles[k] # NoFile =>
          staging'.exists /\ k \in KeysOf(staging'.tiles[k]) /\ staging'.mark = MarkOf[staging'.tiles[k]]
  BY <1>6, <1>7
<1>9. \A q \in Importers : importer'[q].pc \in {"write", "swap"} => MarkOf[importer'[q].file] = staging'.mark
  BY <1>1, <1>7 DEF TilesInv, StagingIsMarked, f
<1> QED BY <1>7, <1>8, <1>9 DEF StagingIsMarked

LEMMA WriteBatchStep ==
    ASSUME TilesInv, NEW p \in Importers, WriteBatch(p)
    PROVE  TilesInv'
<1> DEFINE next == [importer[p] EXCEPT !.batch = @ + 1, !.attempt = 0]
<1>1. /\ importer[p].pc = "write" /\ UNCHANGED <<served, tileRuns, page, kept, drops>>
      /\ importer' = [importer EXCEPT ![p] = next]
      /\ staging' = staging \/ (staging.exists /\ staging' = Inserted(p))
  BY DEF WriteBatch, At, NextBatch, Become
<1>2. /\ importer[p] \in ImporterType /\ importer[p].run <= Len(tileRuns) /\ importer[p].file \in Files
      /\ \A q \in Importers : importer[q].pc # "idle" => importer[q].file = importer[p].file
      /\ staging \in StagingType /\ drops \in 0..MaxDrops /\ importer[p].batch >= 1
      /\ staging.exists => staging.mark = MarkOf[importer[p].file]
  BY <1>1, ImporterRanges DEF TilesInv, Shapes, ImportersAgree, RunsOwned, StagingIsMarked
<1>3. /\ next \in ImporterType /\ next.file = importer[p].file /\ next.run = importer[p].run
      /\ next.pc = "write" /\ next.batch >= 1
  <2>1. importer[p].batch + 1 \in Nat /\ importer[p].batch + 1 >= 1 /\ 0 \in 0..(Attempts - 1)
    BY <1>2, ImporterRanges, ImportAssumption DEF TilesInv
  <2> QED BY <1>1, <1>2, <2>1 DEF ImporterType
<1> HIDE DEF next
<1>4. staging' \in StagingType /\ StagingIsMarked'
  BY <1>1, <1>2, <1>3, StagingKept, StagingInserted
<1> QED BY <1>1, <1>2, <1>3, <1>4, ImporterGoesOn

LEMMA WriteFailsStep ==
    ASSUME TilesInv, NEW p \in Importers, WriteFails(p)
    PROVE  TilesInv'
<1> DEFINE again == [importer[p] EXCEPT !.attempt = @ + 1]
<1>1. /\ importer[p].pc = "write" /\ UNCHANGED <<served, tileRuns, page, kept>>
      /\ \/ UNCHANGED <<staging, drops>>
         \/ /\ staging.exists /\ drops < MaxDrops /\ drops' = drops + 1
            /\ staging' = staging \/ staging' = Inserted(p)
      /\ \/ importer' = [importer EXCEPT ![p] = IdleImporter]
         \/ importer[p].attempt + 1 # Attempts /\ importer' = [importer EXCEPT ![p] = again]
  BY DEF WriteFails, At, Become
<1>2. /\ importer[p] \in ImporterType /\ importer[p].run <= Len(tileRuns) /\ importer[p].file \in Files
      /\ \A q \in Importers : importer[q].pc # "idle" => importer[q].file = importer[p].file
      /\ staging \in StagingType /\ drops \in 0..MaxDrops /\ importer[p].batch >= 1
      /\ staging.exists => staging.mark = MarkOf[importer[p].file]
      /\ Len(tileRuns) \in Nat
  BY <1>1, ImporterRanges DEF TilesInv, Shapes, ImportersAgree, RunsOwned, StagingIsMarked
<1>3. /\ again.file = importer[p].file /\ again.run = importer[p].run
      /\ again.pc = "write" /\ again.batch = importer[p].batch
      /\ importer[p].attempt + 1 # Attempts => again \in ImporterType
  <2>1. importer[p].attempt + 1 # Attempts => importer[p].attempt + 1 \in 0..(Attempts - 1)
    BY ImporterRanges, ImportAssumption DEF TilesInv
  <2> QED BY <1>1, <1>2, <2>1 DEF ImporterType
<1>4. IdleImporter \in ImporterType /\ IdleImporter.pc = "idle" /\ IdleImporter.run = 0
  BY ImporterRanges DEF TilesInv, IdleImporter
<1>5. drops' \in 0..MaxDrops
  BY <1>1, <1>2, ImportAssumption
<1> HIDE DEF again
<1>6. CASE importer' = [importer EXCEPT ![p] = IdleImporter]
  <2>1. staging' \in StagingType /\ StagingIsMarked'
    BY <1>1, <1>2, <1>4, <1>6, StagingKept, StagingInserted
  <2> QED BY <1>1, <1>5, <1>6, <2>1, ImporterEnds
<1>7. CASE importer[p].attempt + 1 # Attempts /\ importer' = [importer EXCEPT ![p] = again]
  <2>1. staging' \in StagingType /\ StagingIsMarked'
    BY <1>1, <1>2, <1>3, <1>7, StagingKept, StagingInserted
  <2> QED BY <1>1, <1>2, <1>3, <1>5, <1>7, <2>1, ImporterGoesOn
<1> QED BY <1>1, <1>6, <1>7

LEMMA ImportDiesStep ==
    ASSUME TilesInv, NEW p \in Importers, ImportDies(p)
    PROVE  TilesInv'
<1>1. /\ UNCHANGED <<staging, served, tileRuns, page, kept>> /\ drops < MaxDrops /\ drops' = drops + 1
      /\ importer' = [importer EXCEPT ![p] = IdleImporter]
  BY DEF ImportDies, Become
<1>2. IdleImporter \in ImporterType /\ IdleImporter.pc = "idle" /\ staging \in StagingType
  BY ImporterRanges DEF TilesInv, Shapes, IdleImporter
<1>3. StagingIsMarked'
  BY <1>1, <1>2, StagingKept
<1>4. drops' \in 0..MaxDrops
  BY <1>1, ImportAssumption DEF TilesInv, Shapes
<1> QED BY <1>1, <1>2, <1>3, <1>4, ImporterEnds

-----------------------------------------------------------------------------
(* Runs.                                                                    *)

LEMMA RunRanges ==
    ASSUME Shapes
    PROVE  /\ tileRuns \in Seq(TileRunType) /\ Len(tileRuns) \in Nat
           /\ Len(tileRuns) <= MaxTileRuns
           /\ \A r \in 1..Len(tileRuns) :
                tileRuns[r] \in TileRunType /\ tileRuns[r].file \in Files /\ tileRuns[r].swapped \in BOOLEAN
<1>1. tileRuns \in Seq(TileRunType) /\ Len(tileRuns) <= MaxTileRuns
  BY DEF Shapes
<1>2. Len(tileRuns) \in Nat /\ \A r \in 1..Len(tileRuns) : tileRuns[r] \in TileRunType
  BY <1>1
<1> QED BY <1>1, <1>2 DEF TileRunType

(* What readers have found stays explained while runs are only added, or    *)
(* swapped, and none is announced before.                                   *)
LEMMA RunsGrow ==
    ASSUME TilesInv, NEW runs \in Seq(TileRunType), Len(tileRuns) <= Len(runs),
           \A r \in 1..Len(tileRuns) :
               /\ tileRuns[r].swapped => runs[r].swapped
               /\ runs[r].file = tileRuns[r].file,
           tileRuns' = runs, UNCHANGED <<page, kept>>
    PROVE  /\ KeptIsNotOlder'
           /\ \A b \in Browsers : page'[b] # 0 => page'[b] <= Len(tileRuns') /\ tileRuns'[page'[b]].swapped
<1>1. Len(tileRuns) \in Nat /\ Len(runs) \in Nat
  BY RunRanges DEF TilesInv
<1>2. ASSUME NEW e \in kept
      PROVE  \E r \in e.version..Len(runs) :
                /\ runs[r].swapped
                /\ e.tile = IF e.key \in {Xyz(t) : t \in ToSet(RowsOf[runs[r].file])}
                            THEN runs[r].file ELSE NoFile
  <2>1. PICK r \in e.version..Len(tileRuns) :
                /\ tileRuns[r].swapped
                /\ e.tile = IF e.key \in {Xyz(t) : t \in ToSet(RowsOf[tileRuns[r].file])}
                            THEN tileRuns[r].file ELSE NoFile
    BY DEF TilesInv, KeptIsNotOlder
  <2>2. e.version \in Nat \ {0}
    BY DEF TilesInv, Shapes, KeptType
  <2>3. r \in 1..Len(tileRuns) /\ r \in e.version..Len(runs)
    BY <1>1, <2>2
  <2> QED BY <2>1, <2>3
<1>3. KeptIsNotOlder'
  BY <1>2 DEF KeptIsNotOlder
<1>4. ASSUME NEW b \in Browsers, page[b] # 0
      PROVE  page[b] <= Len(runs) /\ runs[page[b]].swapped
  <2>1. page[b] \in 1..Len(tileRuns) /\ tileRuns[page[b]].swapped
    BY <1>1, <1>4 DEF TilesInv, Shapes, AnnouncedIsSwapped
  <2> QED BY <1>1, <2>1
<1> QED BY <1>3, <1>4

(* A run changes, and nothing of the others.                                *)
LEMMA SetRunEffect ==
    ASSUME Shapes, NEW m \in 1..Len(tileRuns),
           NEW changed \in TileRunType, changed.file = tileRuns[m].file,
           tileRuns' = [tileRuns EXCEPT ![m] = changed]
    PROVE  /\ tileRuns' \in Seq(TileRunType) /\ Len(tileRuns') = Len(tileRuns) /\ tileRuns'[m] = changed
           /\ \A r \in 1..Len(tileRuns) : r # m => tileRuns'[r] = tileRuns[r]
           /\ \A r \in 1..Len(tileRuns) : tileRuns'[r].file = tileRuns[r].file
<1>1. tileRuns \in Seq(TileRunType)
  BY RunRanges
<1>2. /\ tileRuns' \in Seq(TileRunType) /\ Len(tileRuns') = Len(tileRuns) /\ tileRuns'[m] = changed
      /\ \A r \in 1..Len(tileRuns) : r # m => tileRuns'[r] = tileRuns[r]
  BY <1>1
<1> QED BY <1>2

LEMMA OpenRunStep ==
    ASSUME TilesInv, NEW p \in Importers, OpenRun(p)
    PROVE  TilesInv'
<1> DEFINE n == Len(tileRuns) + 1
           opened == [status |-> "running", file |-> importer[p].file, swapped |-> FALSE]
           next == [importer[p] EXCEPT !.pc = "swap", !.run = n]
<1>1. /\ importer[p].pc = "write" /\ Len(tileRuns) < MaxTileRuns
      /\ tileRuns' = Append(tileRuns, opened) /\ importer' = [importer EXCEPT ![p] = next]
      /\ UNCHANGED <<staging, served, page, kept, drops>>
  BY DEF OpenRun, At, Become
<1>2. /\ importer \in [Importers -> ImporterType] /\ importer[p] \in ImporterType
      /\ importer[p].file \in Files /\ tileRuns \in Seq(TileRunType) /\ Len(tileRuns) \in Nat
      /\ \A q \in Importers : importer[q].pc # "idle" => importer[q].file = importer[p].file
  BY <1>1, RunRanges, ImporterRanges DEF TilesInv, Shapes, ImportersAgree
<1>3. opened \in TileRunType /\ opened.status = "running" /\ opened.swapped = FALSE /\ opened.file = importer[p].file
  BY <1>2 DEF TileRunType
<1>4. next \in ImporterType /\ next.pc = "swap" /\ next.run = n /\ next.file = importer[p].file
  <2> HIDE DEF n
  <2>1. n \in Nat
    BY <1>2 DEF n
  <2> QED BY <1>2, <2>1 DEF ImporterType
<1> HIDE DEF opened, next
<1>5. /\ tileRuns' \in Seq(TileRunType) /\ Len(tileRuns') = n /\ tileRuns'[n] = opened
      /\ \A r \in 1..Len(tileRuns) : tileRuns'[r] = tileRuns[r]
  BY <1>1, <1>2, <1>3
<1>6. Shapes'
  BY <1>1, <1>2, <1>4, <1>5, ImportAssumption DEF TilesInv, Shapes
<1>7. ImportersAgree'
  BY <1>1, <1>2, <1>4 DEF TilesInv, ImportersAgree
<1>8. StagingIsMarked'
  <2>1. staging.exists => staging.mark = MarkOf[next.file]
    BY <1>1, <1>4 DEF TilesInv, StagingIsMarked
  <2> QED BY <1>1, <1>4, <2>1, StagingKept
<1>9. RunsOwned'
  <2> SUFFICES ASSUME NEW q \in Importers
               PROVE  /\ importer'[q].run <= Len(tileRuns')
                      /\ importer'[q].pc \in {"swap", "finish"} =>
                            /\ importer'[q].run >= 1
                            /\ tileRuns'[importer'[q].run].status = "running"
                            /\ tileRuns'[importer'[q].run].swapped = (importer'[q].pc = "finish")
                            /\ \A r \in importer'[q].run..Len(tileRuns') : tileRuns'[r].file = importer'[q].file
                            /\ \A o \in Importers \ {q} :
                                  importer'[o].pc \in {"swap", "finish"} => importer'[o].run # importer'[q].run
    BY DEF RunsOwned
  <2>1. \A o \in Importers \ {p} : importer'[o] = importer[o] /\ importer[o].run \in Nat /\ importer[o].run <= Len(tileRuns)
    BY <1>1, <1>2, ImporterRanges DEF TilesInv, RunsOwned
  <2>2. importer'[p] = next
    BY <1>1, <1>2
  <2>3. CASE q = p
    <3>1. n >= 1 /\ n <= Len(tileRuns') /\ \A r \in n..Len(tileRuns') : r = n
      BY <1>2, <1>5
    <3>2. \A o \in Importers \ {p} : importer'[o].run # n
      BY <1>2, <2>1
    <3> QED BY <1>3, <1>4, <1>5, <2>2, <2>3, <3>1, <3>2
  <2>4. CASE q # p
    <3>1. importer[q].run <= Len(tileRuns')
      BY <1>2, <1>5, <2>1, <2>4
    <3>2. ASSUME importer[q].pc \in {"swap", "finish"}
          PROVE  /\ importer[q].run \in 1..Len(tileRuns)
                 /\ tileRuns[importer[q].run].status = "running"
                 /\ tileRuns[importer[q].run].swapped = (importer[q].pc = "finish")
                 /\ \A r \in importer[q].run..Len(tileRuns) : tileRuns[r].file = importer[q].file
                 /\ \A o \in Importers \ {q} :
                        importer[o].pc \in {"swap", "finish"} => importer[o].run # importer[q].run
                 /\ importer[q].file = importer[p].file
      BY <1>2, <2>1, <2>4, <3>2 DEF TilesInv, RunsOwned
    <3>3. ASSUME importer[q].pc \in {"swap", "finish"}, NEW r \in importer[q].run..Len(tileRuns')
          PROVE  tileRuns'[r].file = importer[q].file
      <4>1. r \in importer[q].run..Len(tileRuns) \/ r = n
        BY <1>2, <1>5, <3>2, <3>3
      <4>2. r # n => r \in 1..Len(tileRuns)
        BY <1>2, <1>5, <3>2, <3>3
      <4> QED BY <1>3, <1>5, <3>2, <3>3, <4>1, <4>2
    <3>4. ASSUME importer[q].pc \in {"swap", "finish"}, NEW o \in Importers \ {q},
                 importer'[o].pc \in {"swap", "finish"}
          PROVE  importer'[o].run # importer[q].run
      BY <1>2, <1>4, <2>1, <2>2, <2>4, <3>2, <3>4
    <3> QED BY <1>5, <2>1, <2>4, <3>1, <3>2, <3>3, <3>4
  <2> QED BY <2>3, <2>4
<1>10. /\ KeptIsNotOlder'
       /\ \A b \in Browsers : page'[b] # 0 => page'[b] <= Len(tileRuns') /\ tileRuns'[page'[b]].swapped
  <2>1. /\ Len(tileRuns) <= Len(tileRuns')
        /\ \A r \in 1..Len(tileRuns) :
              /\ tileRuns[r].swapped => tileRuns'[r].swapped
              /\ tileRuns'[r].file = tileRuns[r].file
    BY <1>2, <1>5
  <2> QED BY <1>1, <1>5, <2>1, RunsGrow
<1>11. AnnouncedIsSwapped'
  <2>1. Announced' = Announced
    BY <1>2, <1>3, <1>5 DEF Announced
  <2>2. \A r \in Announced \ {0} : tileRuns'[r].swapped
    BY <1>5 DEF TilesInv, AnnouncedIsSwapped, Announced
  <2> QED BY <1>10, <2>1, <2>2 DEF TilesInv, AnnouncedIsSwapped
<1>12. ServedIsLatest'
  <2> SUFFICES ASSUME NEW v \in 1..Len(tileRuns'), tileRuns'[v].swapped
               PROVE  \E r \in v..Len(tileRuns') : tileRuns'[r].swapped /\ served' = WholeFile(tileRuns'[r].file)
    BY DEF ServedIsLatest
  <2>1. v \in 1..Len(tileRuns) /\ tileRuns[v].swapped
    BY <1>2, <1>3, <1>5
  <2>2. PICK r \in v..Len(tileRuns) : tileRuns[r].swapped /\ served = WholeFile(tileRuns[r].file)
    BY <2>1 DEF TilesInv, ServedIsLatest
  <2>3. r \in 1..Len(tileRuns) /\ r \in v..Len(tileRuns')
    BY <1>2, <1>5, <2>1
  <2> QED BY <1>1, <1>5, <2>2, <2>3
<1> QED BY <1>6, <1>7, <1>8, <1>9, <1>10, <1>11, <1>12 DEF TilesInv

(* A staging table with as many tiles as the file has rows is that file.    *)
LEMMA CountedIsWhole ==
    ASSUME TilesInv, NEW p \in Importers, importer[p].pc = "swap", CountMatches(p)
    PROVE  staging.tiles = WholeFile(importer[p].file) /\ importer[p].file \in Files
<1> DEFINE f == importer[p].file
<1>1. /\ f \in Files /\ staging.exists /\ Cardinality(Staged) = Len(RowsOf[f])
      /\ staging.mark = MarkOf[f] /\ staging.tiles \in [TileKeys -> Files \cup {NoFile}]
  BY DEF TilesInv, ImportersAgree, StagingIsMarked, CountMatches, Shapes, StagingType
<1> HIDE DEF f
<1>2. \A k \in TileKeys : staging.tiles[k] # NoFile => staging.tiles[k] = f /\ k \in KeysOf(f)
  <2> SUFFICES ASSUME NEW k \in TileKeys, staging.tiles[k] # NoFile
               PROVE  staging.tiles[k] = f /\ k \in KeysOf(f)
    OBVIOUS
  <2>1. /\ staging.tiles[k] \in Files /\ MarkOf[staging.tiles[k]] = MarkOf[f]
        /\ k \in KeysOf(staging.tiles[k])
    BY <1>1 DEF TilesInv, StagingIsMarked
  <2> QED BY <1>1, <2>1, MarkAssumption
<1>3. Staged \subseteq KeysOf(f)
  BY <1>2 DEF Staged
<1>4. Staged = KeysOf(f)
  <2>1. /\ IsFiniteSet(KeysOf(f)) /\ Cardinality(KeysOf(f)) \in Nat
        /\ Cardinality(KeysOf(f)) <= Cardinality(Staged)
    BY <1>1, KeysCounted
  <2>2. /\ IsFiniteSet(Staged) /\ Cardinality(Staged) <= Cardinality(KeysOf(f))
        /\ Cardinality(Staged) = Cardinality(KeysOf(f)) => Staged = KeysOf(f)
    BY <1>3, <2>1, FS_Subset
  <2>3. Cardinality(Staged) \in Nat
    BY <2>2, FS_CardinalityType
  <2> QED BY <2>1, <2>2, <2>3
<1>5. ASSUME NEW k \in TileKeys
      PROVE  staging.tiles[k] = IF k \in KeysOf(f) THEN f ELSE NoFile
  BY <1>2, <1>4 DEF Staged
<1> QED BY <1>1, <1>5 DEF WholeFile, f

(* A process that closes its run, or swaps, leaves the runs of the others.  *)
LEMMA OwnRunChanges ==
    ASSUME TilesInv, NEW p \in Importers, importer[p].pc \in {"swap", "finish"},
           NEW next \in ImporterType, importer' = [importer EXCEPT ![p] = next],
           \/ next.pc = "idle" /\ next.run = 0
           \/ /\ importer[p].pc = "swap" /\ next.pc = "finish"
              /\ next.run = importer[p].run /\ next.file = importer[p].file
              /\ tileRuns'[importer[p].run].status = "running" /\ tileRuns'[importer[p].run].swapped = TRUE,
           tileRuns' \in Seq(TileRunType), Len(tileRuns') = Len(tileRuns),
           \A r \in 1..Len(tileRuns) : r # importer[p].run => tileRuns'[r] = tileRuns[r],
           \A r \in 1..Len(tileRuns) : tileRuns'[r].file = tileRuns[r].file
    PROVE  ImportersAgree' /\ RunsOwned'
<1>1. /\ importer \in [Importers -> ImporterType] /\ Len(tileRuns) \in Nat
      /\ \A q \in Importers : importer[q].run \in Nat
  BY ImporterRanges, RunRanges DEF TilesInv, Shapes
<1>2. \A q \in Importers \ {p} : importer'[q] = importer[q]
  BY <1>1
<1>3. importer'[p] = next
  BY <1>1
<1>4. ImportersAgree'
  <2>1. next.pc # "idle" => next.pc = "finish" /\ next.file = importer[p].file
    OBVIOUS
  <2> QED BY <1>2, <1>3, <2>1 DEF TilesInv, ImportersAgree
<1>5. RunsOwned'
  <2> SUFFICES ASSUME NEW q \in Importers
               PROVE  /\ importer'[q].run <= Len(tileRuns')
                      /\ importer'[q].pc \in {"swap", "finish"} =>
                            /\ importer'[q].run >= 1
                            /\ tileRuns'[importer'[q].run].status = "running"
                            /\ tileRuns'[importer'[q].run].swapped = (importer'[q].pc = "finish")
                            /\ \A r \in importer'[q].run..Len(tileRuns') : tileRuns'[r].file = importer'[q].file
                            /\ \A o \in Importers \ {q} :
                                  importer'[o].pc \in {"swap", "finish"} => importer'[o].run # importer'[q].run
    BY DEF RunsOwned
  <2>1. \A o \in Importers :
           importer'[o].pc \in {"swap", "finish"} =>
              importer[o].pc \in {"swap", "finish"} /\ importer'[o].run = importer[o].run
              /\ importer'[o].file = importer[o].file
    BY <1>2, <1>3
  <2>2. importer'[q].run <= Len(tileRuns')
    BY <1>1, <1>2, <1>3 DEF TilesInv, RunsOwned
  <2>3. ASSUME importer'[q].pc \in {"swap", "finish"}
        PROVE  /\ importer[q].run \in 1..Len(tileRuns)
               /\ tileRuns[importer[q].run].status = "running"
               /\ tileRuns[importer[q].run].swapped = (importer[q].pc = "finish")
               /\ \A r \in importer[q].run..Len(tileRuns) : tileRuns[r].file = importer[q].file
               /\ \A o \in Importers \ {q} :
                     importer[o].pc \in {"swap", "finish"} => importer[o].run # importer[q].run
    BY <1>1, <2>1, <2>3 DEF TilesInv, RunsOwned
  <2>4. ASSUME importer'[q].pc \in {"swap", "finish"}
        PROVE  \A r \in importer[q].run..Len(tileRuns') : tileRuns'[r].file = importer'[q].file
    <3>1. \A r \in importer[q].run..Len(tileRuns') : r \in 1..Len(tileRuns)
      BY <1>1, <2>3, <2>4
    <3> QED BY <2>1, <2>3, <2>4, <3>1
  <2>5. ASSUME importer'[q].pc \in {"swap", "finish"}, q # p
        PROVE  /\ tileRuns'[importer[q].run] = tileRuns[importer[q].run]
               /\ importer'[q].pc = importer[q].pc
    BY <1>2, <2>3, <2>5
  <2>6. ASSUME importer'[p].pc \in {"swap", "finish"}
        PROVE  /\ tileRuns'[importer[p].run].status = "running" /\ importer'[p].pc = "finish"
               /\ tileRuns'[importer[p].run].swapped = TRUE
    BY <1>3, <2>6
  <2>7. ASSUME importer'[q].pc \in {"swap", "finish"}
        PROVE  /\ tileRuns'[importer[q].run].status = "running"
               /\ tileRuns'[importer[q].run].swapped = (importer'[q].pc = "finish")
    BY <2>3, <2>5, <2>6, <2>7
  <2>8. ASSUME importer'[q].pc \in {"swap", "finish"}, NEW o \in Importers \ {q},
               importer'[o].pc \in {"swap", "finish"}
        PROVE  importer'[o].run # importer'[q].run
    BY <2>1, <2>3, <2>8
  <2> QED BY <2>1, <2>2, <2>3, <2>4, <2>7, <2>8
<1> QED BY <1>4, <1>5

(* After a swap the served table is the file of the process's run and of    *)
(* every later one.                                                         *)
LEMMA SwapStep ==
    ASSUME TilesInv, NEW p \in Importers, Swap(p)
    PROVE  /\ TilesInv'
           /\ importer[p].file \in Files /\ served' = WholeFile(importer[p].file)
           /\ importer[p].run \in 1..Len(tileRuns) /\ tileRuns[importer[p].run].status = "running"
           /\ ~tileRuns[importer[p].run].swapped /\ tileRuns'[importer[p].run].swapped
           /\ Len(tileRuns') = Len(tileRuns)
           /\ \A r \in 1..Len(tileRuns) : tileRuns'[r].status = tileRuns[r].status
           /\ \A r \in 1..Len(tileRuns) : r # importer[p].run => tileRuns'[r].swapped = tileRuns[r].swapped
<1> DEFINE m == importer[p].run
           f == importer[p].file
           n == Len(tileRuns)
           next == [importer[p] EXCEPT !.pc = "finish"]
<1>1. /\ importer[p].pc = "swap" /\ CountMatches(p) /\ served' = staging.tiles /\ staging' = NoStaging
      /\ tileRuns' = SetRun(p, "swapped", TRUE) /\ importer' = [importer EXCEPT ![p] = next]
      /\ UNCHANGED <<page, kept, drops>>
  BY DEF Swap, At, Goto, Become
<1>2. /\ importer \in [Importers -> ImporterType] /\ importer[p] \in ImporterType /\ n \in Nat
      /\ m \in 1..n /\ tileRuns[m].status = "running" /\ tileRuns[m].swapped = FALSE
      /\ \A r \in m..n : tileRuns[r].file = f
  BY <1>1, ImporterRanges, RunRanges DEF TilesInv, Shapes, RunsOwned
<1>3. served' = WholeFile(f) /\ f \in Files
  BY <1>1, CountedIsWhole
<1>4. next \in ImporterType /\ next.pc = "finish" /\ next.run = m /\ next.file = f
  BY <1>2 DEF ImporterType
<1>5. /\ tileRuns' \in Seq(TileRunType) /\ Len(tileRuns') = n
      /\ \A r \in 1..n : r # m => tileRuns'[r] = tileRuns[r]
      /\ \A r \in 1..n : tileRuns'[r].file = tileRuns[r].file
      /\ tileRuns'[m].status = "running" /\ tileRuns'[m].swapped = TRUE
  <2> DEFINE changed == [tileRuns[m] EXCEPT !.swapped = TRUE]
  <2>1. Shapes /\ importer[p].run = m /\ tileRuns[m] \in TileRunType
    BY <1>2, RunRanges DEF TilesInv
  <2>2. /\ changed \in TileRunType /\ changed.file = tileRuns[m].file
        /\ changed.status = "running" /\ changed.swapped = TRUE
    BY <1>2, <2>1 DEF TileRunType
  <2>3. tileRuns' = [tileRuns EXCEPT ![m] = changed]
    BY <1>1 DEF SetRun
  <2>4. m \in 1..Len(tileRuns)
    BY <1>2
  <2> HIDE DEF m, changed
  <2>5. /\ tileRuns' \in Seq(TileRunType) /\ Len(tileRuns') = Len(tileRuns) /\ tileRuns'[m] = changed
        /\ \A r \in 1..Len(tileRuns) : r # m => tileRuns'[r] = tileRuns[r]
        /\ \A r \in 1..Len(tileRuns) : tileRuns'[r].file = tileRuns[r].file
    BY <2>1, <2>2, <2>3, <2>4, SetRunEffect
  <2> QED BY <2>2, <2>5
<1>6. \A r \in 1..n : tileRuns'[r].status = tileRuns[r].status
  BY <1>2, <1>5
<1> HIDE DEF next
<1>7. Shapes'
  <2>1. served' \in [TileKeys -> Files \cup {NoFile}]
    BY <1>3, WholeFileType
  <2>2. staging' \in StagingType
    BY <1>1 DEF NoStaging, NoTiles, StagingType
  <2>3. importer' \in [Importers -> ImporterType]
    BY <1>1, <1>2, <1>4
  <2> QED BY <1>1, <1>5, <2>1, <2>2, <2>3 DEF TilesInv, Shapes
<1>8. ImportersAgree' /\ RunsOwned'
  BY <1>1, <1>4, <1>5, OwnRunChanges
<1>9. StagingIsMarked'
  BY <1>1 DEF StagingIsMarked, NoStaging, NoTiles
<1>10. /\ KeptIsNotOlder'
       /\ \A b \in Browsers : page'[b] # 0 => page'[b] <= Len(tileRuns') /\ tileRuns'[page'[b]].swapped
  <2>1. /\ Len(tileRuns) <= Len(tileRuns')
        /\ \A r \in 1..Len(tileRuns) :
              /\ tileRuns[r].swapped => tileRuns'[r].swapped
              /\ tileRuns'[r].file = tileRuns[r].file
    BY <1>2, <1>5
  <2> QED BY <1>1, <1>5, <2>1, RunsGrow
<1>11. AnnouncedIsSwapped'
  <2>1. Announced' = Announced
    BY <1>5, <1>6 DEF Announced
  <2>2. \A r \in Announced \ {0} : tileRuns'[r].swapped
    BY <1>2, <1>5 DEF TilesInv, AnnouncedIsSwapped, Announced
  <2> QED BY <1>10, <2>1, <2>2 DEF TilesInv, AnnouncedIsSwapped
<1>12. ServedIsLatest'
  <2> SUFFICES ASSUME NEW v \in 1..n, tileRuns'[v].swapped
               PROVE  \E r \in v..n : tileRuns'[r].swapped /\ served' = WholeFile(tileRuns'[r].file)
    BY <1>5 DEF ServedIsLatest
  <2>1. CASE v <= m
    <3>1. m \in v..n /\ tileRuns'[m].swapped /\ tileRuns'[m].file = f
      BY <1>2, <1>5, <2>1
    <3> QED BY <1>3, <3>1
  <2>2. CASE v > m
    <3>1. v \in m..n /\ v \in v..n
      BY <1>2, <2>2
    <3>2. tileRuns'[v].file = f
      BY <1>2, <1>5, <3>1
    <3> QED BY <1>3, <3>1, <3>2
  <2> QED BY <1>2, <2>1, <2>2
<1> QED BY <1>2, <1>3, <1>5, <1>6, <1>7, <1>8, <1>9, <1>10, <1>11, <1>12 DEF TilesInv

LEMMA SwapFailsStep ==
    ASSUME TilesInv, NEW p \in Importers, SwapFails(p)
    PROVE  /\ TilesInv' /\ Announced' = Announced
           /\ importer[p].run \in 1..Len(tileRuns) /\ ~tileRuns[importer[p].run].swapped
           /\ Len(tileRuns') = Len(tileRuns)
           /\ \A r \in 1..Len(tileRuns) : tileRuns'[r].swapped = tileRuns[r].swapped
           /\ \A r \in 1..Len(tileRuns) : r # importer[p].run => tileRuns'[r].status = tileRuns[r].status
<1> DEFINE m == importer[p].run
           n == Len(tileRuns)
<1>1. /\ importer[p].pc = "swap" /\ importer' = [importer EXCEPT ![p] = IdleImporter]
      /\ tileRuns' = SetRun(p, "status", "failed") /\ UNCHANGED <<staging, served, page, kept, drops>>
  BY DEF SwapFails, At, Become
<1>2. /\ importer \in [Importers -> ImporterType] /\ n \in Nat /\ m \in 1..n
      /\ tileRuns[m].status = "running" /\ tileRuns[m].swapped = FALSE
  BY <1>1, ImporterRanges, RunRanges DEF TilesInv, Shapes, RunsOwned
<1>3. IdleImporter \in ImporterType /\ IdleImporter.pc = "idle" /\ IdleImporter.run = 0
  BY ImporterRanges DEF TilesInv, IdleImporter
<1>4. /\ tileRuns' \in Seq(TileRunType) /\ Len(tileRuns') = n
      /\ \A r \in 1..n : r # m => tileRuns'[r] = tileRuns[r]
      /\ \A r \in 1..n : tileRuns'[r].file = tileRuns[r].file
      /\ tileRuns'[m].status = "failed" /\ tileRuns'[m].swapped = FALSE
  <2> DEFINE changed == [tileRuns[m] EXCEPT !.status = "failed"]
  <2>1. Shapes /\ importer[p].run = m /\ tileRuns[m] \in TileRunType
    BY <1>2, RunRanges DEF TilesInv
  <2>2. /\ changed \in TileRunType /\ changed.file = tileRuns[m].file
        /\ changed.status = "failed" /\ changed.swapped = FALSE
    BY <1>2, <2>1 DEF TileRunType
  <2>3. tileRuns' = [tileRuns EXCEPT ![m] = changed]
    BY <1>1 DEF SetRun
  <2>4. m \in 1..Len(tileRuns)
    BY <1>2
  <2> HIDE DEF m, changed
  <2>5. /\ tileRuns' \in Seq(TileRunType) /\ Len(tileRuns') = Len(tileRuns) /\ tileRuns'[m] = changed
        /\ \A r \in 1..Len(tileRuns) : r # m => tileRuns'[r] = tileRuns[r]
        /\ \A r \in 1..Len(tileRuns) : tileRuns'[r].file = tileRuns[r].file
    BY <2>1, <2>2, <2>3, <2>4, SetRunEffect
  <2> QED BY <2>2, <2>5
<1>5. \A r \in 1..n : tileRuns'[r].swapped = tileRuns[r].swapped
  BY <1>2, <1>4
<1>6. Shapes'
  <2>1. importer' \in [Importers -> ImporterType]
    BY <1>1, <1>2, <1>3
  <2> QED BY <1>1, <1>4, <2>1 DEF TilesInv, Shapes
<1>7. ImportersAgree' /\ RunsOwned'
  BY <1>1, <1>3, <1>4, OwnRunChanges
<1>8. StagingIsMarked'
  BY <1>1, <1>3, StagingKept
<1>9. /\ KeptIsNotOlder'
      /\ \A b \in Browsers : page'[b] # 0 => page'[b] <= Len(tileRuns') /\ tileRuns'[page'[b]].swapped
  <2>1. /\ Len(tileRuns) <= Len(tileRuns')
        /\ \A r \in 1..Len(tileRuns) :
              /\ tileRuns[r].swapped => tileRuns'[r].swapped
              /\ tileRuns'[r].file = tileRuns[r].file
    BY <1>2, <1>4, <1>5
  <2> QED BY <1>1, <1>4, <2>1, RunsGrow
<1>10. Announced' = Announced
  BY <1>2, <1>4 DEF Announced
<1>11. AnnouncedIsSwapped'
  <2>1. \A r \in Announced \ {0} : tileRuns'[r].swapped
    BY <1>5 DEF TilesInv, AnnouncedIsSwapped, Announced
  <2> QED BY <1>9, <1>10, <2>1 DEF TilesInv, AnnouncedIsSwapped
<1>12. ServedIsLatest'
  <2> SUFFICES ASSUME NEW v \in 1..n, tileRuns[v].swapped
               PROVE  \E r \in v..n : tileRuns'[r].swapped /\ served' = WholeFile(tileRuns'[r].file)
    BY <1>4, <1>5 DEF ServedIsLatest
  <2>1. PICK r \in v..n : tileRuns[r].swapped /\ served = WholeFile(tileRuns[r].file)
    BY DEF TilesInv, ServedIsLatest
  <2>2. r \in 1..n
    BY <1>2
  <2> QED BY <1>1, <1>4, <1>5, <2>1, <2>2
<1> QED BY <1>2, <1>4, <1>5, <1>6, <1>7, <1>8, <1>9, <1>10, <1>11, <1>12 DEF TilesInv

LEMMA FinishImportStep ==
    ASSUME TilesInv, NEW p \in Importers, FinishImport(p)
    PROVE  /\ TilesInv' /\ Announced' = Announced \cup {importer[p].run}
           /\ importer[p].run \in 1..Len(tileRuns)
           /\ tileRuns[importer[p].run].swapped /\ tileRuns[importer[p].run].status = "running"
           /\ tileRuns'[importer[p].run].status = "succeeded"
           /\ Len(tileRuns') = Len(tileRuns)
           /\ \A r \in 1..Len(tileRuns) : tileRuns'[r].swapped = tileRuns[r].swapped
           /\ \A r \in 1..Len(tileRuns) : r # importer[p].run => tileRuns'[r].status = tileRuns[r].status
<1> DEFINE m == importer[p].run
           n == Len(tileRuns)
<1>1. /\ importer[p].pc = "finish" /\ importer' = [importer EXCEPT ![p] = IdleImporter]
      /\ tileRuns' = SetRun(p, "status", "succeeded") /\ UNCHANGED <<staging, served, page, kept, drops>>
  BY DEF FinishImport, At, Become
<1>2. /\ importer \in [Importers -> ImporterType] /\ n \in Nat /\ m \in 1..n
      /\ tileRuns[m].status = "running" /\ tileRuns[m].swapped = TRUE
  BY <1>1, ImporterRanges, RunRanges DEF TilesInv, Shapes, RunsOwned
<1>3. IdleImporter \in ImporterType /\ IdleImporter.pc = "idle" /\ IdleImporter.run = 0
  BY ImporterRanges DEF TilesInv, IdleImporter
<1>4. /\ tileRuns' \in Seq(TileRunType) /\ Len(tileRuns') = n
      /\ \A r \in 1..n : r # m => tileRuns'[r] = tileRuns[r]
      /\ \A r \in 1..n : tileRuns'[r].file = tileRuns[r].file
      /\ tileRuns'[m].status = "succeeded" /\ tileRuns'[m].swapped = TRUE
  <2> DEFINE changed == [tileRuns[m] EXCEPT !.status = "succeeded"]
  <2>1. Shapes /\ importer[p].run = m /\ tileRuns[m] \in TileRunType
    BY <1>2, RunRanges DEF TilesInv
  <2>2. /\ changed \in TileRunType /\ changed.file = tileRuns[m].file
        /\ changed.status = "succeeded" /\ changed.swapped = TRUE
    BY <1>2, <2>1 DEF TileRunType
  <2>3. tileRuns' = [tileRuns EXCEPT ![m] = changed]
    BY <1>1 DEF SetRun
  <2>4. m \in 1..Len(tileRuns)
    BY <1>2
  <2> HIDE DEF m, changed
  <2>5. /\ tileRuns' \in Seq(TileRunType) /\ Len(tileRuns') = Len(tileRuns) /\ tileRuns'[m] = changed
        /\ \A r \in 1..Len(tileRuns) : r # m => tileRuns'[r] = tileRuns[r]
        /\ \A r \in 1..Len(tileRuns) : tileRuns'[r].file = tileRuns[r].file
    BY <2>1, <2>2, <2>3, <2>4, SetRunEffect
  <2> QED BY <2>2, <2>5
<1>5. \A r \in 1..n : tileRuns'[r].swapped = tileRuns[r].swapped
  BY <1>2, <1>4
<1>6. Shapes'
  <2>1. importer' \in [Importers -> ImporterType]
    BY <1>1, <1>2, <1>3
  <2> QED BY <1>1, <1>4, <2>1 DEF TilesInv, Shapes
<1>7. ImportersAgree' /\ RunsOwned'
  BY <1>1, <1>3, <1>4, OwnRunChanges
<1>8. StagingIsMarked'
  BY <1>1, <1>3, StagingKept
<1>9. /\ KeptIsNotOlder'
      /\ \A b \in Browsers : page'[b] # 0 => page'[b] <= Len(tileRuns') /\ tileRuns'[page'[b]].swapped
  <2>1. /\ Len(tileRuns) <= Len(tileRuns')
        /\ \A r \in 1..Len(tileRuns) :
              /\ tileRuns[r].swapped => tileRuns'[r].swapped
              /\ tileRuns'[r].file = tileRuns[r].file
    BY <1>2, <1>4, <1>5
  <2> QED BY <1>1, <1>4, <2>1, RunsGrow
<1>10. Announced' = Announced \cup {m}
  BY <1>2, <1>4 DEF Announced
<1>11. AnnouncedIsSwapped'
  <2>1. \A r \in Announced' \ {0} : tileRuns'[r].swapped
    BY <1>2, <1>4, <1>5, <1>10 DEF TilesInv, AnnouncedIsSwapped, Announced
  <2>2. PICK last \in Announced : \A r \in Announced : r <= last
    BY DEF TilesInv, AnnouncedIsSwapped
  <2>3. last \in Nat /\ m \in Nat /\ \A r \in Announced : r \in Nat
    BY <1>2 DEF Announced
  <2>4. \E top \in Announced' : \A r \in Announced' : r <= top
    <3>1. CASE m <= last
      BY <1>10, <2>2, <2>3, <3>1
    <3>2. CASE last < m
      <4> HIDE DEF m
      <4>1. \A r \in Announced : r <= m
        BY <2>2, <2>3, <3>2
      <4> QED BY <1>10, <2>3, <4>1
    <3> QED BY <2>3, <3>1, <3>2
  <2> QED BY <1>9, <2>1, <2>4 DEF AnnouncedIsSwapped
<1>12. ServedIsLatest'
  <2> SUFFICES ASSUME NEW v \in 1..n, tileRuns[v].swapped
               PROVE  \E r \in v..n : tileRuns'[r].swapped /\ served' = WholeFile(tileRuns'[r].file)
    BY <1>4, <1>5 DEF ServedIsLatest
  <2>1. PICK r \in v..n : tileRuns[r].swapped /\ served = WholeFile(tileRuns[r].file)
    BY DEF TilesInv, ServedIsLatest
  <2>2. r \in 1..n
    BY <1>2
  <2> QED BY <1>1, <1>4, <1>5, <2>1, <2>2
<1> QED BY <1>2, <1>4, <1>5, <1>6, <1>7, <1>8, <1>9, <1>10, <1>11, <1>12 DEF TilesInv

-----------------------------------------------------------------------------
(* Readers.                                                                 *)

(* The version published is 0, or the greatest that was announced.          *)
LEMMA VersionIsAnnounced ==
    ASSUME TilesInv
    PROVE  /\ Announced \subseteq Nat /\ TilesVersion \in Announced
           /\ \A r \in Announced : r <= TilesVersion
           /\ TilesVersion = Max(Announced)
<1>1. Announced \subseteq Nat /\ TilesVersion = Max(Announced)
  BY DEF Announced, TilesVersion
<1>2. \E m \in Announced : \A r \in Announced : r <= m
  BY DEF TilesInv, AnnouncedIsSwapped
<1> HIDE DEF Announced
<1> QED BY <1>1, <1>2, MaxIsGreatest

LEMMA GetCatalogStep ==
    ASSUME TilesInv, NEW b \in Browsers, GetCatalog(b)
    PROVE  TilesInv'
<1>1. /\ page' = [page EXCEPT ![b] = TilesVersion] /\ page \in [Browsers -> Nat]
      /\ UNCHANGED <<staging, served, importer, tileRuns, kept, drops>>
  BY DEF GetCatalog, TilesInv, Shapes
<1>2. TilesVersion \in Announced /\ TilesVersion \in Nat
  BY VersionIsAnnounced
<1>3. TilesVersion # 0 => TilesVersion <= Len(tileRuns) /\ tileRuns[TilesVersion].swapped
  BY <1>2 DEF TilesInv, AnnouncedIsSwapped, Announced
<1>4. Shapes'
  BY <1>1, <1>2 DEF TilesInv, Shapes
<1>5. AnnouncedIsSwapped'
  <2>1. Announced' = Announced
    BY <1>1 DEF Announced
  <2>2. \A o \in Browsers : page'[o] = IF o = b THEN TilesVersion ELSE page[o]
    BY <1>1
  <2> QED BY <1>1, <1>3, <2>1, <2>2 DEF TilesInv, AnnouncedIsSwapped
<1>6. ImportersAgree' /\ RunsOwned' /\ StagingIsMarked' /\ ServedIsLatest' /\ KeptIsNotOlder'
  BY <1>1 DEF TilesInv, ImportersAgree, RunsOwned, StagingIsMarked, ServedIsLatest, KeptIsNotOlder
<1> QED BY <1>4, <1>5, <1>6 DEF TilesInv

LEMMA GetTileStep ==
    ASSUME TilesInv, NEW b \in Browsers, NEW k \in TileKeys, GetTile(b, k)
    PROVE  TilesInv'
<1> DEFINE new == [by |-> b, version |-> page[b], key |-> k, tile |-> served[k]]
<1>1. /\ page[b] # 0 /\ kept' = kept \cup {new}
      /\ UNCHANGED <<staging, served, importer, tileRuns, page, drops>>
  BY DEF GetTile
<1>2. page[b] \in 1..Len(tileRuns) /\ tileRuns[page[b]].swapped
  BY <1>1, RunRanges DEF TilesInv, Shapes, AnnouncedIsSwapped
<1>3. new \in KeptType
  <2>1. served[k] \in Files \cup {NoFile} /\ page[b] \in Nat \ {0}
    BY <1>2 DEF TilesInv, Shapes
  <2> QED BY <2>1 DEF KeptType
<1>4. PICK r \in page[b]..Len(tileRuns) : tileRuns[r].swapped /\ served = WholeFile(tileRuns[r].file)
  BY <1>2 DEF TilesInv, ServedIsLatest
<1>5. served[k] = IF k \in {Xyz(t) : t \in ToSet(RowsOf[tileRuns[r].file])} THEN tileRuns[r].file ELSE NoFile
  BY <1>4 DEF WholeFile, KeysOf
<1>6. KeptIsNotOlder'
  <2>1. new.version = page[b] /\ new.key = k /\ new.tile = served[k]
    OBVIOUS
  <2> HIDE DEF new
  <2> SUFFICES ASSUME NEW e \in kept \cup {new}
               PROVE  \E o \in e.version..Len(tileRuns) :
                         /\ tileRuns[o].swapped
                         /\ e.tile = IF e.key \in {Xyz(t) : t \in ToSet(RowsOf[tileRuns[o].file])}
                                     THEN tileRuns[o].file ELSE NoFile
    BY <1>1 DEF KeptIsNotOlder
  <2>2. CASE e \in kept
    BY <2>2 DEF TilesInv, KeptIsNotOlder
  <2>3. CASE e = new
    BY <1>4, <1>5, <2>1, <2>3
  <2> QED BY <2>2, <2>3
<1>7. Shapes'
  BY <1>1, <1>3 DEF TilesInv, Shapes
<1>8. ImportersAgree' /\ RunsOwned' /\ StagingIsMarked' /\ ServedIsLatest'
  BY <1>1 DEF TilesInv, ImportersAgree, RunsOwned, StagingIsMarked, ServedIsLatest
<1>9. AnnouncedIsSwapped'
  BY <1>1 DEF TilesInv, AnnouncedIsSwapped, Announced
<1> QED BY <1>6, <1>7, <1>8, <1>9 DEF TilesInv

LEMMA NextTilesInv == TilesInv /\ [TilesNext]_tileVars => TilesInv'
<1> SUFFICES ASSUME TilesInv, [TilesNext]_tileVars
             PROVE  TilesInv'
  OBVIOUS
<1>1. ASSUME NEW p \in Importers, NEW f \in Files, StartImport(p, f) PROVE TilesInv'
  BY <1>1, StartImportStep
<1>2. ASSUME NEW p \in Importers, ImporterStep(p) PROVE TilesInv'
  BY <1>2, PrepareStagingStep, TruncateStagingStep, WriteBatchStep, WriteFailsStep, OpenRunStep,
     SwapStep, SwapFailsStep, FinishImportStep DEF ImporterStep
<1>3. ASSUME NEW p \in Importers, ImportDies(p) PROVE TilesInv'
  BY <1>3, ImportDiesStep
<1>4. ASSUME NEW b \in Browsers, GetCatalog(b) PROVE TilesInv'
  BY <1>4, GetCatalogStep
<1>5. ASSUME NEW b \in Browsers, NEW k \in TileKeys, GetTile(b, k) PROVE TilesInv'
  BY <1>5, GetTileStep
<1>6. CASE UNCHANGED tileVars
  <2>1. Shapes' /\ StagingIsMarked'
    BY <1>6 DEF tileVars, TilesInv, Shapes, StagingIsMarked
  <2>2. ImportersAgree' /\ RunsOwned'
    BY <1>6 DEF tileVars, TilesInv, ImportersAgree, RunsOwned
  <2>3. AnnouncedIsSwapped' /\ ServedIsLatest' /\ KeptIsNotOlder'
    BY <1>6 DEF tileVars, TilesInv, AnnouncedIsSwapped, Announced, ServedIsLatest, KeptIsNotOlder
  <2> QED BY <2>1, <2>2, <2>3 DEF TilesInv
<1> QED BY <1>1, <1>2, <1>3, <1>4, <1>5, <1>6 DEF TilesNext

(* The inductive invariant holds of every history of imports and readers.   *)
THEOREM TilesInvariant == TilesSpec => []TilesInv
BY InitTilesInv, NextTilesInv, PTL DEF TilesSpec

(* What an import may resume after a death, a drop or an overlap is of the  *)
(* one file its comment names (_prepare_staging).                           *)
THEOREM StagingIsProved == TilesSpec => []StagingIsSound
<1>1. TilesInv => StagingIsSound
  <2> SUFFICES ASSUME TilesInv PROVE TilesTypeOK /\ StagingIsOneFile
    BY DEF StagingIsSound
  <2>1. StagingIsOneFile
    BY DEF TilesInv, StagingIsMarked, StagingIsOneFile, Staged
  <2>2. Len(tileRuns) \in Nat /\ page \in [Browsers -> 0..Len(tileRuns)]
    BY RunRanges DEF TilesInv, Shapes, AnnouncedIsSwapped
  <2>3. \A p \in Importers :
          /\ importer[p].pc \in {"idle", "prepare", "truncate", "write", "swap", "finish"}
          /\ importer[p].file \in Files \cup {NoFile}
          /\ importer[p].done \subseteq TileKeys
          /\ importer[p].attempt \in 0..(Attempts - 1)
          /\ importer[p].run \in 0..Len(tileRuns)
    BY <2>2 DEF TilesInv, Shapes, ImporterType, RunsOwned
  <2>4. \A r \in 1..Len(tileRuns) :
          /\ tileRuns[r].status \in {"running", "succeeded", "failed"}
          /\ tileRuns[r].file \in Files
    BY RunRanges DEF TilesInv, TileRunType
  <2> QED BY <2>1, <2>2, <2>3, <2>4 DEF TilesInv, Shapes, StagingType, TilesTypeOK
<1> QED BY <1>1, TilesInvariant, PTL

(* What a browser keeps under the URL of an import is of that import or of  *)
(* a later one (the swap commits before finish_run announces it).           *)
THEOREM KeptIsProved == TilesSpec => []KeptIsNotOlder
BY TilesInvariant, PTL DEF TilesInv

-----------------------------------------------------------------------------
(* The import implements TilePublication.                                   *)

Waiting == {r \in 1..Len(tileRuns) : tileRuns[r].swapped /\ tileRuns[r].status = "running"}

(* A step that neither swaps nor closes a run that had swapped shows        *)
(* nothing of itself to the readers.                                        *)
LEMMA Unpublished ==
    ASSUME Announced' = Announced, served' = served, Waiting' = Waiting
    PROVE  UNCHANGED <<served, Waiting, TilesVersion>>
<1>1. TilesVersion = Max(Announced) /\ TilesVersion' = Max(Announced')
  BY DEF Announced, TilesVersion
<1> QED BY <1>1

LEMMA RunsUntouched ==
    ASSUME UNCHANGED <<tileRuns, served>>
    PROVE  UNCHANGED <<served, Waiting, TilesVersion>>
<1>1. Announced' = Announced /\ Waiting' = Waiting
  BY DEF Announced, Waiting
<1> QED BY <1>1, Unpublished

LEMMA OpenRunUnpublished ==
    ASSUME TilesInv, NEW p \in Importers, OpenRun(p)
    PROVE  UNCHANGED <<served, Waiting, TilesVersion>>
<1> DEFINE opened == [status |-> "running", file |-> importer[p].file, swapped |-> FALSE]
           n == Len(tileRuns) + 1
<1>1. tileRuns' = Append(tileRuns, opened) /\ served' = served /\ importer[p].file \in Files
  BY DEF OpenRun, At, TilesInv, ImportersAgree
<1>2. opened \in TileRunType /\ opened.status = "running" /\ opened.swapped = FALSE
  BY <1>1 DEF TileRunType
<1>3. tileRuns \in Seq(TileRunType) /\ Len(tileRuns) \in Nat
  BY RunRanges DEF TilesInv
<1> HIDE DEF opened
<1>4. /\ Len(tileRuns') = n /\ tileRuns'[n] = opened
      /\ \A r \in 1..Len(tileRuns) : tileRuns'[r] = tileRuns[r]
  BY <1>1, <1>2, <1>3
<1>5. Announced' = Announced
  BY <1>2, <1>3, <1>4 DEF Announced
<1>6. Waiting' = Waiting
  BY <1>2, <1>3, <1>4 DEF Waiting
<1> QED BY <1>1, <1>5, <1>6, Unpublished

LEMMA SwapFailsUnpublished ==
    ASSUME TilesInv, NEW p \in Importers, SwapFails(p)
    PROVE  UNCHANGED <<served, Waiting, TilesVersion>>
<1>1. Waiting' = Waiting
  BY SwapFailsStep DEF Waiting
<1>2. Announced' = Announced /\ served' = served
  BY SwapFailsStep DEF SwapFails
<1> QED BY <1>1, <1>2, Unpublished

(* A swap shows a whole file.                                               *)
LEMMA SwapReplaces ==
    ASSUME TilesInv, NEW p \in Importers, Swap(p)
    PROVE  /\ \E run \in (1..MaxTileRuns) \ Waiting : Waiting' = Waiting \cup {run}
           /\ served' \in {TableOf(f) : f \in Files}
           /\ TilesVersion' = TilesVersion
<1> DEFINE m == importer[p].run
<1>1. /\ importer[p].file \in Files /\ served' = WholeFile(importer[p].file)
      /\ m \in 1..Len(tileRuns) /\ tileRuns[m].status = "running"
      /\ ~tileRuns[m].swapped /\ tileRuns'[m].swapped /\ Len(tileRuns') = Len(tileRuns)
      /\ \A r \in 1..Len(tileRuns) : tileRuns'[r].status = tileRuns[r].status
      /\ \A r \in 1..Len(tileRuns) : r # m => tileRuns'[r].swapped = tileRuns[r].swapped
  BY SwapStep
<1>2. m \in (1..MaxTileRuns) \ Waiting
  <2>1. Len(tileRuns) \in Nat /\ Len(tileRuns) <= MaxTileRuns /\ MaxTileRuns \in Nat
    BY ImportAssumption, RunRanges DEF TilesInv
  <2> QED BY <1>1, <2>1 DEF Waiting
<1>3. Waiting' = Waiting \cup {m}
  BY <1>1 DEF Waiting
<1>4. served' \in {TableOf(f) : f \in Files}
  BY <1>1, WholeFileIsTable
<1>5. Announced' = Announced
  BY <1>1 DEF Announced
<1>6. TilesVersion' = TilesVersion
  BY <1>5 DEF TilesVersion, Announced
<1> QED BY <1>2, <1>3, <1>4, <1>6

(* finish_run announces a run that waits, unless a later one is announced.  *)
LEMMA FinishAnnounces ==
    ASSUME TilesInv, NEW p \in Importers, FinishImport(p)
    PROVE  /\ \E run \in Waiting :
                 /\ Waiting' = Waiting \ {run}
                 /\ TilesVersion' = IF run > TilesVersion THEN run ELSE TilesVersion
           /\ served' = served
<1> DEFINE m == importer[p].run
           v == TilesVersion
           top == IF m > v THEN m ELSE v
<1>1. /\ Announced' = Announced \cup {m} /\ m \in 1..Len(tileRuns)
      /\ tileRuns[m].swapped /\ tileRuns[m].status = "running" /\ tileRuns'[m].status = "succeeded"
      /\ Len(tileRuns') = Len(tileRuns)
      /\ \A r \in 1..Len(tileRuns) : tileRuns'[r].swapped = tileRuns[r].swapped
      /\ \A r \in 1..Len(tileRuns) : r # m => tileRuns'[r].status = tileRuns[r].status
  BY FinishImportStep
<1>2. m \in Waiting /\ Waiting' = Waiting \ {m}
  BY <1>1 DEF Waiting
<1>3. Announced \subseteq Nat /\ v \in Announced /\ \A r \in Announced : r <= v
  BY VersionIsAnnounced
<1>4. m \in Nat /\ v \in Nat
  BY <1>1, <1>3
<1> HIDE DEF m, v
<1>5. /\ Announced' \subseteq Nat /\ top \in Announced' /\ \A r \in Announced' : r <= top
  <2>1. Announced' \subseteq Nat /\ top \in Announced'
    BY <1>1, <1>3, <1>4
  <2>2. ASSUME NEW r \in Announced' PROVE r <= top
    <3>1. r = m \/ (r \in Nat /\ r <= v)
      BY <1>1, <1>3
    <3> QED BY <1>4, <3>1
  <2> QED BY <2>1, <2>2
<1>6. TilesVersion' = Max(Announced')
  BY DEF TilesVersion, Announced
<1> HIDE DEF top
<1>7. TilesVersion' = top
  BY <1>5, <1>6, MaxIsGreatest
<1>8. served' = served
  BY DEF FinishImport
<1> QED BY <1>2, <1>7, <1>8 DEF top, m, v

(* Through every retry, crash, resumption and overlap, readers of           *)
(* transport_tiles see one whole file, replaced in one step (Swap), and a   *)
(* version only of tiles already there (finish_run after the swap).         *)
THEOREM PublicationProved == TilesSpec => PublishesWholeFiles
<1> USE DEF Publication!publicationVars, Waiting
<1>1. TilesInit => Publication!PublicationInit
  <2> SUFFICES ASSUME TilesInit PROVE Publication!PublicationInit
    OBVIOUS
  <2>1. served = NoTiles /\ tileRuns = <<>>
    BY DEF TilesInit
  <2>2. Waiting = {} /\ Announced = {0}
    BY <2>1 DEF Announced
  <2>3. TilesVersion = 0
    BY <2>2, InitTilesInv, VersionIsAnnounced
  <2> QED BY <2>1, <2>2, <2>3 DEF Publication!PublicationInit
<1>2. TilesInv /\ [TilesNext]_tileVars => [Publication!PublicationNext]_Publication!publicationVars
  <2> SUFFICES ASSUME TilesInv, [TilesNext]_tileVars
               PROVE  Publication!PublicationNext \/ UNCHANGED <<served, Waiting, TilesVersion>>
    OBVIOUS
  <2>1. CASE UNCHANGED <<tileRuns, served>>
    BY <2>1, RunsUntouched
  <2>2. ASSUME NEW p \in Importers, OpenRun(p) PROVE UNCHANGED <<served, Waiting, TilesVersion>>
    BY <2>2, OpenRunUnpublished
  <2>3. ASSUME NEW p \in Importers, SwapFails(p) PROVE UNCHANGED <<served, Waiting, TilesVersion>>
    BY <2>3, SwapFailsUnpublished
  <2>4. ASSUME NEW p \in Importers, Swap(p) PROVE Publication!PublicationNext
    BY <2>4, SwapReplaces DEF Publication!PublicationNext, Publication!Replace
  <2>5. ASSUME NEW p \in Importers, FinishImport(p) PROVE Publication!PublicationNext
    BY <2>5, FinishAnnounces DEF Publication!PublicationNext, Publication!Announce
  <2>6. \/ UNCHANGED <<tileRuns, served>>
        \/ \E p \in Importers : OpenRun(p) \/ SwapFails(p) \/ Swap(p) \/ FinishImport(p)
    BY DEF TilesNext, ImporterStep, StartImport, PrepareStaging, TruncateStaging, WriteBatch, WriteFails,
       ImportDies, GetCatalog, GetTile, tileVars
  <2> QED BY <2>1, <2>2, <2>3, <2>4, <2>5, <2>6
<1> QED BY <1>1, <1>2, TilesInvariant, PTL DEF TilesSpec, PublishesWholeFiles, Publication!PublicationSpec
==============================================================================
