---------------------------- MODULE RenderersProofs ----------------------------
(* One render, for any job whose manifest and data have the shape              *)
(* JobsAssumption gives them.  A render that has reached a point of the        *)
(* program has passed every check before it: the invariant says, for each      *)
(* point, what the checks behind it have established, and so what a verdict    *)
(* given there means.                                                          *)
EXTENDS Renderers, TLAPS

Positive == cur[1] >= 1 /\ cur[2] >= 1 /\ cur[3] >= 1

InWorkbook == {"names", "blocks", "rows", "cells"}
InForm == {"fields", "write"}
Opened == InWorkbook \cup InForm \cup {"author"}

RightEngine ==
    /\ pc \in InWorkbook => IsXlsx
    /\ pc \in InForm => IsPdf
    /\ pc = "author" => ~IsXlsx /\ ~IsPdf

(* What the manifest loader, the schema gate and the head of a renderer have   *)
(* let through.                                                                *)
HeadChecked ==
    /\ pc \in Opened \cup {"gate", "open"} => ManifestLoads
    /\ pc \in Opened \cup {"open"} => ~ViolatesSchema
    /\ pc \in Opened =>
          /\ job.entry \notin {"missing", "corrupt"}
          /\ WrongFormat => job.engine = "jinja-html"
          /\ IsPdf => DOMAIN job.fields # {}

(* What the loops have found so far: all that comes before the position cur.   *)
BlockEntered(block) ==
    /\ ~NotAList(block) /\ ~Overflows(block)
    /\ block.anchor.kind = "cell"
BlockFaulty(block) ==
    \/ ~BlockEntered(block)
    \/ \E i \in DOMAIN Rows(block) : RowFault(block, i)
CellWritten(block, i, j) == Rows(block)[i] # <<>> /\ Writable(Rows(block)[i][j])

NamesChecked ==
    /\ pc = "names" =>
          \A n \in DOMAIN job.names : n < cur[1] => ~NameFault(job.names[n])
    /\ pc \in {"blocks", "rows", "cells"} =>
          \A n \in DOMAIN job.names : ~NameFault(job.names[n])

BlocksChecked ==
    /\ pc \in {"blocks", "rows"} =>
          \A b \in DOMAIN job.blocks : b < cur[1] => ~BlockFaulty(job.blocks[b])
    /\ pc = "blocks" => cur[2] = 1 /\ cur[3] = 1
    /\ pc = "cells" => \A b \in DOMAIN job.blocks : ~BlockFaulty(job.blocks[b])

RowsChecked ==
    pc = "rows" =>
        LET block == job.blocks[cur[1]] IN
        /\ cur[1] \in DOMAIN job.blocks /\ BlockEntered(block)
        /\ cur[3] <= block.width
        /\ \A i \in DOMAIN Rows(block) : i < cur[2] => ~RowFault(block, i)
        /\ cur[2] \in DOMAIN Rows(block) =>
              \A j \in 1..block.width : j < cur[3] => CellWritten(block, cur[2], j)

CellsChecked ==
    pc = "cells" =>
        \A k \in DOMAIN job.cells : k < cur[1] => ~CellFault(job.cells[k])

EntriesChecked ==
    /\ pc = "fields" =>
          \A e \in DOMAIN job.mapping : e < cur[1] => ~Undeclared(job.mapping[e])
    /\ pc = "write" => \A e \in DOMAIN job.mapping : ~Undeclared(job.mapping[e])

(* A form keeps its own values until all of them are known; a value known is   *)
(* that of an entry already resolved.                                          *)
ResolvedEntries ==
    {job.mapping[e] : e \in {d \in DOMAIN job.mapping : pc = "fields" => d < cur[1]}}
SuppliedSoFar == {e \in ResolvedEntries : Supplied(e.key)}
Given(e) == EntryValues(job.fields, e, job.data[e.key])

FormSoFar ==
    IsPdf =>
        /\ pc # "done" => form = [f \in DOMAIN job.fields |-> OwnValue]
        /\ pc \notin InForm \cup {"done"} => values = <<>>
        /\ pc \in InForm =>
              /\ DOMAIN values = UNION {Targets(e) : e \in SuppliedSoFar}
              /\ \A f \in DOMAIN values :
                    \E e \in SuppliedSoFar : f \in Targets(e) /\ values[f] = Given(e)[f]

(* The writes behind the position of the render have been made, and no other.  *)
Progress ==
    CASE pc = "names" -> Rank(1, cur[1], 0, 0)
      [] pc = "blocks" -> Rank(2, cur[1], 0, 0)
      [] pc = "rows" -> Rank(2, cur[1], cur[2], cur[3])
      [] pc = "cells" -> Rank(3, cur[1], 0, 0)
      [] pc = "done" -> Rank(4, 0, 0, 0)
      [] OTHER -> Rank(0, 0, 0, 0)
Made(w) == ~NotAfter(Progress, w.rank)

ShowsLastWrite(p) ==
    \/ grid[p] = Original /\ \A w \in Writes : w.at = p => ~Made(w)
    \/ \E w \in Writes :
          /\ w.at = p /\ Made(w) /\ grid[p] = w.shown
          /\ \A v \in Writes : v.at = p /\ Made(v) => NotAfter(v.rank, w.rank)

SheetSoFar ==
    IsXlsx /\ verdict \in {"none", "artifact"} => \A p \in Cells : ShowsLastWrite(p)

IndInv ==
    /\ job \in Jobs
    /\ TypeOK
    /\ Positive
    /\ RightEngine
    /\ HeadChecked
    /\ NamesChecked
    /\ BlocksChecked
    /\ RowsChecked
    /\ CellsChecked
    /\ EntriesChecked
    /\ VerdictHasCause
    /\ FaultyNeverRenders
    /\ StaysInBand
    /\ FormSoFar
    /\ FormShowsData
    /\ SheetSoFar
-------------------------------------------------------------------------------
(* A render never changes its job, so what depends on the job alone stays.     *)
LEMMA JobFacts ==
    ASSUME job' = job
    PROVE  /\ IsXlsx' = IsXlsx /\ IsPdf' = IsPdf /\ WrongFormat' = WrongFormat
           /\ ManifestLoads' = ManifestLoads /\ ViolatesSchema' = ViolatesSchema
           /\ TemplateFault' = TemplateFault /\ DataFault' = DataFault
           /\ \A block : /\ Rows(block)' = Rows(block)
                         /\ NotAList(block)' = NotAList(block)
                         /\ BlockEntered(block)' = BlockEntered(block)
                         /\ BlockFaulty(block)' = BlockFaulty(block)
                         /\ \A i : RowFault(block, i)' = RowFault(block, i)
                         /\ \A i, j : CellWritten(block, i, j)' = CellWritten(block, i, j)
           /\ \A entry : /\ Undeclared(entry)' = Undeclared(entry)
                         /\ Given(entry)' = Given(entry)
           /\ \A key : Supplied(key)' = Supplied(key)
           /\ Blocks' = Blocks /\ SuppliedEntries' = SuppliedEntries
           /\ CombsFit' = CombsFit /\ Writes' = Writes
  <1>1. IsXlsx' = IsXlsx /\ IsPdf' = IsPdf /\ WrongFormat' = WrongFormat
    BY DEF IsXlsx, IsPdf, WrongFormat
  <1>2. \A key : Supplied(key)' = Supplied(key)
    BY DEF Supplied
  <1>3. \A block : Rows(block)' = Rows(block) /\ NotAList(block)' = NotAList(block)
                   /\ SourceValue(block)' = SourceValue(block)
    BY DEF Rows, NotAList, SourceValue, Supplied
  <1>4. \A block : Overflows(block)' = Overflows(block)
    BY <1>3 DEF Overflows
  <1>5. \A block : BlockEntered(block)' = BlockEntered(block)
    BY <1>3, <1>4 DEF BlockEntered
  <1>6. \A block, i : RowFault(block, i)' = RowFault(block, i)
    BY <1>3 DEF RowFault
  <1>7. \A block : BlockFaulty(block)' = BlockFaulty(block)
    BY <1>3, <1>5, <1>6 DEF BlockFaulty
  <1>8. \A block, i, j : CellWritten(block, i, j)' = CellWritten(block, i, j)
    BY <1>3 DEF CellWritten
  <1>9. ManifestLoads' = ManifestLoads /\ ViolatesSchema' = ViolatesSchema
    BY <1>1 DEF ManifestLoads, ViolatesSchema, TooLong
  <1>10. Blocks' = Blocks /\ Entries' = Entries /\ SuppliedEntries' = SuppliedEntries
    BY DEF Blocks, Entries, SuppliedEntries
  <1>11. TemplateFault' = TemplateFault
    BY <1>1, <1>10 DEF TemplateFault
  <1>12. DataFault' = DataFault
    BY <1>1, <1>3, <1>10 DEF DataFault, TooLong
  <1>13. \A entry : Undeclared(entry)' = Undeclared(entry) /\ Given(entry)' = Given(entry)
    BY DEF Undeclared, Given
  <1>14. Writes' = Writes
    <2>1. NamesApplied' = NamesApplied
      BY DEF NamesApplied, Sources
    <2>2. \A n, p : NameWrite(n, p)' = NameWrite(n, p)
      BY DEF NameWrite
    <2>3. \A b, i, j : RowWrite(b, i, j)' = RowWrite(b, i, j)
      BY <1>3 DEF RowWrite
    <2>4. \A k : CellWrite(k)' = CellWrite(k)
      BY DEF CellWrite
    <2> QED
      BY <1>3, <2>1, <2>2, <2>3, <2>4
         DEF Writes, NamesWritten, RowsWritten, CellsWritten, SingleCells
  <1>15. CombsFit' = CombsFit
    BY <1>1, <1>10 DEF CombsFit, CutShort, BoundsString
  <1> QED
    BY <1>1, <1>2, <1>3, <1>5, <1>6, <1>7, <1>8, <1>9, <1>10, <1>11, <1>12,
       <1>13, <1>14, <1>15

(* What can be written to depends on the job and on which cells there are.     *)
LEMMA GridFacts ==
    ASSUME job' = job, DOMAIN grid' = DOMAIN grid
    PROVE  /\ \A name : NameFault(name)' = NameFault(name)
           /\ \A cell : CellFault(cell)' = CellFault(cell)
           /\ RenderFault' = RenderFault
  <1>1. \A name : NameFault(name)' = NameFault(name)
    BY DEF NameFault, Sources, Assignable
  <1>2. \A cell : CellFault(cell)' = CellFault(cell)
    BY DEF CellFault, Assignable
  <1>3. RenderFault' = RenderFault
    BY <1>1, <1>2, JobFacts DEF RenderFault
  <1> QED
    BY <1>1, <1>2, <1>3

(* No step changes the job or adds a cell to the workbook.                     *)
LEMMA StepKeeps ==
    [Next]_vars => job' = job /\ DOMAIN grid' = DOMAIN grid
  BY DEF Next, vars, doc, LoadManifest, Validate, Open, ApplyDefinedName,
         NamesDone, EnterBlock, WriteCell, HideUnusedRows, BlocksDone,
         ApplyCell, SaveWorkbook, ResolveEntry, FieldsDone, WriteForm, Author,
         Returned, Goto, End, Fail

(* A verdict is given once, at the end.                                        *)
LEMMA Control ==
    ASSUME IndInv, Next
    PROVE  /\ pc' \in Steps /\ verdict' \in Verdicts \cup {"none"}
           /\ cur' \in Nat \X Nat \X Nat /\ Positive'
           /\ pc' = "done" <=> verdict' # "none"
           /\ RightEngine'
  <1>1. /\ pc \in Steps /\ verdict \in Verdicts \cup {"none"}
        /\ pc = "done" <=> verdict # "none"
        /\ cur[1] \in Nat /\ cur[2] \in Nat /\ cur[3] \in Nat
        /\ cur \in Nat \X Nat \X Nat
    BY DEF IndInv, TypeOK
  <1>2. cur[1] >= 1 /\ cur[2] >= 1 /\ cur[3] >= 1
    BY DEF IndInv, Positive
  <1>3. RightEngine /\ IsXlsx' = IsXlsx /\ IsPdf' = IsPdf
    BY StepKeeps, JobFacts DEF IndInv
  <1> USE <1>1, <1>2 DEF Steps, Verdicts, Positive, RightEngine, InWorkbook, InForm
  <1>4. CASE LoadManifest
    BY <1>3, <1>4 DEF LoadManifest, Goto, End, Fail
  <1>5. CASE Validate
    BY <1>3, <1>5 DEF Validate, Goto, End, Fail
  <1>6. CASE Open
    BY <1>3, <1>6 DEF Open, Goto, End, Fail, IsXlsx, IsPdf, FirstStep
  <1>7. CASE ApplyDefinedName
    BY <1>3, <1>7 DEF ApplyDefinedName, Goto, End, Fail
  <1>8. CASE NamesDone
    BY <1>3, <1>8 DEF NamesDone, Goto, End, Fail
  <1>9. CASE EnterBlock
    BY <1>3, <1>9 DEF EnterBlock, Goto, End, Fail
  <1>10. CASE WriteCell
    BY <1>3, <1>10 DEF WriteCell, Goto, End, Fail
  <1>11. CASE HideUnusedRows
    BY <1>3, <1>11 DEF HideUnusedRows, Goto, End, Fail
  <1>12. CASE BlocksDone
    BY <1>3, <1>12 DEF BlocksDone, Goto, End, Fail
  <1>13. CASE ApplyCell
    BY <1>3, <1>13 DEF ApplyCell, Goto, End, Fail
  <1>14. CASE SaveWorkbook
    BY <1>3, <1>14 DEF SaveWorkbook, Goto, End, Fail
  <1>15. CASE ResolveEntry
    BY <1>3, <1>15 DEF ResolveEntry, Goto, End, Fail
  <1>16. CASE FieldsDone
    BY <1>3, <1>16 DEF FieldsDone, Goto, End, Fail
  <1>17. CASE WriteForm
    BY <1>3, <1>17 DEF WriteForm, Goto, End, Fail
  <1>18. CASE Author
    BY <1>3, <1>18 DEF Author, Goto, End, Fail
  <1>19. CASE Returned
    BY <1>3, <1>19 DEF Returned, Goto, End, Fail, vars
  <1> QED
    BY <1>4, <1>5, <1>6, <1>7, <1>8, <1>9, <1>10, <1>11, <1>12, <1>13, <1>14,
       <1>15, <1>16, <1>17, <1>18, <1>19 DEF Next

(* The loader, the gate and the head of the renderer each let through only    *)
(* what they have checked.                                                     *)
LEMMA HeadStep ==
    ASSUME IndInv, Next
    PROVE  HeadChecked'
  <1>1. HeadChecked
    BY DEF IndInv
  <1>2. /\ job' = job /\ IsXlsx' = IsXlsx /\ IsPdf' = IsPdf
        /\ ManifestLoads' = ManifestLoads /\ ViolatesSchema' = ViolatesSchema
        /\ WrongFormat' = WrongFormat
    BY StepKeeps, JobFacts
  <1> USE DEF HeadChecked, Opened, InWorkbook, InForm
  <1>3. CASE LoadManifest
    BY <1>1, <1>2, <1>3 DEF LoadManifest, Goto, End, Fail
  <1>4. CASE Validate
    BY <1>1, <1>2, <1>4 DEF Validate, Goto, End, Fail
  <1>5. CASE Open
    BY <1>1, <1>2, <1>5
       DEF Open, Goto, End, Fail, IsXlsx, IsPdf, FirstStep, ResolveFails
  <1>6. CASE ApplyDefinedName \/ NamesDone \/ EnterBlock \/ WriteCell
             \/ HideUnusedRows \/ BlocksDone \/ ApplyCell \/ SaveWorkbook
             \/ ResolveEntry \/ FieldsDone \/ WriteForm \/ Author \/ Returned
    BY <1>1, <1>2, <1>6 DEF ApplyDefinedName, NamesDone, EnterBlock, WriteCell,
           HideUnusedRows, BlocksDone, ApplyCell, SaveWorkbook, ResolveEntry,
           FieldsDone, WriteForm, Author, Returned, Goto, End, Fail, vars
  <1> QED
    BY <1>3, <1>4, <1>5, <1>6 DEF Next

(* A defined name is passed only if it could be applied.                       *)
LEMMA NamesStep ==
    ASSUME IndInv, Next
    PROVE  NamesChecked'
  <1>1. /\ cur[1] \in Nat /\ cur[2] \in Nat /\ cur[3] \in Nat
        /\ cur[1] >= 1 /\ cur[2] >= 1 /\ cur[3] >= 1
    BY DEF IndInv, TypeOK, Positive
  <1>2. /\ NamesChecked /\ job' = job
        /\ \A n : NameFault(job.names[n])' = NameFault(job.names[n])
        /\ job.engine = "xlsx" => IsList(job.names)
    BY StepKeeps, GridFacts, JobsAssumption DEF IndInv
  <1> USE DEF NamesChecked
  <1>3. CASE Open
    <2>1. /\ pc' \notin {"blocks", "rows", "cells"}
          /\ pc' = "names" => cur'[1] = 1 /\ job.engine = "xlsx"
      BY <1>3 DEF Open, FirstStep, IsXlsx, IsPdf, Goto, Fail, End
    <2> QED
      BY <1>2, <2>1 DEF IsList
  <1>4. CASE ApplyDefinedName
    <2>1. job.engine = "xlsx"
      BY <1>4 DEF ApplyDefinedName, IndInv, RightEngine, InWorkbook, IsXlsx
    <2>2. NameFault(job.names[cur[1]]) => NameFails(job.names[cur[1]])
      BY DEF NameFault, NameFails, NameWrites, SkipsName, Supplied
    <2>3. CASE NameFails(job.names[cur[1]])
      BY <1>4, <2>3 DEF ApplyDefinedName, Fail, End
    <2>4. CASE ~NameFails(job.names[cur[1]])
      <3>1. /\ pc = "names" /\ pc' = "names" /\ cur'[1] = cur[1] + 1
            /\ cur[1] \in DOMAIN job.names
        BY <1>4, <2>4 DEF ApplyDefinedName, Goto
      <3> QED
        BY <1>1, <1>2, <2>1, <2>2, <2>4, <3>1 DEF IsList
    <2> QED
      BY <2>3, <2>4
  <1>5. CASE NamesDone
    <2>1. job.engine = "xlsx"
      BY <1>5 DEF NamesDone, IndInv, RightEngine, InWorkbook, IsXlsx
    <2> QED
      BY <1>1, <1>2, <1>5, <2>1 DEF NamesDone, Goto, IsList
  <1>6. CASE LoadManifest \/ Validate \/ EnterBlock \/ WriteCell
             \/ HideUnusedRows \/ BlocksDone \/ ApplyCell \/ SaveWorkbook
             \/ ResolveEntry \/ FieldsDone \/ WriteForm \/ Author \/ Returned
    BY <1>1, <1>2, <1>6 DEF LoadManifest, Validate, EnterBlock, WriteCell,
           HideUnusedRows, BlocksDone, ApplyCell, SaveWorkbook, ResolveEntry,
           FieldsDone, WriteForm, Author, Returned, Goto, End, Fail, vars
  <1> QED
    BY <1>3, <1>4, <1>5, <1>6 DEF Next

(* So is an explicit cell.                                                     *)
LEMMA CellsStep ==
    ASSUME IndInv, Next
    PROVE  CellsChecked'
  <1>1. /\ cur[1] \in Nat /\ cur[2] \in Nat /\ cur[3] \in Nat
        /\ cur[1] >= 1 /\ cur[2] >= 1 /\ cur[3] >= 1
    BY DEF IndInv, TypeOK, Positive
  <1>2. /\ CellsChecked /\ job' = job
        /\ \A k : CellFault(job.cells[k])' = CellFault(job.cells[k])
        /\ job.engine = "xlsx" => IsList(job.cells)
    BY StepKeeps, GridFacts, JobsAssumption DEF IndInv
  <1> USE DEF CellsChecked
  <1>3. CASE Open
    BY <1>1, <1>2, <1>3 DEF Open, Goto, End, Fail, FirstStep
  <1>4. CASE BlocksDone
    <2>1. job.engine = "xlsx"
      BY <1>4 DEF BlocksDone, IndInv, RightEngine, InWorkbook, IsXlsx
    <2> QED
      BY <1>1, <1>2, <1>4, <2>1 DEF BlocksDone, Goto, IsList
  <1>5. CASE ApplyCell
    <2>1. job.engine = "xlsx"
      BY <1>5 DEF ApplyCell, IndInv, RightEngine, InWorkbook, IsXlsx
    <2> QED
      BY <1>1, <1>2, <1>5, <2>1
         DEF ApplyCell, Goto, Fail, End, CellFault, IsList
  <1>6. CASE LoadManifest \/ Validate \/ ApplyDefinedName \/ NamesDone
             \/ EnterBlock \/ WriteCell \/ HideUnusedRows \/ SaveWorkbook
             \/ ResolveEntry \/ FieldsDone \/ WriteForm \/ Author \/ Returned
    BY <1>1, <1>2, <1>6 DEF LoadManifest, Validate, ApplyDefinedName,
           NamesDone, EnterBlock, WriteCell, HideUnusedRows, SaveWorkbook,
           ResolveEntry, FieldsDone, WriteForm, Author, Returned, Goto, End,
           Fail, vars
  <1> QED
    BY <1>3, <1>4, <1>5, <1>6 DEF Next

(* An entry of a form's mapping is passed only if the PDF declares all its     *)
(* fields.                                                                     *)
LEMMA EntriesStep ==
    ASSUME IndInv, Next
    PROVE  EntriesChecked'
  <1>1. /\ cur[1] \in Nat /\ cur[2] \in Nat /\ cur[3] \in Nat
        /\ cur[1] >= 1 /\ cur[2] >= 1 /\ cur[3] >= 1
    BY DEF IndInv, TypeOK, Positive
  <1>2. /\ EntriesChecked /\ job' = job
        /\ \A e : Undeclared(job.mapping[e])' = Undeclared(job.mapping[e])
        /\ job.engine = "pdf-form" => IsList(job.mapping)
    BY StepKeeps, JobFacts, JobsAssumption DEF IndInv
  <1> USE DEF EntriesChecked
  <1>3. CASE Open
    <2>1. pc' = "fields" => cur'[1] = 1 /\ job.engine = "pdf-form"
      BY <1>3 DEF Open, FirstStep, IsXlsx, IsPdf, Goto, Fail, End
    <2>2. pc' # "write"
      BY <1>3 DEF Open, FirstStep, IsXlsx, IsPdf, Goto, Fail, End
    <2> QED
      BY <1>2, <2>1, <2>2 DEF IsList
  <1>4. CASE ResolveEntry
    <2>1. job.engine = "pdf-form"
      BY <1>4 DEF ResolveEntry, IndInv, RightEngine, InForm, IsPdf
    <2> QED
      BY <1>1, <1>2, <1>4, <2>1 DEF ResolveEntry, Goto, Fail, End, IsList
  <1>5. CASE FieldsDone
    <2>1. job.engine = "pdf-form"
      BY <1>5 DEF FieldsDone, IndInv, RightEngine, InForm, IsPdf
    <2> QED
      BY <1>1, <1>2, <1>5, <2>1 DEF FieldsDone, Goto, IsList
  <1>6. CASE LoadManifest \/ Validate \/ ApplyDefinedName \/ NamesDone
             \/ EnterBlock \/ WriteCell \/ HideUnusedRows \/ BlocksDone
             \/ ApplyCell \/ SaveWorkbook \/ WriteForm \/ Author \/ Returned
    BY <1>1, <1>2, <1>6 DEF LoadManifest, Validate, ApplyDefinedName,
           NamesDone, EnterBlock, WriteCell, HideUnusedRows, BlocksDone,
           ApplyCell, SaveWorkbook, WriteForm, Author, Returned, Goto, End,
           Fail, vars
  <1> QED
    BY <1>3, <1>4, <1>5, <1>6 DEF Next

(* What the manifest and the data say of a block that has been reached.        *)
LEMMA BlockShape ==
    ASSUME IndInv, job.engine = "xlsx"
    PROVE  /\ IsList(job.blocks)
           /\ \A b \in DOMAIN job.blocks :
                /\ SoundBlock(job.blocks[b], job.limit)
                /\ BlockCapacity(job.blocks[b], job.limit) \in Nat
                /\ IsList(Rows(job.blocks[b]))
  <1>1. /\ IsList(job.blocks)
        /\ \A b \in DOMAIN job.blocks : SoundBlock(job.blocks[b], job.limit)
        /\ \A key \in DOMAIN job.data :
              job.data[key].kind = "list" => IsList(job.data[key].rows)
    BY JobsAssumption DEF IndInv
  <1>2. IsList(<<>>)
    BY DEF IsList
  <1>3. \A block : IsList(Rows(block))
    BY <1>1, <1>2 DEF Rows, SourceValue, Supplied
  <1>4. \A b \in DOMAIN job.blocks : BlockCapacity(job.blocks[b], job.limit) \in Nat
    BY <1>1 DEF SoundBlock, BlockCapacity
  <1> QED
    BY <1>1, <1>3, <1>4

(* A block is passed only with all its rows.                                   *)
LEMMA BlocksStep ==
    ASSUME IndInv, Next
    PROVE  BlocksChecked'
  <1>1. /\ cur[1] \in Nat /\ cur[2] \in Nat /\ cur[3] \in Nat
        /\ cur[1] >= 1 /\ cur[2] >= 1 /\ cur[3] >= 1
    BY DEF IndInv, TypeOK, Positive
  <1>2. /\ BlocksChecked /\ job' = job
        /\ \A b : BlockFaulty(job.blocks[b])' = BlockFaulty(job.blocks[b])
    BY StepKeeps, JobFacts DEF IndInv
  <1> USE DEF BlocksChecked
  <1>3. CASE Open
    BY <1>2, <1>3 DEF Open, FirstStep, Goto, Fail, End
  <1>4. CASE NamesDone
    <2>1. job.engine = "xlsx" /\ pc = "names"
      BY <1>4 DEF NamesDone, IndInv, RightEngine, InWorkbook, IsXlsx
    <2> QED
      BY <1>2, <1>4, <2>1, BlockShape DEF NamesDone, Goto, IsList
  <1>5. CASE EnterBlock
    BY <1>1, <1>2, <1>5 DEF EnterBlock, Goto, Fail, End
  <1>6. CASE WriteCell
    <2>1. /\ pc = "rows" /\ pc' \in {"rows", "done"}
          /\ cur'[1] = cur[1]
      BY <1>1, <1>6 DEF WriteCell, Goto, Fail, End
    <2> QED
      BY <1>2, <2>1
  <1>7. CASE HideUnusedRows
    <2>1. job.engine = "xlsx" /\ pc = "rows"
      BY <1>7 DEF HideUnusedRows, IndInv, RightEngine, InWorkbook, IsXlsx
    <2>2. /\ cur[1] \in DOMAIN job.blocks /\ BlockEntered(job.blocks[cur[1]])
          /\ \A i \in DOMAIN Rows(job.blocks[cur[1]]) :
                i < cur[2] => ~RowFault(job.blocks[cur[1]], i)
      BY <2>1 DEF IndInv, RowsChecked
    <2>3. /\ cur[2] \notin DOMAIN Rows(job.blocks[cur[1]])
          /\ pc' = "blocks" /\ cur' = <<cur[1] + 1, 1, 1>>
      BY <1>7 DEF HideUnusedRows, Goto
    <2>4. ~BlockFaulty(job.blocks[cur[1]])
      BY <1>1, <2>1, <2>2, <2>3, BlockShape DEF BlockFaulty, IsList
    <2> QED
      BY <1>1, <1>2, <2>1, <2>3, <2>4, BlockShape DEF IsList
  <1>8. CASE BlocksDone
    <2>1. job.engine = "xlsx" /\ pc = "blocks"
      BY <1>8 DEF BlocksDone, IndInv, RightEngine, InWorkbook, IsXlsx
    <2> QED
      BY <1>1, <1>2, <1>8, <2>1, BlockShape DEF BlocksDone, Goto, IsList
  <1>9. CASE LoadManifest \/ Validate \/ ApplyDefinedName \/ ApplyCell
             \/ SaveWorkbook \/ ResolveEntry \/ FieldsDone \/ WriteForm
             \/ Author \/ Returned
    BY <1>1, <1>2, <1>9 DEF LoadManifest, Validate, ApplyDefinedName,
           ApplyCell, SaveWorkbook, ResolveEntry, FieldsDone, WriteForm,
           Author, Returned, Goto, End, Fail, vars
  <1> QED
    BY <1>3, <1>4, <1>5, <1>6, <1>7, <1>8, <1>9 DEF Next

(* A row is passed only with all its columns.                                  *)
LEMMA RowsStep ==
    ASSUME IndInv, Next
    PROVE  RowsChecked'
  <1>1. /\ cur[1] \in Nat /\ cur[2] \in Nat /\ cur[3] \in Nat
        /\ cur[1] >= 1 /\ cur[2] >= 1 /\ cur[3] >= 1
    BY DEF IndInv, TypeOK, Positive
  <1>2. /\ RowsChecked /\ job' = job
        /\ \A block : /\ Rows(block)' = Rows(block)
                      /\ BlockEntered(block)' = BlockEntered(block)
                      /\ \A i : RowFault(block, i)' = RowFault(block, i)
                      /\ \A i, j : CellWritten(block, i, j)' = CellWritten(block, i, j)
    BY StepKeeps, JobFacts DEF IndInv
  <1>3. CASE Open
    BY <1>3 DEF Open, FirstStep, Goto, Fail, End, RowsChecked
  <1>4. CASE EnterBlock
    <2> DEFINE block == job.blocks[cur[1]]
    <2>1. /\ job.engine = "xlsx" /\ pc = "blocks" /\ cur[1] \in DOMAIN job.blocks
          /\ cur[2] = 1 /\ cur[3] = 1 /\ ManifestLoads
      BY <1>4 DEF EnterBlock, IndInv, RightEngine, InWorkbook, IsXlsx,
             BlocksChecked, HeadChecked, Opened
    <2>2. SoundBlock(block, job.limit) /\ IsList(Rows(block))
      BY <2>1, BlockShape
    <2>3. block.anchor.kind \in {"cell", "undeclared", "unresolvable"}
      BY <2>1, <2>2 DEF SoundBlock, ManifestLoads, IsXlsx
    <2>4. CASE NotAList(block) \/ Overflows(block) \/ block.anchor.kind # "cell"
      <3>1. pc' = "done"
        BY <1>4, <2>3, <2>4 DEF EnterBlock, Fail, End
      <3> QED
        BY <3>1 DEF RowsChecked
    <2>5. CASE ~NotAList(block) /\ ~Overflows(block) /\ block.anchor.kind = "cell"
      <3>1. pc' = "rows" /\ cur' = cur
        BY <1>4, <2>5 DEF EnterBlock, Goto
      <3>2. BlockEntered(block)
        BY <2>5 DEF BlockEntered
      <3> QED
        BY <1>1, <1>2, <2>1, <2>2, <3>1, <3>2
           DEF RowsChecked, SoundBlock, IsList
    <2> QED
      BY <2>4, <2>5
  <1>5. CASE WriteCell
    <2> DEFINE block == job.blocks[cur[1]]
    <2>1. job.engine = "xlsx" /\ pc = "rows" /\ cur[2] \in DOMAIN Rows(block)
      BY <1>5 DEF WriteCell, IndInv, RightEngine, InWorkbook, IsXlsx
    <2>2. /\ cur[1] \in DOMAIN job.blocks /\ BlockEntered(block) /\ cur[3] <= block.width
          /\ \A i \in DOMAIN Rows(block) : i < cur[2] => ~RowFault(block, i)
          /\ \A j \in 1..block.width : j < cur[3] => CellWritten(block, cur[2], j)
      BY <1>2, <2>1 DEF RowsChecked
    <2>3. block.width \in Nat \ {0} /\ IsList(Rows(block))
      BY <2>1, <2>2, BlockShape DEF SoundBlock
    <2>4. CASE ~CellWritten(block, cur[2], cur[3])
      <3>1. pc' = "done"
        BY <1>5, <2>4 DEF WriteCell, CellWritten, Fail, End
      <3> QED
        BY <3>1 DEF RowsChecked
    <2>5. CASE CellWritten(block, cur[2], cur[3]) /\ cur[3] < block.width
      <3>1. cur' = <<cur[1], cur[2], cur[3] + 1>>
        BY <1>5, <2>5 DEF WriteCell, CellWritten, Goto
      <3> QED
        BY <1>1, <1>2, <2>1, <2>2, <2>3, <2>5, <3>1 DEF RowsChecked
    <2>6. CASE CellWritten(block, cur[2], cur[3]) /\ ~(cur[3] < block.width)
      <3>1. cur' = <<cur[1], cur[2] + 1, 1>>
        BY <1>5, <2>6 DEF WriteCell, CellWritten, Goto
      <3>2. ~RowFault(block, cur[2])
        BY <1>1, <2>2, <2>3, <2>6 DEF RowFault, CellWritten
      <3> QED
        BY <1>1, <1>2, <2>1, <2>2, <2>3, <3>1, <3>2 DEF RowsChecked, IsList
    <2> QED
      BY <2>4, <2>5, <2>6
  <1> USE DEF RowsChecked
  <1>6. CASE LoadManifest \/ Validate \/ ApplyDefinedName \/ NamesDone
             \/ HideUnusedRows \/ BlocksDone \/ ApplyCell \/ SaveWorkbook
             \/ ResolveEntry \/ FieldsDone \/ WriteForm \/ Author \/ Returned
    BY <1>1, <1>2, <1>6 DEF LoadManifest, Validate, ApplyDefinedName,
           NamesDone, HideUnusedRows, BlocksDone, ApplyCell, SaveWorkbook,
           ResolveEntry, FieldsDone, WriteForm, Author, Returned, Goto, End,
           Fail, vars
  <1> QED
    BY <1>3, <1>4, <1>5, <1>6 DEF Next

(* An error names a fault that the check which raised it has just found.       *)
LEMMA VerdictStep ==
    ASSUME IndInv, Next
    PROVE  VerdictHasCause'
  <1>1. /\ VerdictHasCause /\ (pc # "done" => verdict = "none")
    BY DEF IndInv, TypeOK
  <1>2. /\ job' = job /\ TemplateFault' = TemplateFault
        /\ DataFault' = DataFault /\ RenderFault' = RenderFault
    BY StepKeeps, JobFacts, GridFacts
  <1> USE DEF VerdictHasCause
  <1>3. CASE LoadManifest
    <2>1. ~ManifestLoads => TemplateFault
      BY DEF ManifestLoads, TemplateFault, BlockCapacity, Blocks
    <2> QED
      BY <1>1, <1>2, <1>3, <2>1 DEF LoadManifest, Goto, Fail, End
  <1>4. CASE Validate
    <2>1. ViolatesSchema => DataFault
      BY DEF ViolatesSchema, DataFault
    <2> QED
      BY <1>1, <1>2, <1>4, <2>1 DEF Validate, Goto, Fail, End
  <1>5. CASE Open
    BY <1>1, <1>2, <1>5
       DEF Open, Goto, Fail, End, ResolveFails, TemplateFault, RenderFault
  <1>6. CASE ApplyDefinedName
    <2>1. pc = "names" /\ job.engine = "xlsx"
      BY <1>6
         DEF ApplyDefinedName, IndInv, RightEngine, InWorkbook, IsXlsx, IsPdf
    <2>2. NameFails(job.names[cur[1]]) => NameFault(job.names[cur[1]])
      BY DEF NameFault, NameFails, NameWrites, SkipsName, Supplied
    <2> QED
      BY <1>1, <1>2, <1>6, <2>1, <2>2
         DEF ApplyDefinedName, Goto, Fail, End, RenderFault, IsXlsx
  <1>7. CASE EnterBlock
    <2> DEFINE block == job.blocks[cur[1]]
    <2>1. pc = "blocks" /\ job.engine = "xlsx"
      BY <1>7 DEF EnterBlock, IndInv, RightEngine, InWorkbook, IsXlsx, IsPdf
    <2>2. block \in Blocks /\ cur[1] \in DOMAIN job.blocks
      BY <1>7 DEF EnterBlock, Blocks
    <2>3. CASE NotAList(block) \/ block.anchor.kind = "undeclared"
      <3>1. DataFault
        BY <2>1, <2>2, <2>3 DEF DataFault, IsXlsx
      <3>2. verdict' \in {"none", "VALIDATION_ERROR"}
        BY <1>1, <1>7, <2>1, <2>3 DEF EnterBlock, Fail, End
      <3> QED
        BY <1>2, <3>1, <3>2
    <2>4. CASE Overflows(block)
      <3>1. block.max_rows # 0 => DataFault
        BY <2>1, <2>2, <2>4 DEF Overflows, BlockCapacity, DataFault, IsXlsx
      <3>2. block.max_rows = 0 => DataFault
        <4>1. /\ job.limit[block.source] \in Nat /\ IsList(Rows(block)) /\ ManifestLoads
          BY <2>1, <2>2, BlockShape
             DEF SoundBlock, IndInv, HeadChecked, Opened, InWorkbook
        <4>2. block.max_rows = 0 => job.limit[block.source] # 0
          BY <2>1, <2>2, <4>1 DEF ManifestLoads, BlockCapacity, IsXlsx
        <4>3. Len(Rows(block)) > 0 =>
                 Supplied(block.source) /\ SourceValue(block).kind = "list"
          BY DEF Rows, SourceValue
        <4>4. Len(Rows(block)) > 0 =>
                 /\ block.source \in DOMAIN job.data
                 /\ Size(job.data[block.source]) = Len(Rows(block))
          BY <4>3 DEF Rows, SourceValue, Supplied, Size, Strings
        <4>5. block.max_rows = 0 => TooLong(block.source) /\ block.source \in DOMAIN job.data
          BY <2>4, <4>1, <4>2, <4>4 DEF Overflows, BlockCapacity, TooLong, IsList
        <4> QED
          BY <4>5 DEF DataFault
      <3>3. verdict' = "VALIDATION_ERROR"
        BY <1>1, <1>7, <2>1, <2>4 DEF EnterBlock, Fail, End
      <3> QED
        BY <1>2, <3>1, <3>2, <3>3
    <2>5. CASE /\ ~NotAList(block) /\ ~Overflows(block) /\ block.anchor.kind = "unresolvable"
      <3>1. verdict' = "RENDER_ERROR" /\ RenderFault
        BY <1>7, <2>1, <2>2, <2>5
           DEF EnterBlock, Fail, End, RenderFault, IsXlsx
      <3> QED
        BY <1>2, <3>1
    <2>6. CASE /\ ~NotAList(block) /\ ~Overflows(block)
               /\ block.anchor.kind \notin {"undeclared", "unresolvable"}
      <3>1. verdict' = "none"
        BY <1>1, <1>7, <2>1, <2>6 DEF EnterBlock, Goto
      <3> QED
        BY <3>1
    <2> QED
      BY <2>3, <2>4, <2>5, <2>6
  <1>8. CASE WriteCell
    <2> DEFINE block == job.blocks[cur[1]]
    <2>1. pc = "rows" /\ job.engine = "xlsx"
      BY <1>8 DEF WriteCell, IndInv, RightEngine, InWorkbook, IsXlsx, IsPdf
    <2>2. /\ cur[1] \in DOMAIN job.blocks /\ cur[3] <= block.width
          /\ cur[2] \in DOMAIN Rows(block) /\ block \in Blocks
      BY <1>8, <2>1 DEF WriteCell, IndInv, RowsChecked, Blocks
    <2>3. cur[3] \in 1..block.width
      BY <2>1, <2>2, BlockShape DEF IndInv, TypeOK, Positive, SoundBlock
    <2>4. ~CellWritten(block, cur[2], cur[3]) => RenderFault
      BY <2>1, <2>2, <2>3 DEF CellWritten, RowFault, RenderFault, IsXlsx
    <2> QED
      BY <1>1, <1>2, <1>8, <2>1, <2>4
         DEF WriteCell, CellWritten, Goto, Fail, End
  <1>9. CASE ApplyCell
    <2>1. pc = "cells" /\ job.engine = "xlsx"
      BY <1>9 DEF ApplyCell, IndInv, RightEngine, InWorkbook, IsXlsx, IsPdf
    <2> QED
      BY <1>1, <1>2, <1>9, <2>1
         DEF ApplyCell, Goto, Fail, End, RenderFault, CellFault, IsXlsx
  <1>10. CASE ResolveEntry
    <2>1. pc = "fields" /\ job.engine = "pdf-form"
      BY <1>10 DEF ResolveEntry, IndInv, RightEngine, InForm, IsXlsx, IsPdf
    <2>2. Undeclared(job.mapping[cur[1]]) => TemplateFault
      BY <1>10, <2>1
         DEF ResolveEntry, Undeclared, TemplateFault, Entries, IsPdf
    <2> QED
      BY <1>1, <1>2, <1>10, <2>1, <2>2 DEF ResolveEntry, Goto, Fail, End
  <1>11. CASE Author
    <2>1. ~IsXlsx /\ ~IsPdf
      BY <1>11 DEF Author, IndInv, RightEngine
    <2> QED
      BY <1>1, <1>2, <1>11, <2>1 DEF Author, End, UndefinedKeys, RenderFault
  <1>12. CASE NamesDone \/ HideUnusedRows \/ BlocksDone \/ SaveWorkbook
              \/ FieldsDone \/ WriteForm \/ Returned
    BY <1>1, <1>2, <1>12 DEF NamesDone, HideUnusedRows, BlocksDone,
           SaveWorkbook, FieldsDone, WriteForm, Returned, Goto, End, Fail, vars
  <1> QED
    BY <1>3, <1>4, <1>5, <1>6, <1>7, <1>8, <1>9, <1>10, <1>11, <1>12 DEF Next

(* All the checks together leave no fault that the render could have.          *)
LEMMA HeadSound ==
    ASSUME IndInv, pc \in Opened
    PROVE  /\ ~(job.entry = "missing") /\ ~(job.entry = "corrupt")
           /\ WrongFormat => ~IsXlsx /\ ~IsPdf
           /\ \A key \in job.required : key \in DOMAIN job.data
           /\ \A key \in DOMAIN job.data :
                 /\ ~TooLong(key)
                 /\ key \in job.strings => job.data[key].kind \in Strings
           /\ ManifestLoads
           /\ IsPdf => DOMAIN job.fields # {}
  BY DEF IndInv, HeadChecked, ViolatesSchema, IsXlsx, IsPdf

(* A document is finished only when no loop has anything left to look at.      *)
LEMMA FaultyStep ==
    ASSUME IndInv, Next
    PROVE  FaultyNeverRenders'
  <1>1. /\ FaultyNeverRenders /\ (pc # "done" => verdict = "none")
    BY DEF IndInv, TypeOK
  <1>2. /\ job' = job /\ TemplateFault' = TemplateFault
        /\ DataFault' = DataFault /\ RenderFault' = RenderFault /\ CombsFit' = CombsFit
    BY StepKeeps, JobFacts, GridFacts
  <1> USE DEF FaultyNeverRenders
  <1>3. CASE Open
    <2>1. verdict' # "artifact"
      BY <1>1, <1>3 DEF Open, Goto, Fail, End
    <2> QED
      BY <2>1
  <1>4. CASE EnterBlock
    <2>1. verdict' # "artifact"
      BY <1>1, <1>4 DEF EnterBlock, Goto, Fail, End
    <2> QED
      BY <2>1
  <1>5. CASE WriteCell
    <2>1. verdict' # "artifact"
      BY <1>1, <1>5 DEF WriteCell, Goto, Fail, End
    <2> QED
      BY <2>1
  <1>6. CASE SaveWorkbook
    <2>1. pc = "cells" /\ job.engine = "xlsx"
      BY <1>6 DEF SaveWorkbook, IndInv, RightEngine, InWorkbook, IsXlsx, IsPdf
    <2>2. pc \in Opened /\ IsXlsx /\ ~IsPdf
      BY <2>1 DEF Opened, InWorkbook, IsXlsx, IsPdf
    <2>3. \A b \in DOMAIN job.blocks : ~BlockFaulty(job.blocks[b])
      BY <2>1 DEF IndInv, BlocksChecked
    <2>4. \A n \in DOMAIN job.names : ~NameFault(job.names[n])
      BY <2>1 DEF IndInv, NamesChecked
    <2>5. \A k \in DOMAIN job.cells : ~CellFault(job.cells[k])
      <3>1. cur[1] \in Nat /\ cur[1] >= 1 /\ IsList(job.cells)
        BY <2>1, JobsAssumption DEF IndInv, TypeOK, Positive
      <3> QED
        BY <1>6, <2>1, <3>1 DEF SaveWorkbook, IndInv, CellsChecked, IsList
    <2>6. ~TemplateFault
      BY <2>2, HeadSound
         DEF TemplateFault, ManifestLoads, BlockCapacity, Blocks
    <2>7. ~DataFault
      BY <2>2, <2>3, HeadSound DEF DataFault, BlockFaulty, BlockEntered,
             Overflows, BlockCapacity, Blocks
    <2>8. ~RenderFault
      BY <2>2, <2>3, <2>4, <2>5, HeadSound
         DEF RenderFault, BlockFaulty, BlockEntered, Blocks
    <2>9. CombsFit
      BY <2>2 DEF CombsFit
    <2> QED
      BY <1>2, <2>6, <2>7, <2>8, <2>9
  <1>7. CASE WriteForm
    <2>1. pc = "write" /\ job.engine = "pdf-form"
      BY <1>7 DEF WriteForm, IndInv, RightEngine, InForm, IsXlsx, IsPdf
    <2>2. pc \in Opened /\ ~IsXlsx /\ IsPdf
      BY <2>1 DEF Opened, InForm, IsXlsx, IsPdf
    <2>3. \A e \in DOMAIN job.mapping : ~Undeclared(job.mapping[e])
      BY <2>1 DEF IndInv, EntriesChecked
    <2>4. ~TemplateFault
      BY <2>2, <2>3, HeadSound DEF TemplateFault, Undeclared, Entries
    <2>5. ~DataFault /\ ~RenderFault
      BY <2>2, HeadSound DEF DataFault, RenderFault
    <2>6. CombsFit
      <3> SUFFICES ASSUME NEW e \in SuppliedEntries, BoundsString(e)
                   PROVE  ~CutShort(e)
        BY DEF CombsFit
      <3>1. e.key \in DOMAIN job.data /\ IsList(e.targets) /\ job.data[e.key].len \in Nat
        BY <2>1, JobsAssumption DEF IndInv, SuppliedEntries, Entries
      <3>2. job.data[e.key].kind \in Strings /\ ~TooLong(e.key)
        BY <2>2, <3>1, HeadSound DEF BoundsString
      <3>3. Characters(job.data[e.key]) = Size(job.data[e.key])
        BY <3>2 DEF Characters, Size, Strings
      <3>4. job.limit[e.key] \in 1..Len(e.targets) /\ Len(e.targets) \in Nat
        BY <3>1 DEF BoundsString, IsList
      <3>5. Size(job.data[e.key]) <= job.limit[e.key]
        <4>1. Size(job.data[e.key]) \in Nat
          BY <3>1, <3>2 DEF Size, Strings
        <4> QED
          BY <3>2, <3>4, <4>1 DEF TooLong
      <3> QED
        BY <3>1, <3>2, <3>3, <3>4, <3>5 DEF CutShort, Size, Strings
    <2> QED
      BY <1>2, <2>4, <2>5, <2>6
  <1>8. CASE Author
    <2>1. pc \in Opened /\ ~IsXlsx /\ ~IsPdf
      BY <1>8 DEF Author, IndInv, RightEngine, Opened
    <2>2. ~TemplateFault /\ ~DataFault
      BY <2>1, HeadSound DEF TemplateFault, DataFault
    <2>3. verdict' = "artifact" => ~RenderFault
      BY <1>8, <2>1, HeadSound DEF Author, End, UndefinedKeys, RenderFault
    <2>4. CombsFit
      BY <2>1 DEF CombsFit
    <2> QED
      BY <1>2, <2>2, <2>3, <2>4
  <1>9. CASE LoadManifest \/ Validate \/ ApplyDefinedName \/ NamesDone
             \/ HideUnusedRows \/ BlocksDone \/ ApplyCell \/ ResolveEntry
             \/ FieldsDone \/ Returned
    BY <1>1, <1>2, <1>9 DEF LoadManifest, Validate, ApplyDefinedName,
           NamesDone, HideUnusedRows, BlocksDone, ApplyCell, ResolveEntry,
           FieldsDone, Returned, Goto, End, Fail, vars
  <1> QED
    BY <1>3, <1>4, <1>5, <1>6, <1>7, <1>8, <1>9 DEF Next

(* A block that has been entered hides rows of its own band only, and the rows *)
(* it has data for are not among them.                                         *)
LEMMA UnusedRowsInBand ==
    ASSUME IndInv, job.engine = "xlsx", pc = "rows"
    PROVE  LET block == job.blocks[cur[1]] IN
           \A h \in UnusedRows(block, Rows(block), job.limit) :
              /\ h[1] = block.anchor.at[1]
              /\ h[2] >= block.anchor.at[2] + Len(Rows(block))
              /\ h[2] < block.anchor.at[2] + BlockCapacity(block, job.limit)
              /\ h \in {<<p[1], p[2]>> : p \in Cells}
  <1> DEFINE block == job.blocks[cur[1]]
  <1>1. cur[1] \in DOMAIN job.blocks /\ block.anchor.kind = "cell"
    BY DEF IndInv, RowsChecked, BlockEntered
  <1>2. /\ block.width \in Nat \ {0} /\ block.anchor.at[2] \in Nat
        /\ \A i \in 1..BlockCapacity(block, job.limit), j \in 1..block.width :
              BlockCell(block, i, j) \in Cells
        /\ BlockCapacity(block, job.limit) \in Nat /\ Len(Rows(block)) \in Nat
    BY <1>1, BlockShape DEF SoundBlock, IsList
  <1> SUFFICES ASSUME NEW i \in (Len(Rows(block)) + 1)..BlockCapacity(block, job.limit)
               PROVE  LET h == <<block.anchor.at[1], block.anchor.at[2] + i - 1>> IN
                      /\ h[2] >= block.anchor.at[2] + Len(Rows(block))
                      /\ h[2] < block.anchor.at[2] + BlockCapacity(block, job.limit)
                      /\ h \in {<<p[1], p[2]>> : p \in Cells}
    BY DEF UnusedRows
  <1>3. BlockCell(block, i, 1) \in Cells
    BY <1>2
  <1>4. /\ BlockCell(block, i, 1)[1] = block.anchor.at[1]
        /\ BlockCell(block, i, 1)[2] = block.anchor.at[2] + i - 1
    BY DEF BlockCell
  <1> QED
    BY <1>2, <1>3, <1>4

(* The state keeps its shape: writes and hidden rows fall on the sheet.        *)
LEMMA TypeStep ==
    ASSUME IndInv, Next
    PROVE  TypeOK'
  <1>1. /\ IsXlsx => DOMAIN grid = Cells /\ hidden \subseteq {<<p[1], p[2]>> : p \in Cells}
        /\ IsPdf => DOMAIN form = DOMAIN job.fields /\ DOMAIN values \subseteq DOMAIN form
    BY DEF IndInv, TypeOK
  <1>2. /\ job' = job /\ DOMAIN grid' = DOMAIN grid
        /\ IsXlsx' = IsXlsx /\ IsPdf' = IsPdf
    BY StepKeeps, JobFacts
  <1>3. IsXlsx => hidden' \subseteq {<<p[1], p[2]>> : p \in Cells}
    <2>1. CASE HideUnusedRows
      <3>1. job.engine = "xlsx" /\ pc = "rows"
        BY <2>1 DEF HideUnusedRows, IndInv, RightEngine, InWorkbook, IsXlsx
      <3>2. hidden' \subseteq hidden \cup UnusedRows(job.blocks[cur[1]],
                                                     Rows(job.blocks[cur[1]]), job.limit)
        BY <2>1 DEF HideUnusedRows
      <3> QED
        BY <1>1, <3>1, <3>2, UnusedRowsInBand
    <2>2. CASE ~HideUnusedRows
      BY <1>1, <2>2 DEF Next, LoadManifest, Validate, Open, ApplyDefinedName,
             NamesDone, EnterBlock, WriteCell, BlocksDone, ApplyCell,
             SaveWorkbook, ResolveEntry, FieldsDone, WriteForm, Author,
             Returned, Goto, End, Fail, doc, vars
    <2> QED
      BY <2>1, <2>2
  <1>4. IsPdf => DOMAIN form' = DOMAIN job.fields /\ DOMAIN values' \subseteq DOMAIN form'
    <2>1. CASE ResolveEntry
      BY <1>1, <2>1 DEF ResolveEntry, Undeclared, Updated, EntryValues,
             Targets, Goto, Fail, End, doc
    <2>2. CASE WriteForm
      BY <1>1, <2>2 DEF WriteForm, Updated
    <2>3. CASE ~ResolveEntry /\ ~WriteForm
      BY <1>1, <2>3 DEF Next, LoadManifest, Validate, Open, ApplyDefinedName,
             NamesDone, EnterBlock, WriteCell, HideUnusedRows, BlocksDone,
             ApplyCell, SaveWorkbook, FieldsDone, Author, Returned, Goto, End,
             Fail, doc, vars
    <2> QED
      BY <2>1, <2>2, <2>3
  <1> QED
    BY <1>1, <1>2, <1>3, <1>4, Control DEF TypeOK

(* What the sheet shows of rows, and where; hidden rows.                       *)
ShownInBand(p) ==
    grid[p][1] = "row" =>
        LET block == job.blocks[grid[p][2]] IN
        \E i \in 1..BlockCapacity(block, job.limit), j \in 1..block.width :
            \/ p = BlockCell(block, i, j)
            \/ \E m \in job.merged : p = TopLeft(m) /\ Covers(m, BlockCell(block, i, j))
HiddenInBand(h) ==
    \E block \in Blocks :
        /\ h[1] = block.anchor.at[1]
        /\ h[2] >= block.anchor.at[2] + Len(Rows(block))
        /\ h[2] < block.anchor.at[2] + BlockCapacity(block, job.limit)

(* A row's cells are written, and unused rows hidden, in the block's own       *)
(* band.                                                                       *)
LEMMA BandStep ==
    ASSUME IndInv, Next
    PROVE  StaysInBand'
  <1> SUFFICES ASSUME IsXlsx
               PROVE  /\ \A p \in Cells : ShownInBand(p)'
                      /\ \A h \in hidden' : HiddenInBand(h)'
    BY StepKeeps, JobFacts DEF StaysInBand, ShownInBand, HiddenInBand
  <1>1. /\ \A p \in Cells : ShownInBand(p)
        /\ \A h \in hidden : HiddenInBand(h)
        /\ DOMAIN grid = Cells /\ job.engine = "xlsx"
    BY DEF IndInv, StaysInBand, ShownInBand, HiddenInBand, TypeOK, IsXlsx
  <1>2. /\ \A p : grid'[p] = grid[p] => ShownInBand(p)' = ShownInBand(p)
        /\ \A h : HiddenInBand(h)' = HiddenInBand(h)
    BY StepKeeps, JobFacts DEF ShownInBand, HiddenInBand
  <1>3. \A p \in Cells : grid'[p][1] # "row" => ShownInBand(p)'
    BY DEF ShownInBand
  <1>4. ASSUME NEW p \in Cells
        PROVE  ShownInBand(p)'
    <2>1. CASE ApplyDefinedName
      <3>1. grid'[p] = grid[p] \/ grid'[p][1] \in {"name", "text", "none"}
        BY <1>1, <2>1
           DEF ApplyDefinedName, Fail, End, doc, Shown, EmptyText, Cleared
      <3> QED
        BY <1>1, <1>2, <1>3, <3>1
    <2>2. CASE ApplyCell
      <3>1. grid'[p] = grid[p] \/ grid'[p][1] \in {"cell", "text", "none"}
        BY <1>1, <2>2 DEF ApplyCell, Fail, End, doc, Shown, EmptyText, Cleared
      <3> QED
        BY <1>1, <1>2, <1>3, <3>1
    <2>3. CASE WriteCell
      <3> DEFINE block == job.blocks[cur[1]]
                 at == BlockCell(block, cur[2], cur[3])
      <3>1. /\ pc = "rows" /\ cur[1] \in DOMAIN job.blocks /\ cur[2] \in DOMAIN Rows(block)
            /\ cur[3] <= block.width /\ ~Overflows(block)
            /\ cur[2] \in Nat /\ cur[3] \in Nat /\ cur[2] >= 1 /\ cur[3] >= 1
        BY <2>3
           DEF WriteCell, IndInv, RowsChecked, BlockEntered, TypeOK, Positive
      <3>2. cur[2] \in 1..BlockCapacity(block, job.limit) /\ cur[3] \in 1..block.width
        BY <1>1, <3>1, BlockShape DEF Overflows, SoundBlock, IsList
      <3>3. \/ grid'[p] = grid[p]
            \/ grid'[p] = <<"row", cur[1], cur[2], cur[3]>> /\ p = Landing(job.merged, at)
            \/ grid'[p][1] \in {"text", "none"}
        BY <1>1, <2>3
           DEF WriteCell, Goto, Fail, End, doc, Shown, EmptyText, Cleared
      <3>4. ASSUME p = Landing(job.merged, at)
            PROVE  p = at \/ \E m \in job.merged : p = TopLeft(m) /\ Covers(m, at)
        BY <3>4 DEF Landing, IsMergedCell
      <3>5. CASE grid'[p] = <<"row", cur[1], cur[2], cur[3]>> /\ p = Landing(job.merged, at)
        <4>1. grid'[p][2] = cur[1] /\ job' = job
          BY <3>5, StepKeeps
        <4> QED
          BY <3>2, <3>4, <3>5, <4>1 DEF ShownInBand
      <3> QED
        BY <1>1, <1>2, <1>3, <3>3, <3>5
    <2>4. CASE ~ApplyDefinedName /\ ~ApplyCell /\ ~WriteCell
      <3>1. grid' = grid
        BY <2>4 DEF Next, LoadManifest, Validate, Open, NamesDone, EnterBlock,
               HideUnusedRows, BlocksDone, SaveWorkbook, ResolveEntry,
               FieldsDone, WriteForm, Author, Returned, Goto, End, Fail, doc,
               vars
      <3> QED
        BY <1>1, <1>2, <3>1
    <2> QED
      BY <2>1, <2>2, <2>3, <2>4
  <1>5. ASSUME NEW h \in hidden'
        PROVE  HiddenInBand(h)'
    <2>1. CASE HideUnusedRows
      <3>1. pc = "rows" /\ job.blocks[cur[1]] \in Blocks
        BY <2>1 DEF HideUnusedRows, IndInv, RowsChecked, Blocks
      <3>2. h \in hidden \/ h \in UnusedRows(job.blocks[cur[1]],
                                             Rows(job.blocks[cur[1]]), job.limit)
        BY <2>1 DEF HideUnusedRows
      <3> QED
        BY <1>1, <1>2, <3>1, <3>2, UnusedRowsInBand DEF HiddenInBand
    <2>2. CASE ~HideUnusedRows
      <3>1. hidden' = hidden
        BY <2>2 DEF Next, LoadManifest, Validate, Open, ApplyDefinedName,
               NamesDone, EnterBlock, WriteCell, BlocksDone, ApplyCell,
               SaveWorkbook, ResolveEntry, FieldsDone, WriteForm, Author,
               Returned, Goto, End, Fail, doc, vars
      <3> QED
        BY <1>1, <1>2, <3>1
    <2> QED
      BY <2>1, <2>2
  <1> QED
    BY <1>4, <1>5

(* A value given to a field is never the form's own, and if it is a state, one *)
(* the field declares.                                                         *)
LEMMA GivenValues ==
    ASSUME job \in Jobs, job.engine = "pdf-form", NEW e \in SuppliedEntries, NEW f \in Targets(e)
    PROVE  /\ Given(e)[f] # OwnValue
           /\ e.comb => Given(e)[f] = CombBox(e.key, job.data[e.key], Position(e.targets, f))
           /\ (/\ f \in DOMAIN job.fields /\ Given(e)[f][1] = "state"
               /\ job.fields[f].states # <<>>) =>
                 \/ Given(e)[f][2] = "/Off"
                 \/ \E i \in DOMAIN job.fields[f].states :
                       Given(e)[f][2] = job.fields[f].states[i]
  <1>1. Given(e)[f] = IF e.comb THEN CombBox(e.key, job.data[e.key], Position(e.targets, f))
                      ELSE Coerce(job.fields[f], e.key, job.data[e.key])
    BY DEF Given, EntryValues, Targets
  <1>2. \A key, v, i : CombBox(key, v, i)[1] \in {"char", "word"}
    BY DEF CombBox, Character, NoText, Word
  <1>3. ASSUME NEW field, NEW key, NEW v, ~field.button
        PROVE  Coerce(field, key, v)[1] \in {"word", "text"}
    BY <1>3 DEF Coerce, NoText, Word, Text
  <1>4. ASSUME NEW field, NEW key, NEW v, field.button
        PROVE  /\ Coerce(field, key, v)[1] = "state"
               /\ Coerce(field, key, v)[2] \in {OnState(field), "/Off"}
    BY <1>4 DEF Coerce, State
  <1>5. OwnValue[1] = "own"
    BY DEF OwnValue
  <1>6. ASSUME ~e.comb, f \in DOMAIN job.fields, Given(e)[f][1] = "state",
               job.fields[f].states # <<>>
        PROVE  \/ Given(e)[f][2] = "/Off"
               \/ \E i \in DOMAIN job.fields[f].states :
                     Given(e)[f][2] = job.fields[f].states[i]
    <2>1. job.fields[f].states \in Seq(STRING)
      BY <1>6, JobsAssumption
    <2>2. /\ 1 \in DOMAIN job.fields[f].states
          /\ OnState(job.fields[f]) = job.fields[f].states[1]
      BY <1>6, <2>1 DEF OnState
    <2>3. Given(e)[f][2] \in {OnState(job.fields[f]), "/Off"}
      BY <1>1, <1>3, <1>4, <1>6
    <2> QED
      BY <2>2, <2>3
  <1> QED
    BY <1>1, <1>2, <1>3, <1>4, <1>5, <1>6

(* What is resolved so far comes from the entries resolved so far.             *)
LEMMA FormStep ==
    ASSUME IndInv, Next
    PROVE  FormSoFar'
  <1> SUFFICES ASSUME IsPdf
               PROVE  /\ pc' # "done" => form' = [f \in DOMAIN job.fields |-> OwnValue]
                      /\ pc' \notin InForm \cup {"done"} => values' = <<>>
                      /\ pc' \in InForm =>
                            /\ DOMAIN values' = UNION {Targets(e) : e \in SuppliedSoFar'}
                            /\ \A f \in DOMAIN values' :
                                  \E e \in SuppliedSoFar' :
                                      f \in Targets(e) /\ values'[f] = Given(e)[f]
    BY StepKeeps, JobFacts DEF FormSoFar, Targets
  <1>1. /\ pc # "done" => form = [f \in DOMAIN job.fields |-> OwnValue]
        /\ pc \notin InForm \cup {"done"} => values = <<>>
        /\ pc \in InForm =>
              /\ DOMAIN values = UNION {Targets(e) : e \in SuppliedSoFar}
              /\ \A f \in DOMAIN values :
                    \E e \in SuppliedSoFar : f \in Targets(e) /\ values[f] = Given(e)[f]
    BY DEF IndInv, FormSoFar
  <1>2. /\ job' = job /\ job.engine = "pdf-form" /\ IsList(job.mapping)
        /\ cur[1] \in Nat /\ cur[1] >= 1
    BY StepKeeps, JobsAssumption DEF IndInv, IsPdf, TypeOK, Positive
  <1>3. SuppliedSoFar' =
           {e \in {job.mapping[k] :
                      k \in {d \in DOMAIN job.mapping : pc' = "fields" => d < cur'[1]}} :
               Supplied(e.key)}
    BY <1>2 DEF SuppliedSoFar, ResolvedEntries, Supplied
  <1>4. SuppliedSoFar =
           {e \in {job.mapping[k] :
                      k \in {d \in DOMAIN job.mapping : pc = "fields" => d < cur[1]}} :
               Supplied(e.key)}
    BY DEF SuppliedSoFar, ResolvedEntries
  <1>5. CASE Open
    <2>1. pc = "open" /\ values' = values /\ form' = form
      BY <1>5 DEF Open, Goto, Fail, End, doc
    <2>2. pc' \in {"done", "fields"} /\ (pc' = "fields" => cur'[1] = 1)
      BY <1>2, <1>5 DEF Open, Goto, Fail, End, FirstStep, IsXlsx, IsPdf
    <2>3. pc' = "fields" => SuppliedSoFar' = {}
      BY <1>2, <1>3, <2>2 DEF IsList
    <2>4. values' = <<>>
      BY <1>1, <2>1 DEF InForm
    <2> QED
      BY <1>1, <2>1, <2>2, <2>3, <2>4 DEF InForm
  <1>6. CASE ResolveEntry
    <2> DEFINE entry == job.mapping[cur[1]]
    <2>1. pc = "fields" /\ cur[1] \in DOMAIN job.mapping /\ form' = form
      BY <1>6 DEF ResolveEntry, Fail, End, doc
    <2>2. CASE Undeclared(entry)
      BY <1>6, <2>2 DEF ResolveEntry, Fail, End, InForm
    <2>3. CASE ~Undeclared(entry)
      <3>1. /\ pc' = "fields" /\ cur'[1] = cur[1] + 1
            /\ values' = IF Supplied(entry.key) THEN Updated(values, Given(entry)) ELSE values
        BY <1>6, <2>3 DEF ResolveEntry, Goto, Given
      <3>2. CASE ~Supplied(entry.key)
        <4>1. SuppliedSoFar' = SuppliedSoFar
          BY <1>2, <1>3, <1>4, <2>1, <3>1, <3>2 DEF IsList
        <4> QED
          BY <1>1, <2>1, <3>1, <3>2, <4>1 DEF InForm
      <3>3. CASE Supplied(entry.key)
        <4>1. SuppliedSoFar' = SuppliedSoFar \cup {entry}
          BY <1>2, <1>3, <1>4, <2>1, <3>1, <3>3 DEF IsList
        <4>2. DOMAIN Given(entry) = Targets(entry)
          BY DEF Given, EntryValues, Targets
        <4>3. /\ DOMAIN values' = DOMAIN values \cup Targets(entry)
              /\ \A f \in DOMAIN values' :
                    values'[f] = IF f \in Targets(entry) THEN Given(entry)[f] ELSE values[f]
          BY <3>1, <3>3, <4>2 DEF Updated
        <4> QED
          BY <1>1, <2>1, <3>1, <4>1, <4>3 DEF InForm
      <3> QED
        BY <3>2, <3>3
    <2> QED
      BY <2>2, <2>3
  <1>7. CASE FieldsDone
    <2>1. /\ pc = "fields" /\ pc' = "write" /\ values' = values /\ form' = form
          /\ cur[1] \notin DOMAIN job.mapping
      BY <1>7 DEF FieldsDone, Goto, doc
    <2>2. SuppliedSoFar' = SuppliedSoFar
      BY <1>2, <1>3, <1>4, <2>1 DEF IsList
    <2> QED
      BY <1>1, <2>1, <2>2 DEF InForm
  <1>8. CASE WriteForm \/ Author \/ SaveWorkbook
    BY <1>8 DEF WriteForm, Author, SaveWorkbook, End, InForm
  <1>9. CASE Returned
    BY <1>9 DEF Returned, vars, IndInv, TypeOK, InForm, FormSoFar
  <1>10. CASE LoadManifest \/ Validate
    BY <1>1, <1>10 DEF LoadManifest, Validate, Goto, Fail, End, doc, InForm
  <1>11. CASE ApplyDefinedName \/ NamesDone \/ EnterBlock \/ WriteCell
              \/ HideUnusedRows
               \/ BlocksDone \/ ApplyCell
    <2>1. pc \in InWorkbook
      BY <1>11 DEF ApplyDefinedName, NamesDone, EnterBlock, WriteCell,
             HideUnusedRows, BlocksDone, ApplyCell, InWorkbook
    <2> QED
      BY <1>2, <2>1 DEF IndInv, RightEngine, IsXlsx
  <1> QED
    BY <1>5, <1>6, <1>7, <1>8, <1>9, <1>10, <1>11 DEF Next

(* Once every entry is resolved, the form shows what the entries give.         *)
LEMMA FormShowsStep ==
    ASSUME IndInv, Next
    PROVE  FormShowsData'
  <1>1. CASE WriteForm
    <2>1. pc = "write" /\ IsPdf /\ job.engine = "pdf-form" /\ job \in Jobs /\ job' = job
      BY <1>1, StepKeeps DEF WriteForm, IndInv, RightEngine, InForm, IsPdf
    <2>2. SuppliedSoFar = SuppliedEntries
      BY <2>1
         DEF SuppliedSoFar, ResolvedEntries, SuppliedEntries, Entries, Supplied
    <2>3. /\ DOMAIN form = DOMAIN job.fields /\ DOMAIN form' = DOMAIN job.fields
          /\ \A f \in DOMAIN job.fields :
                form'[f] = IF f \in DOMAIN values THEN values[f] ELSE OwnValue
      <3>1. /\ form = [f \in DOMAIN job.fields |-> OwnValue]
            /\ DOMAIN values \subseteq DOMAIN job.fields
        BY <2>1 DEF IndInv, FormSoFar, TypeOK
      <3> QED
        BY <1>1, <3>1 DEF WriteForm, Updated
    <2>4. /\ \A f \in DOMAIN job.fields :
                f \in DOMAIN values <=> \E e \in SuppliedEntries : f \in Targets(e)
          /\ \A f \in DOMAIN values :
                \E e \in SuppliedEntries : f \in Targets(e) /\ values[f] = Given(e)[f]
      BY <2>1, <2>2 DEF IndInv, FormSoFar, InForm
    <2>5. SuppliedEntries' = SuppliedEntries
      BY <2>1, JobFacts
    <2>6. TouchedIfSupplied'
      <3> SUFFICES ASSUME NEW f \in DOMAIN job.fields
                   PROVE  form'[f] = OwnValue <=> \A e \in SuppliedEntries : f \notin Targets(e)
        BY <2>3, <2>5 DEF TouchedIfSupplied, Targets
      <3> QED
        BY <2>1, <2>3, <2>4, GivenValues
    <2>7. TickedInOwnState'
      <3> SUFFICES ASSUME NEW f \in DOMAIN job.fields,
                          form'[f][1] = "state", job.fields[f].states # <<>>
                   PROVE  \/ form'[f][2] = "/Off"
                          \/ \E i \in DOMAIN job.fields[f].states :
                                form'[f][2] = job.fields[f].states[i]
        BY <2>1, <2>3 DEF TickedInOwnState
      <3>1. OwnValue[1] = "own"
        BY DEF OwnValue
      <3>2. f \in DOMAIN values
        BY <2>3, <3>1
      <3>3. PICK e \in SuppliedEntries : f \in Targets(e) /\ values[f] = Given(e)[f]
        BY <2>4, <3>2
      <3> QED
        BY <2>1, <2>3, <3>2, <3>3, GivenValues
    <2>8. CombsSpellTheirValue'
      <3> SUFFICES ASSUME NEW e \in SuppliedEntries, e.comb
                   PROVE  \A i \in DOMAIN e.targets : OnlyBox(e, i)' =>
                             form'[e.targets[i]] =
                                IF i <= Characters(job.data[e.key])
                                THEN Character(e.key, i) ELSE NoText
        BY <2>1, <2>5 DEF CombsSpellTheirValue
      <3>1. /\ e.key \in DOMAIN job.data /\ IsList(e.targets)
            /\ Targets(e) \subseteq DOMAIN job.fields
        BY <2>1, JobsAssumption
           DEF SuppliedEntries, Entries, IndInv, EntriesChecked, Undeclared
      <3>2. ASSUME NEW i \in DOMAIN e.targets, OnlyBox(e, i)'
            PROVE  form'[e.targets[i]] =
                      IF i <= Characters(job.data[e.key]) THEN Character(e.key, i) ELSE NoText
        <4> DEFINE f == e.targets[i]
        <4>1. \A d \in SuppliedEntries : \A k \in DOMAIN d.targets :
                 d.targets[k] = f => d = e /\ k = i
          BY <2>5, <3>2 DEF OnlyBox
        <4>2. f \in Targets(e) /\ f \in DOMAIN job.fields /\ f \in DOMAIN values
          BY <2>4, <3>1 DEF Targets
        <4>3. PICK d \in SuppliedEntries : f \in Targets(d) /\ values[f] = Given(d)[f]
          BY <2>4, <4>2
        <4>4. d = e
          BY <4>1, <4>3 DEF Targets
        <4>5. Position(e.targets, f) = i
          <5>1. \A k \in DOMAIN e.targets : e.targets[k] = f <=> k = i
            BY <4>1
          <5>2. i \in Nat
            BY <3>1 DEF IsList
          <5> QED
            BY <5>1, <5>2 DEF Position
        <4>6. form'[f] = CombBox(e.key, job.data[e.key], i)
          BY <2>1, <2>3, <4>2, <4>3, <4>4, <4>5, GivenValues
        <4> QED
          BY <4>6 DEF CombBox
      <3> QED
        BY <3>2
    <2> QED
      BY <2>6, <2>7, <2>8 DEF FormShowsData
  <1>2. CASE Returned
    <2>1. job' = job /\ form' = form /\ verdict' = verdict
      BY <1>2 DEF Returned, vars
    <2> QED
      BY <2>1, JobFacts DEF IndInv, FormShowsData, CombsSpellTheirValue,
             TouchedIfSupplied, TickedInOwnState, OnlyBox, Targets
  <1>3. CASE SaveWorkbook \/ Author
    <2>1. ~IsPdf
      BY <1>3 DEF SaveWorkbook, Author, IndInv, RightEngine, InWorkbook,
             IsXlsx, IsPdf
    <2> QED
      BY <2>1, StepKeeps, JobFacts DEF FormShowsData
  <1>4. CASE ~WriteForm /\ ~Returned /\ ~SaveWorkbook /\ ~Author
    <2>1. pc # "done" => verdict = "none"
      BY DEF IndInv, TypeOK
    <2>2. verdict' # "artifact"
      BY <1>4, <2>1 DEF Next, LoadManifest, Validate, Open, ApplyDefinedName,
             NamesDone, EnterBlock, WriteCell, HideUnusedRows, BlocksDone,
             ApplyCell, ResolveEntry, FieldsDone, Goto, Fail, End
    <2> QED
      BY <2>2 DEF FormShowsData
  <1> QED
    BY <1>1, <1>2, <1>3, <1>4

(* Where each write comes from.                                                *)
LEMMA WritesFrom ==
    /\ \A n \in NamesApplied : \A p \in SingleCells(job.names[n]) : NameWrite(n, p) \in Writes
    /\ \A b \in DOMAIN job.blocks : \A i \in DOMAIN Rows(job.blocks[b]) :
          \A j \in 1..job.blocks[b].width : RowWrite(b, i, j) \in Writes
    /\ \A k \in DOMAIN job.cells : CellWrite(k) \in Writes
  BY DEF Writes, NamesWritten, RowsWritten, CellsWritten

(* A write is a name's, a row's or a cell's, and its rank tells which one.     *)
LEMMA WriteKinds ==
    ASSUME NEW w \in Writes
    PROVE  \/ \E n \in NamesApplied : \E p \in SingleCells(job.names[n]) :
                 w = NameWrite(n, p) /\ w.rank = <<1, n, 0, 0>> /\ w.at = p
           \/ \E b \in DOMAIN job.blocks : \E i \in DOMAIN Rows(job.blocks[b]) :
                 \E j \in 1..job.blocks[b].width :
                    w = RowWrite(b, i, j) /\ w.rank = <<2, b, i, j>>
           \/ \E k \in DOMAIN job.cells : w = CellWrite(k) /\ w.rank = <<3, k, 0, 0>>
  <1>1. \/ \E n \in NamesApplied : \E p \in SingleCells(job.names[n]) : w = NameWrite(n, p)
        \/ \E b \in DOMAIN job.blocks : \E i \in DOMAIN Rows(job.blocks[b]) :
              \E j \in 1..job.blocks[b].width : w = RowWrite(b, i, j)
        \/ \E k \in DOMAIN job.cells : w = CellWrite(k)
    BY DEF Writes, NamesWritten, RowsWritten, CellsWritten
  <1>2. \A n, p : NameWrite(n, p).rank = <<1, n, 0, 0>> /\ NameWrite(n, p).at = p
    BY DEF NameWrite, Rank
  <1>3. \A b, i, j : RowWrite(b, i, j).rank = <<2, b, i, j>>
    BY DEF RowWrite, Rank
  <1>4. \A k : CellWrite(k).rank = <<3, k, 0, 0>>
    BY DEF CellWrite, Rank
  <1> QED
    BY <1>1, <1>2, <1>3, <1>4

Ranks == Nat \X Nat \X Nat \X Nat

(* So ranks are quadruples of numbers, by which any two writes compare.        *)
LEMMA WriteRanks ==
    ASSUME IndInv, job.engine = "xlsx", NEW w \in Writes
    PROVE  /\ w.rank \in Ranks
           /\ \/ /\ w.rank[1] = 1 /\ w.rank[2] \in DOMAIN job.names
                 /\ w.rank[3] = 0 /\ w.rank[4] = 0
              \/ /\ w.rank[1] = 2 /\ w.rank[2] \in DOMAIN job.blocks
                 /\ w.rank[3] \in DOMAIN Rows(job.blocks[w.rank[2]])
                 /\ w.rank[4] \in 1..job.blocks[w.rank[2]].width
              \/ /\ w.rank[1] = 3 /\ w.rank[2] \in DOMAIN job.cells
                 /\ w.rank[3] = 0 /\ w.rank[4] = 0
  <1>1. IsList(job.names) /\ IsList(job.cells)
    BY JobsAssumption DEF IndInv
  <1>2. \A b \in DOMAIN job.blocks :
           /\ b \in Nat
           /\ \A i \in DOMAIN Rows(job.blocks[b]) : i \in Nat
           /\ \A j \in 1..job.blocks[b].width : j \in Nat
    BY BlockShape DEF IsList, SoundBlock
  <1>3. \A n \in NamesApplied : n \in DOMAIN job.names /\ n \in Nat
    BY <1>1 DEF NamesApplied, IsList
  <1>4. \A k \in DOMAIN job.cells : k \in Nat
    BY <1>1 DEF IsList
  <1>5. ASSUME NEW n \in NamesApplied, w.rank = <<1, n, 0, 0>>
        PROVE  /\ w.rank \in Ranks /\ w.rank[1] = 1 /\ w.rank[2] = n
               /\ w.rank[3] = 0 /\ w.rank[4] = 0
    BY <1>3, <1>5 DEF Ranks
  <1>6. ASSUME NEW b \in DOMAIN job.blocks, NEW i \in DOMAIN Rows(job.blocks[b]),
               NEW j \in 1..job.blocks[b].width, w.rank = <<2, b, i, j>>
        PROVE  /\ w.rank \in Ranks /\ w.rank[1] = 2 /\ w.rank[2] = b
               /\ w.rank[3] = i /\ w.rank[4] = j
    BY <1>2, <1>6 DEF Ranks
  <1>7. ASSUME NEW k \in DOMAIN job.cells, w.rank = <<3, k, 0, 0>>
        PROVE  /\ w.rank \in Ranks /\ w.rank[1] = 3 /\ w.rank[2] = k
               /\ w.rank[3] = 0 /\ w.rank[4] = 0
    BY <1>4, <1>7 DEF Ranks
  <1> QED
    BY <1>3, <1>5, <1>6, <1>7, WriteKinds

(* A step that makes the writes of the rank it has come to, and no other,      *)
(* leaves every cell showing the last of the writes made.                      *)
LEMMA SheetWrite ==
    ASSUME IndInv, job.engine = "xlsx", verdict \in {"none", "artifact"}, job' = job,
           Progress \in Ranks,
           \A w \in Writes : Made(w)' <=> Made(w) \/ w.rank = Progress,
           \A p \in Cells :
              \/ grid'[p] = grid[p] /\ \A w \in Writes : ~(w.at = p /\ w.rank = Progress)
              \/ \E w \in Writes : w.at = p /\ w.rank = Progress /\ grid'[p] = w.shown
    PROVE  \A p \in Cells : ShowsLastWrite(p)'
  <1> SUFFICES ASSUME NEW p \in Cells
               PROVE  \/ grid'[p] = Original /\ \A w \in Writes : w.at = p => ~Made(w)'
                      \/ \E w \in Writes :
                            /\ w.at = p /\ Made(w)' /\ grid'[p] = w.shown
                            /\ \A v \in Writes : v.at = p /\ Made(v)' => NotAfter(v.rank, w.rank)
    BY JobFacts DEF ShowsLastWrite
  <1>1. ShowsLastWrite(p)
    BY DEF IndInv, SheetSoFar, IsXlsx
  <1>2. CASE grid'[p] = grid[p] /\ \A w \in Writes : ~(w.at = p /\ w.rank = Progress)
    BY <1>1, <1>2 DEF ShowsLastWrite
  <1>3. ASSUME NEW w \in Writes, w.at = p, w.rank = Progress, grid'[p] = w.shown
        PROVE  \A v \in Writes : v.at = p /\ Made(v)' => NotAfter(v.rank, w.rank)
    <2> SUFFICES ASSUME NEW v \in Writes, Made(v) \/ v.rank = Progress
                 PROVE  NotAfter(v.rank, Progress)
      BY <1>3
    <2>1. v.rank \in Ranks
      BY WriteRanks
    <2>2. Made(v) <=> ~NotAfter(Progress, v.rank)
      BY DEF Made
    <2> QED
      BY <2>1, <2>2 DEF NotAfter, Ranks
  <1> QED
    BY <1>2, <1>3

(* Steps that write nothing pass over no write.                                *)
LEMMA SheetPass ==
    ASSUME IndInv, job.engine = "xlsx", verdict \in {"none", "artifact"}, job' = job,
           grid' = grid, \A w \in Writes : Made(w)' = Made(w)
    PROVE  \A p \in Cells : ShowsLastWrite(p)'
  BY JobFacts DEF IndInv, SheetSoFar, ShowsLastWrite, IsXlsx

(* Every step of a workbook makes the writes of one rank, or passes over       *)
(* none.                                                                       *)
LEMMA SheetStep ==
    ASSUME IndInv, Next
    PROVE  SheetSoFar'
  <1> SUFFICES ASSUME job.engine = "xlsx", verdict' \in {"none", "artifact"}
               PROVE  \A p \in Cells : ShowsLastWrite(p)'
    BY StepKeeps, JobFacts DEF SheetSoFar, IsXlsx
  <1>1. /\ job' = job /\ job \in Jobs /\ DOMAIN grid = Cells
        /\ IsList(job.names) /\ IsList(job.blocks) /\ IsList(job.cells)
        /\ \A b \in DOMAIN job.blocks : /\ IsList(Rows(job.blocks[b]))
                                        /\ job.blocks[b].width \in Nat \ {0}
    BY StepKeeps, BlockShape, JobsAssumption
       DEF IndInv, TypeOK, IsXlsx, SoundBlock
  <1>2. /\ cur[1] \in Nat /\ cur[2] \in Nat /\ cur[3] \in Nat
        /\ cur[1] >= 1 /\ cur[2] >= 1 /\ cur[3] >= 1
        /\ pc # "done" => verdict = "none"
        /\ pc = "blocks" => cur[2] = 1 /\ cur[3] = 1
    BY DEF IndInv, TypeOK, Positive, BlocksChecked
  <1>3. verdict' \notin {"TEMPLATE_NOT_FOUND", "VALIDATION_ERROR", "RENDER_ERROR"}
    OBVIOUS
  <1>4. CASE LoadManifest \/ Validate
    <2>1. pc \in {"load", "gate"} /\ pc' \in {"gate", "open"} /\ grid' = grid
      BY <1>3, <1>4 DEF LoadManifest, Validate, Goto, Fail, End, doc
    <2>2. Progress = <<0, 0, 0, 0>> /\ Progress' = <<0, 0, 0, 0>>
      BY <2>1 DEF Progress, Rank
    <2> QED
      BY <1>1, <1>2, <2>1, <2>2, SheetPass DEF Made
  <1>5. CASE Open
    <2>1. /\ pc = "open" /\ pc' = "names" /\ grid' = grid /\ cur' = <<1, 1, 1>>
      BY <1>2, <1>3, <1>5
         DEF Open, Goto, Fail, End, doc, FirstStep, IsXlsx, IsPdf
    <2>2. Progress = <<0, 0, 0, 0>> /\ Progress' = <<1, 1, 0, 0>>
      BY <2>1 DEF Progress, Rank
    <2>3. ASSUME NEW w \in Writes PROVE Made(w)' = Made(w)
      <3>1. Made(w) = ~NotAfter(Progress, w.rank) /\ Made(w)' = ~NotAfter(Progress', w.rank)
        BY <1>1, JobFacts DEF Made
      <3> QED
        BY <1>1, <1>2, <2>1, <2>2, <3>1, WriteRanks DEF NotAfter, Ranks, IsList
    <2> QED
      BY <1>1, <1>2, <2>1, <2>3, SheetPass
  <1>6. CASE ApplyDefinedName
    <2> DEFINE name == job.names[cur[1]]
    <2>1. /\ pc = "names" /\ pc' = "names" /\ cur' = <<cur[1] + 1, 1, 1>>
          /\ cur[1] \in DOMAIN job.names /\ ~NameFails(name)
          /\ grid' = [p \in Cells |-> IF p \in NameWrites(name)
                                      THEN NameWrite(cur[1], p).shown ELSE grid[p]]
      BY <1>1, <1>3, <1>6 DEF ApplyDefinedName, Goto, Fail, End, NameWrite
    <2>2. Progress = <<1, cur[1], 0, 0>> /\ Progress' = <<1, cur[1] + 1, 0, 0>>
      BY <2>1 DEF Progress, Rank
    <2>3. \A w \in Writes : Made(w)' <=> Made(w) \/ w.rank = Progress
      BY <1>1, <1>2, <2>2, WriteRanks DEF Made, NotAfter, Ranks
    <2>4. \A p : p \in NameWrites(name) =>
             /\ NameWrite(cur[1], p) \in Writes
             /\ NameWrite(cur[1], p).at = p /\ NameWrite(cur[1], p).rank = Progress
      <3>1. NameWrites(name) # {} =>
               cur[1] \in NamesApplied /\ NameWrites(name) = SingleCells(name)
        BY <2>1 DEF NameWrites, SkipsName, NamesApplied, Supplied
      <3>2. \A p \in SingleCells(name) :
               cur[1] \in NamesApplied => NameWrite(cur[1], p) \in Writes
        BY WritesFrom
      <3> QED
        BY <2>2, <3>1, <3>2 DEF NameWrite, Rank
    <2>5. ASSUME NEW w \in Writes, w.rank = Progress
          PROVE  w.at \in NameWrites(name)
      <3>1. w.rank[1] = 1 /\ w.rank[2] = cur[1]
        BY <2>2, <2>5
      <3>2. cur[1] \in NamesApplied /\ w.at \in SingleCells(job.names[cur[1]])
        BY <3>1, WriteKinds
      <3> QED
        BY <3>2 DEF NameWrites, SkipsName, NamesApplied, Supplied
    <2> QED
      BY <1>1, <1>2, <2>1, <2>2, <2>3, <2>4, <2>5, SheetWrite DEF Ranks
  <1>7. CASE NamesDone
    <2>1. /\ pc = "names" /\ pc' = "blocks" /\ grid' = grid
          /\ cur' = <<1, 1, 1>> /\ cur[1] \notin DOMAIN job.names
      BY <1>2, <1>3, <1>7 DEF NamesDone, Goto, Fail, End, doc
    <2>2. Progress = <<1, cur[1], 0, 0>> /\ Progress' = <<2, 1, 0, 0>>
      BY <2>1 DEF Progress, Rank
    <2>3. ASSUME NEW w \in Writes PROVE Made(w)' = Made(w)
      <3>1. Made(w) = ~NotAfter(Progress, w.rank) /\ Made(w)' = ~NotAfter(Progress', w.rank)
        BY <1>1, JobFacts DEF Made
      <3> QED
        BY <1>1, <1>2, <2>1, <2>2, <3>1, WriteRanks DEF NotAfter, Ranks, IsList
    <2> QED
      BY <1>1, <1>2, <2>1, <2>3, SheetPass
  <1>8. CASE EnterBlock
    <2>1. /\ pc = "blocks" /\ pc' = "rows" /\ grid' = grid /\ cur' = cur
      BY <1>2, <1>3, <1>8 DEF EnterBlock, Goto, Fail, End, doc
    <2>2. Progress = <<2, cur[1], 0, 0>> /\ Progress' = <<2, cur[1], cur[2], cur[3]>>
      BY <2>1 DEF Progress, Rank
    <2>3. ASSUME NEW w \in Writes PROVE Made(w)' = Made(w)
      <3>1. Made(w) = ~NotAfter(Progress, w.rank) /\ Made(w)' = ~NotAfter(Progress', w.rank)
        BY <1>1, JobFacts DEF Made
      <3> QED
        BY <1>1, <1>2, <2>1, <2>2, <3>1, WriteRanks DEF NotAfter, Ranks, IsList
    <2> QED
      BY <1>1, <1>2, <2>1, <2>3, SheetPass
  <1>9. CASE WriteCell
    <2> DEFINE block == job.blocks[cur[1]]
               write == RowWrite(cur[1], cur[2], cur[3])
    <2>1. /\ pc = "rows" /\ cur[2] \in DOMAIN Rows(block)
          /\ cur[1] \in DOMAIN job.blocks /\ cur[3] <= block.width
      BY <1>9 DEF WriteCell, IndInv, RowsChecked
    <2>2. Rows(block)[cur[2]] # <<>> /\ Writable(Rows(block)[cur[2]][cur[3]])
      BY <1>3, <1>9 DEF WriteCell, Fail, End
    <2>3. /\ pc' = "rows"
          /\ cur' = IF cur[3] < block.width THEN <<cur[1], cur[2], cur[3] + 1>>
                                            ELSE <<cur[1], cur[2] + 1, 1>>
      BY <1>9, <2>2 DEF WriteCell, Goto
    <2>4. grid' = [grid EXCEPT ![write.at] = write.shown]
      <3>1. write.shown = Shown(NormaliseValue(Rows(block)[cur[2]][cur[3]]),
                                <<"row", cur[1], cur[2], cur[3]>>)
        BY <2>2 DEF RowWrite, Shown, NormaliseValue, Writable
      <3> QED
        BY <1>9, <2>2, <3>1 DEF WriteCell, RowWrite
    <2>5. /\ Progress = <<2, cur[1], cur[2], cur[3]>>
          /\ Progress' = IF cur[3] < block.width THEN <<2, cur[1], cur[2], cur[3] + 1>>
                                                 ELSE <<2, cur[1], cur[2] + 1, 1>>
      BY <2>1, <2>3 DEF Progress, Rank
    <2>6. \A w \in Writes : Made(w)' <=> Made(w) \/ w.rank = Progress
      <3> SUFFICES ASSUME NEW w \in Writes
                   PROVE  Made(w)' <=> Made(w) \/ w.rank = Progress
        OBVIOUS
      <3>1. /\ w.rank \in Ranks
            /\ w.rank[1] = 2 /\ w.rank[2] = cur[1] => w.rank[4] >= 1 /\ w.rank[4] <= block.width
        BY <1>1, WriteRanks DEF Ranks
      <3> QED
        BY <1>1, <1>2, <2>1, <2>5, <3>1 DEF Made, NotAfter, Ranks
    <2>7. write \in Writes /\ write.rank = Progress
      <3>1. cur[3] \in 1..block.width
        BY <1>1, <1>2, <2>1
      <3> QED
        BY <2>1, <2>5, <3>1, WritesFrom DEF RowWrite, Rank
    <2>8. ASSUME NEW w \in Writes, w.rank = Progress
          PROVE  w = write
      BY <2>5, <2>8, WriteKinds
    <2> QED
      BY <1>1, <1>2, <2>1, <2>4, <2>5, <2>6, <2>7, <2>8, SheetWrite DEF Ranks
  <1>10. CASE HideUnusedRows
    <2>1. /\ pc = "rows" /\ pc' = "blocks" /\ grid' = grid /\ cur' = <<cur[1] + 1, 1, 1>>
          /\ cur[1] \in DOMAIN job.blocks /\ cur[2] \notin DOMAIN Rows(job.blocks[cur[1]])
      BY <1>10 DEF HideUnusedRows, Goto, IndInv, RowsChecked
    <2>2. Progress = <<2, cur[1], cur[2], cur[3]>> /\ Progress' = <<2, cur[1] + 1, 0, 0>>
      BY <2>1 DEF Progress, Rank
    <2>3. ASSUME NEW w \in Writes
          PROVE  Made(w)' = Made(w)
      <3>1. /\ w.rank \in Ranks
            /\ w.rank[1] = 2 /\ w.rank[2] = cur[1] => w.rank[3] < cur[2]
            /\ w.rank[1] = 2 => w.rank[3] >= 1
        <4>1. \A i \in DOMAIN Rows(job.blocks[cur[1]]) : i < cur[2]
          BY <1>1, <1>2, <2>1 DEF IsList
        <4>2. \A b \in DOMAIN job.blocks : \A i \in DOMAIN Rows(job.blocks[b]) : i >= 1
          BY <1>1 DEF IsList
        <4> QED
          BY <4>1, <4>2, WriteRanks
      <3> QED
        BY <1>1, <1>2, <2>1, <2>2, <3>1 DEF Made, NotAfter, Ranks
    <2> QED
      BY <1>1, <1>2, <2>1, <2>3, SheetPass
  <1>11. CASE BlocksDone
    <2>1. /\ pc = "blocks" /\ pc' = "cells" /\ grid' = grid
          /\ cur' = <<1, 1, 1>> /\ cur[1] \notin DOMAIN job.blocks
      BY <1>2, <1>3, <1>11 DEF BlocksDone, Goto, Fail, End, doc
    <2>2. Progress = <<2, cur[1], 0, 0>> /\ Progress' = <<3, 1, 0, 0>>
      BY <2>1 DEF Progress, Rank
    <2>3. ASSUME NEW w \in Writes PROVE Made(w)' = Made(w)
      <3>1. Made(w) = ~NotAfter(Progress, w.rank) /\ Made(w)' = ~NotAfter(Progress', w.rank)
        BY <1>1, JobFacts DEF Made
      <3> QED
        BY <1>1, <1>2, <2>1, <2>2, <3>1, WriteRanks DEF NotAfter, Ranks, IsList
    <2> QED
      BY <1>1, <1>2, <2>1, <2>3, SheetPass
  <1>12. CASE ApplyCell
    <2> DEFINE write == CellWrite(cur[1])
    <2>1. /\ pc = "cells" /\ pc' = "cells" /\ cur' = <<cur[1] + 1, 1, 1>>
          /\ cur[1] \in DOMAIN job.cells /\ grid' = [grid EXCEPT ![write.at] = write.shown]
      BY <1>3, <1>12 DEF ApplyCell, Goto, Fail, End, CellWrite
    <2>2. Progress = <<3, cur[1], 0, 0>> /\ Progress' = <<3, cur[1] + 1, 0, 0>>
      BY <2>1 DEF Progress, Rank
    <2>3. \A w \in Writes : Made(w)' <=> Made(w) \/ w.rank = Progress
      BY <1>1, <1>2, <2>2, WriteRanks DEF Made, NotAfter, Ranks
    <2>4. write \in Writes /\ write.rank = Progress
      BY <2>1, <2>2, WritesFrom DEF CellWrite, Rank
    <2>5. ASSUME NEW w \in Writes, w.rank = Progress
          PROVE  w = write
      BY <2>2, <2>5, WriteKinds
    <2> QED
      BY <1>1, <1>2, <2>1, <2>2, <2>3, <2>4, <2>5, SheetWrite DEF Ranks
  <1>13. CASE SaveWorkbook
    <2>1. /\ pc = "cells" /\ pc' = "done" /\ grid' = grid /\ cur[1] \notin DOMAIN job.cells
      BY <1>2, <1>3, <1>13 DEF SaveWorkbook, Goto, Fail, End, doc
    <2>2. Progress = <<3, cur[1], 0, 0>> /\ Progress' = <<4, 0, 0, 0>>
      BY <2>1 DEF Progress, Rank
    <2>3. ASSUME NEW w \in Writes PROVE Made(w)' = Made(w)
      <3>1. Made(w) = ~NotAfter(Progress, w.rank) /\ Made(w)' = ~NotAfter(Progress', w.rank)
        BY <1>1, JobFacts DEF Made
      <3> QED
        BY <1>1, <1>2, <2>1, <2>2, <3>1, WriteRanks DEF NotAfter, Ranks, IsList
    <2> QED
      BY <1>1, <1>2, <2>1, <2>3, SheetPass
  <1>14. CASE Returned
    <2>1. pc' = pc /\ cur' = cur /\ grid' = grid /\ verdict' = verdict
      BY <1>14 DEF Returned, vars
    <2>2. \A w \in Writes : Made(w)' = Made(w)
      BY <2>1 DEF Made, Progress
    <2> QED
      BY <1>1, <2>1, <2>2, SheetPass
  <1>15. CASE ResolveEntry \/ FieldsDone \/ WriteForm \/ Author
    BY <1>15 DEF ResolveEntry, FieldsDone, WriteForm, Author, IndInv,
           RightEngine, InForm, IsXlsx, IsPdf
  <1> QED
    BY <1>4, <1>5, <1>6, <1>7, <1>8, <1>9, <1>10, <1>11, <1>12, <1>13, <1>14,
       <1>15 DEF Next

-------------------------------------------------------------------------------
(* Before the render nothing has been looked at or written.                    *)
LEMMA InitInv == Init => IndInv
  <1> SUFFICES ASSUME Init PROVE IndInv
    OBVIOUS
  <1>1. pc = "load" /\ verdict = "none" /\ cur = <<1, 1, 1>> /\ job \in Jobs
    BY DEF Init
  <1>2. TypeOK
    BY DEF Init, TypeOK, Steps, Verdicts
  <1>3. Positive /\ RightEngine /\ HeadChecked /\ NamesChecked /\ BlocksChecked
    BY <1>1 DEF Positive, RightEngine, HeadChecked, NamesChecked,
           BlocksChecked, Opened, InWorkbook, InForm
  <1>4. /\ RowsChecked /\ CellsChecked /\ EntriesChecked
        /\ VerdictHasCause /\ FaultyNeverRenders /\ FormShowsData
    BY <1>1 DEF RowsChecked, CellsChecked, EntriesChecked, VerdictHasCause,
           FaultyNeverRenders, FormShowsData
  <1>5. StaysInBand
    BY DEF Init, StaysInBand, Original
  <1>6. FormSoFar
    BY DEF Init, FormSoFar, InForm
  <1>7. SheetSoFar
    <2>1. Progress = <<0, 0, 0, 0>>
      BY <1>1 DEF Progress, Rank
    <2>2. \A w \in Writes : ~Made(w)
      BY <2>1, WriteKinds DEF Made, NotAfter
    <2> QED
      BY <2>2 DEF Init, SheetSoFar, ShowsLastWrite
  <1> QED
    BY <1>1, <1>2, <1>3, <1>4, <1>5, <1>6, <1>7 DEF IndInv

(* A step that changes nothing keeps what has been established.                *)
LEMMA StutterInv ==
    ASSUME IndInv, UNCHANGED vars
    PROVE  IndInv'
  <1>1. /\ job' = job /\ pc' = pc /\ cur' = cur /\ grid' = grid /\ hidden' = hidden
        /\ values' = values /\ form' = form /\ verdict' = verdict
    BY DEF vars
  <1>2. job' \in Jobs /\ TypeOK' /\ Positive' /\ RightEngine' /\ HeadChecked'
    BY <1>1, JobFacts DEF IndInv, TypeOK, Positive, RightEngine, HeadChecked
  <1>3. NamesChecked' /\ BlocksChecked' /\ CellsChecked' /\ EntriesChecked'
    BY <1>1, JobFacts, GridFacts
       DEF IndInv, NamesChecked, BlocksChecked, CellsChecked, EntriesChecked
  <1>4. RowsChecked'
    BY <1>1, JobFacts DEF IndInv, RowsChecked
  <1>5. VerdictHasCause' /\ FaultyNeverRenders'
    BY <1>1, JobFacts, GridFacts
       DEF IndInv, VerdictHasCause, FaultyNeverRenders
  <1>6. StaysInBand'
    <2>1. IsXlsx' = IsXlsx /\ Blocks' = Blocks
          /\ \A block : Rows(block)' = Rows(block)
      BY <1>1, JobFacts
    <2> QED
      BY <1>1, <2>1 DEF IndInv, StaysInBand
  <1>7. FormSoFar'
    <2>1. SuppliedSoFar' = SuppliedSoFar
      BY <1>1 DEF SuppliedSoFar, ResolvedEntries, Supplied
    <2> QED
      BY <1>1, <2>1, JobFacts DEF IndInv, FormSoFar, Targets
  <1>8. FormShowsData'
    BY <1>1, JobFacts DEF IndInv, FormShowsData, CombsSpellTheirValue,
           TouchedIfSupplied, TickedInOwnState, OnlyBox, Targets
  <1>9. SheetSoFar'
    <2>1. \A w \in Writes : Made(w)' = Made(w)
      BY <1>1 DEF Made, Progress
    <2> QED
      BY <1>1, <2>1, JobFacts, SheetPass DEF SheetSoFar, IsXlsx
  <1> QED
    BY <1>2, <1>3, <1>4, <1>5, <1>6, <1>7, <1>8, <1>9 DEF IndInv

(* So each step keeps the invariant.                                           *)
LEMMA StepInv == IndInv /\ [Next]_vars => IndInv'
  <1>1. ASSUME IndInv, Next PROVE IndInv'
    <2>1. job' \in Jobs
      BY <1>1, StepKeeps DEF IndInv
    <2>2. Positive' /\ RightEngine'
      BY <1>1, Control
    <2> QED
      BY <1>1, <2>1, <2>2, TypeStep, HeadStep, NamesStep, BlocksStep, RowsStep,
         CellsStep, EntriesStep, VerdictStep, FaultyStep, BandStep, FormStep,
         FormShowsStep, SheetStep DEF IndInv
  <1> QED
    BY <1>1, StutterInv

(* It holds throughout.                                                        *)
LEMMA Invariance == Spec => []IndInv
  BY InitInv, StepInv, PTL DEF Spec

(* Every render stays well formed: the workbook keeps its cells, the form its  *)
(* fields, and a verdict is there exactly when the render is over.             *)
THEOREM TypeCorrect == Spec => []TypeOK
  <1>1. IndInv => TypeOK
    BY DEF IndInv
  <1> QED
    BY <1>1, Invariance, PTL

(* Whatever else is wrong with a job, the error that ends its render is of the *)
(* class of a fault the job has: what the dispatcher acks as permanent is not  *)
(* curable by another render of the same bundle and data.                      *)
THEOREM ErrorsNameAFault == Spec => []VerdictHasCause
  <1>1. IndInv => VerdictHasCause
    BY DEF IndInv
  <1> QED
    BY <1>1, Invariance, PTL

(* No artifact leaves the worker for a job with a fault that the code looks    *)
(* for, whichever of its checks the fault should have met; and none shows a    *)
(* comb value cut short if the manifest makes it a string of bounded length.   *)
THEOREM NoFaultyArtifact == Spec => []FaultyNeverRenders
  <1>1. IndInv => FaultyNeverRenders
    BY DEF IndInv
  <1> QED
    BY <1>1, Invariance, PTL

(* A block fills its own band, merged ranges aside, and hides no row outside   *)
(* it and none it was given data for.                                          *)
THEOREM BlocksKeepToTheirBand == Spec => []StaysInBand
  <1>1. IndInv => StaysInBand
    BY DEF IndInv
  <1> QED
    BY <1>1, Invariance, PTL

(* A finished form spells its comb values, whatever JSON they are, as far as   *)
(* the boxes reach, keeps its own values where nothing was supplied, and ticks *)
(* a box in a state of its own.                                                *)
THEOREM FormsShowTheirData == Spec => []FormShowsData
  <1>1. IndInv => FormShowsData
    BY DEF IndInv
  <1> QED
    BY <1>1, Invariance, PTL

(* Every cell of a finished workbook shows the last of the writes that land on *)
(* it, by the precedence the renderer's documentation gives, and an untouched  *)
(* one what the template had.                                                  *)
THEOREM LaterWritesWin == Spec => []LastWriteWins
  <1>1. IndInv => LastWriteWins
    <2> SUFFICES ASSUME IndInv, IsXlsx, verdict = "artifact", NEW p \in Cells
                 PROVE  LET here == {w \in Writes : w.at = p} IN
                        IF here = {} THEN grid[p] = Original
                        ELSE \E w \in here : /\ grid[p] = w.shown
                                             /\ \A v \in here : NotAfter(v.rank, w.rank)
      BY DEF LastWriteWins
    <2>1. ShowsLastWrite(p)
      BY DEF IndInv, SheetSoFar
    <2>2. \A w \in Writes : Made(w)
      <3>1. pc = "done" /\ job.engine = "xlsx"
        BY DEF IndInv, TypeOK, IsXlsx
      <3>2. Progress = <<4, 0, 0, 0>>
        BY <3>1 DEF Progress, Rank
      <3> QED
        BY <3>2, WriteKinds DEF Made, NotAfter
    <2> QED
      BY <2>1, <2>2 DEF ShowsLastWrite
  <1> QED
    BY <1>1, Invariance, PTL
===============================================================================
