------------------------------ MODULE Renderers ------------------------------
(* One render, from the manifest to the artifact: the manifest validators of   *)
(* domain/models.py, the schema gate in front of the renderers, and the four   *)
(* renderers of adapters/renderers.  A render is a sequence of writes into a   *)
(* template, any of which may end it with one of three errors; a job is a      *)
(* template together with a request's data.  Renders share nothing, so there   *)
(* is one at a time.                                                           *)
(*                                                                             *)
(* A job has engine, fmt, entry ("ok", "missing" or outside the bundle,        *)
(* "corrupt" file), data (a function from the keys supplied to values [kind,   *)
(* len, rows]) and, of its required_fields, the keys required, the maxItems or *)
(* maxLength limit of each key (0 for none) and the keys whose type must be    *)
(* strings; an xlsx job has names, blocks, cells and merged, a pdf-form job    *)
(* fields and mapping, the others the keys the template uses.                  *)
EXTENDS XlsxSheet, PdfForm

CONSTANTS
    Jobs,   \* the jobs considered
    Cells   \* the cells of a workbook

IsList(s) == Len(s) \in Nat /\ DOMAIN s = 1..Len(s)

(* A block has a column (models.py, min_length=1), and the band it reserves is *)
(* on the sheet.                                                               *)
SoundBlock(block, limit) ==
    /\ block.width \in Nat \ {0} /\ block.max_rows \in Nat /\ limit[block.source] \in Nat
    /\ block.anchor.kind \in {"cell", "both", "undeclared", "unresolvable"}
    /\ block.anchor.kind = "cell" =>
          /\ block.anchor.at[2] \in Nat
          /\ \A i \in 1..BlockCapacity(block, limit), j \in 1..block.width :
                BlockCell(block, i, j) \in Cells

(* What a pdf-form request's JSON values are, and which of them are strings.   *)
Strings == {"text", "ticked"}
PdfKinds == Strings \cup {"null", "true", "false", "number", "zero", "structure", "hollow"}

(* What a job's manifest and data are made of, beyond what the code checks.    *)
ASSUME JobsAssumption ==
    \A j \in Jobs :
        /\ j.engine = "xlsx" =>
              /\ IsList(j.names) /\ IsList(j.blocks) /\ IsList(j.cells)
              /\ \A key \in DOMAIN j.data :
                    j.data[key].kind = "list" => IsList(j.data[key].rows)
              /\ \A b \in DOMAIN j.blocks : SoundBlock(j.blocks[b], j.limit)
        /\ j.engine = "pdf-form" =>
              /\ IsList(j.mapping)
              /\ \A e \in DOMAIN j.mapping : IsList(j.mapping[e].targets)
              /\ \A key \in DOMAIN j.data :
                    j.data[key].kind \in PdfKinds /\ j.data[key].len \in Nat
              /\ \A f \in DOMAIN j.fields : j.fields[f].states \in Seq(STRING)

VARIABLES
    job,
    pc,
    cur,      \* <<position of the loop, row, column>>
    grid,     \* xlsx: what each cell shows
    hidden,   \* xlsx: hidden rows, <<sheet, row>>
    values,   \* pdf-form: the values resolved so far
    form,     \* pdf-form: what each field shows
    verdict   \* "none" until the render returns or raises

vars == <<job, pc, cur, grid, hidden, values, form, verdict>>
doc == <<grid, hidden, values, form>>

Verdicts == {"artifact", "TEMPLATE_NOT_FOUND", "VALIDATION_ERROR", "RENDER_ERROR"}
Steps == {"load", "gate", "open", "names", "blocks", "rows", "cells", "fields",
          "write", "author", "done"}

IsXlsx == job.engine = "xlsx"
IsPdf == job.engine = "pdf-form"

TypeOK ==
    /\ pc \in Steps /\ verdict \in Verdicts \cup {"none"}
    /\ cur \in Nat \X Nat \X Nat
    /\ IsXlsx => DOMAIN grid = Cells /\ hidden \subseteq {<<p[1], p[2]>> : p \in Cells}
    /\ IsPdf => DOMAIN form = DOMAIN job.fields /\ DOMAIN values \subseteq DOMAIN form
    /\ pc = "done" <=> verdict # "none"

Init ==
    /\ job \in Jobs
    /\ pc = "load" /\ cur = <<1, 1, 1>> /\ verdict = "none"
    /\ grid = [p \in IF IsXlsx THEN Cells ELSE {} |-> Original]
    /\ hidden = {}
    /\ values = <<>>
    /\ form = [f \in IF IsPdf THEN DOMAIN job.fields ELSE {} |-> OwnValue]

-------------------------------------------------------------------------------
Goto(step, at) == pc' = step /\ cur' = at /\ UNCHANGED <<job, verdict>>
End(v) == pc' = "done" /\ verdict' = v /\ UNCHANGED <<job, cur>>
Fail(code) == End(code) /\ UNCHANGED doc

Supplied(key) == key \in DOMAIN job.data
Sources == {job.blocks[b].source : b \in DOMAIN job.blocks}

(* Manifest.model_validate_json in the template store.                         *)
ManifestLoads ==
    IsXlsx => \A b \in DOMAIN job.blocks :
                 /\ BlockCapacity(job.blocks[b], job.limit) # 0
                 /\ job.blocks[b].anchor.kind # "both"

LoadManifest ==
    /\ pc = "load"
    /\ IF ManifestLoads THEN Goto("gate", cur) /\ UNCHANGED doc
                        ELSE Fail("TEMPLATE_NOT_FOUND")

(* The JSON Schema gate, as far as presence, sizes and "type": "string" go.    *)
(* maxItems speaks of an xlsx job's lists, maxLength of strings: neither binds *)
(* any other value.                                                            *)
Size(v) == CASE v.kind = "list" -> Len(v.rows) [] v.kind \in Strings -> v.len
             [] OTHER -> 0
TooLong(key) == job.limit[key] # 0 /\ Size(job.data[key]) > job.limit[key]
ViolatesSchema ==
    \/ ~(job.required \subseteq DOMAIN job.data)
    \/ \E key \in DOMAIN job.data :
           TooLong(key) \/ (key \in job.strings /\ job.data[key].kind \notin Strings)

Validate ==
    /\ pc = "gate"
    /\ IF ViolatesSchema THEN Fail("VALIDATION_ERROR") ELSE Goto("open", cur) /\ UNCHANGED doc

(* The head of each renderer's render and _render; jinja-html looks at the     *)
(* format only after rendering.                                                *)
Produces(engine) ==
    CASE engine = "xlsx" -> {"xlsx"} [] engine = "docx" -> {"docx"}
      [] engine = "pdf-form" -> {"pdf"} [] OTHER -> {"html", "pdf"}
WrongFormat == job.fmt \notin Produces(job.engine)

(* resolve_template_file: no such file, or one outside the bundle.             *)
ResolveFails == job.entry = "missing"

FirstStep == CASE IsXlsx -> "names" [] IsPdf -> "fields" [] OTHER -> "author"

Open ==
    /\ pc = "open"
    /\ IF WrongFormat /\ job.engine # "jinja-html" THEN Fail("RENDER_ERROR")
       ELSE IF ResolveFails THEN Fail("TEMPLATE_NOT_FOUND")
       ELSE IF job.entry = "corrupt" THEN Fail("RENDER_ERROR")
       ELSE IF IsPdf /\ DOMAIN job.fields = {} THEN Fail("TEMPLATE_NOT_FOUND")
       ELSE Goto(FirstStep, <<1, 1, 1>>) /\ UNCHANGED doc

-------------------------------------------------------------------------------
(* xlsx.  _apply_defined_names, one name [key, dests] at a time.               *)
SkipsUnsupplied(name) == ~Supplied(name.key)
SkipsName(name) == ~Supplied(name.key) \/ name.key \in Sources

SingleCells(name) == {name.dests[i] : i \in DOMAIN name.dests} \ {RangeRef}

NameWrites(name) == IF SkipsName(name) THEN {} ELSE SingleCells(name)
NameFails(name) ==
    \E p \in NameWrites(name) : ~Assignable(job.merged, grid, p)
                                \/ ~Writable(job.data[name.key].kind)

ApplyDefinedName ==
    LET n == cur[1]
        name == job.names[n] IN
    /\ pc = "names" /\ n \in DOMAIN job.names
    /\ IF NameFails(name) THEN Fail("RENDER_ERROR") ELSE
         /\ grid' = [p \in DOMAIN grid |->
                        IF p \in NameWrites(name)
                        THEN Shown(job.data[name.key].kind, <<"name", n, 0, 0>>) ELSE grid[p]]
         /\ Goto("names", <<n + 1, 1, 1>>)
         /\ UNCHANGED <<hidden, values, form>>

NamesDone ==
    /\ pc = "names" /\ cur[1] \notin DOMAIN job.names
    /\ Goto("blocks", <<1, 1, 1>>)
    /\ UNCHANGED doc

(* _apply_blocks.  A falsy value counts as no rows; a row that is no object is *)
(* <<>>, any other lists the kind of value of each column.                     *)
SourceValue(block) ==
    IF Supplied(block.source) THEN job.data[block.source]
    ELSE [kind |-> "null", len |-> 0, rows |-> <<>>]
NotAList(block) == SourceValue(block).kind \notin {"list", "null", "empty"}
Rows(block) == IF SourceValue(block).kind = "list" THEN SourceValue(block).rows ELSE <<>>

Overflows(block) == Len(Rows(block)) > BlockCapacity(block, job.limit)

EnterBlock ==
    LET block == job.blocks[cur[1]] IN
    /\ pc = "blocks" /\ cur[1] \in DOMAIN job.blocks
    /\ IF NotAList(block) \/ Overflows(block) \/ block.anchor.kind = "undeclared"
       THEN Fail("VALIDATION_ERROR")
       ELSE IF block.anchor.kind = "unresolvable" THEN Fail("RENDER_ERROR")
       ELSE Goto("rows", cur) /\ UNCHANGED doc

WriteCell ==
    LET block == job.blocks[cur[1]]
        row == Rows(block)[cur[2]]
        kind == NormaliseValue(row[cur[3]]) IN
    /\ pc = "rows" /\ cur[2] \in DOMAIN Rows(block)
    /\ IF row = <<>> \/ ~Writable(row[cur[3]]) THEN Fail("RENDER_ERROR") ELSE
         /\ grid' = [grid EXCEPT ![Landing(job.merged, BlockCell(block, cur[2], cur[3]))] =
                        Shown(kind, <<"row", cur[1], cur[2], cur[3]>>)]
         /\ Goto("rows", IF cur[3] < block.width THEN <<cur[1], cur[2], cur[3] + 1>>
                                                 ELSE <<cur[1], cur[2] + 1, 1>>)
         /\ UNCHANGED <<hidden, values, form>>

HideUnusedRows ==
    LET block == job.blocks[cur[1]] IN
    /\ pc = "rows" /\ cur[2] \notin DOMAIN Rows(block)
    /\ hidden' = hidden \cup IF block.hide THEN UnusedRows(block, Rows(block), job.limit)
                                           ELSE {}
    /\ Goto("blocks", <<cur[1] + 1, 1, 1>>)
    /\ UNCHANGED <<grid, values, form>>

BlocksDone ==
    /\ pc = "blocks" /\ cur[1] \notin DOMAIN job.blocks
    /\ Goto("cells", <<1, 1, 1>>)
    /\ UNCHANGED doc

(* _apply_cells, in the order of data["cells"], each [ref, kind]; data["cells"]*)
(* that is no mapping fails the same way as a bad reference.                   *)
ApplyCell ==
    LET cell == job.cells[cur[1]] IN
    /\ pc = "cells" /\ cur[1] \in DOMAIN job.cells
    /\ IF ~Assignable(job.merged, grid, cell.ref) \/ ~Writable(cell.kind)
       THEN Fail("RENDER_ERROR") ELSE
         /\ grid' = [grid EXCEPT ![cell.ref] = Shown(cell.kind, <<"cell", cur[1], 0, 0>>)]
         /\ Goto("cells", <<cur[1] + 1, 1, 1>>)
         /\ UNCHANGED <<hidden, values, form>>

SaveWorkbook ==
    /\ pc = "cells" /\ cur[1] \notin DOMAIN job.cells
    /\ End("artifact")
    /\ UNCHANGED doc

-------------------------------------------------------------------------------
(* pdf-form.  _resolve_values, one entry of the mapping at a time: whether the *)
(* PDF declares its fields is checked whether or not the key was supplied.     *)
Targets(entry) == {entry.targets[i] : i \in DOMAIN entry.targets}

UndeclaredIfSupplied(entry) ==
    Supplied(entry.key) /\ ~(Targets(entry) \subseteq DOMAIN job.fields)
UndeclaredFirstBox(entry) ==
    entry.targets # <<>> /\ Head(entry.targets) \notin DOMAIN job.fields
Undeclared(entry) == ~(Targets(entry) \subseteq DOMAIN job.fields)

ResolveEntry ==
    LET entry == job.mapping[cur[1]] IN
    /\ pc = "fields" /\ cur[1] \in DOMAIN job.mapping
    /\ IF Undeclared(entry) THEN Fail("TEMPLATE_NOT_FOUND") ELSE
         /\ values' = IF Supplied(entry.key)
                      THEN Updated(values,
                                   EntryValues(job.fields, entry, job.data[entry.key]))
                      ELSE values
         /\ Goto("fields", <<cur[1] + 1, 1, 1>>)
         /\ UNCHANGED <<grid, hidden, form>>

FieldsDone ==
    /\ pc = "fields" /\ cur[1] \notin DOMAIN job.mapping
    /\ Goto("write", cur)
    /\ UNCHANGED doc

(* A clone of the PDF with the resolved values on every page.                  *)
WriteForm ==
    /\ pc = "write"
    /\ form' = Updated(form, values)
    /\ End("artifact")
    /\ UNCHANGED <<grid, hidden, values>>

-------------------------------------------------------------------------------
(* jinja-html and docx.  StrictUndefined: a key the template uses and the      *)
(* request does not supply is an error, not a blank.                           *)
UndefinedKeys == job.uses \ DOMAIN job.data

Author ==
    /\ pc = "author"
    /\ End(IF UndefinedKeys # {} \/ WrongFormat THEN "RENDER_ERROR" ELSE "artifact")
    /\ UNCHANGED doc

(* The render has returned or raised; nothing follows.                         *)
Returned == pc = "done" /\ UNCHANGED vars

Next ==
    \/ LoadManifest \/ Validate \/ Open
    \/ ApplyDefinedName \/ NamesDone \/ EnterBlock \/ WriteCell \/ HideUnusedRows
    \/ BlocksDone \/ ApplyCell \/ SaveWorkbook
    \/ ResolveEntry \/ FieldsDone \/ WriteForm
    \/ Author \/ Returned

Spec == Init /\ [][Next]_vars

-------------------------------------------------------------------------------
(* What can be wrong with a job, stated without reference to the order in      *)
(* which the code looks.  A template fault and a data fault stay as they are   *)
(* however often the same bundle is rendered with the same data.               *)
Blocks == {job.blocks[b] : b \in DOMAIN job.blocks}
Entries == {job.mapping[e] : e \in DOMAIN job.mapping}

TemplateFault ==
    \/ job.entry = "missing"
    \/ IsXlsx /\ \E b \in Blocks : \/ b.max_rows = 0 /\ job.limit[b.source] = 0
                                   \/ b.anchor.kind = "both"
    \/ IsPdf /\ \/ DOMAIN job.fields = {}
                \/ \E e \in Entries : \E f \in Targets(e) : f \notin DOMAIN job.fields

DataFault ==
    \/ \E key \in job.required : key \notin DOMAIN job.data
    \/ \E key \in DOMAIN job.data : TooLong(key)
    \/ \E key \in job.strings \cap DOMAIN job.data : job.data[key].kind \notin Strings
    \/ IsXlsx /\ \E b \in Blocks :
           \/ NotAList(b)
           \/ b.max_rows # 0 /\ Len(Rows(b)) > b.max_rows
           \/ b.anchor.kind = "undeclared"

NameFault(name) ==
    /\ name.key \in DOMAIN job.data \ Sources
    /\ \E p \in SingleCells(name) : \/ ~Assignable(job.merged, grid, p)
                                    \/ ~Writable(job.data[name.key].kind)
RowFault(block, i) ==
    Rows(block)[i] = <<>> \/ \E j \in 1..block.width : ~Writable(Rows(block)[i][j])
CellFault(cell) == ~Assignable(job.merged, grid, cell.ref) \/ ~Writable(cell.kind)

RenderFault ==
    \/ WrongFormat \/ job.entry = "corrupt"
    \/ IsXlsx /\ \/ \E n \in DOMAIN job.names : NameFault(job.names[n])
                 \/ \E b \in Blocks : \/ b.anchor.kind = "unresolvable"
                                      \/ \E i \in DOMAIN Rows(b) : RowFault(b, i)
                 \/ \E k \in DOMAIN job.cells : CellFault(job.cells[k])
    \/ ~IsXlsx /\ ~IsPdf /\ \E key \in job.uses : key \notin DOMAIN job.data

(* domain/errors.py: a permanent error is one no retry can cure, and the       *)
(* dispatcher acks it.  Whatever else is wrong with the job, the verdict names *)
(* a fault the job has, of the class the dispatcher will take it for.  (It is  *)
(* no promise about RENDER_ERROR: a value that openpyxl refuses, or a corrupt  *)
(* template, is retried although a retry cannot help.)                         *)
VerdictHasCause ==
    /\ verdict = "TEMPLATE_NOT_FOUND" => TemplateFault
    /\ verdict = "VALIDATION_ERROR" => DataFault
    /\ verdict = "RENDER_ERROR" => RenderFault

(* A comb value with more characters than boxes, which the form would show cut *)
(* short, and a manifest that rules it out: required_fields says of the key    *)
(* that it is a string, and no longer than the boxes.                          *)
SuppliedEntries == {e \in Entries : e.key \in DOMAIN job.data}
CutShort(e) == e.comb /\ Characters(job.data[e.key]) > Len(e.targets)
BoundsString(e) == e.key \in job.strings /\ job.limit[e.key] \in 1..Len(e.targets)
CombsFit == IsPdf => \A e \in SuppliedEntries : CutShort(e) => ~BoundsString(e)

(* A fault in one part of the template or the data never lets out an artifact  *)
(* made from the rest, mapped fields that this request's data does not touch   *)
(* included.  The code has one fault it does not look for, by its own account: *)
(* a comb value longer than its boxes is "truncated from the right, silently". *)
(* That is seen in an artifact only of a manifest that does not rule it out.   *)
(* The code's account has it that to "declare its length in required_fields"   *)
(* does; but maxLength lets every value pass that is no string, and str()      *)
(* makes a string of it afterwards.                                            *)
FaultyNeverRenders ==
    verdict = "artifact" => ~TemplateFault /\ ~DataFault /\ ~RenderFault /\ CombsFit

-------------------------------------------------------------------------------
(* The writes a workbook should see, by precedence: explicit cells over        *)
(* blocks, later blocks and rows over earlier ones, blocks over defined names. *)
Rank(phase, n, i, j) == <<phase, n, i, j>>
NotAfter(r, s) ==
    \/ r[1] < s[1]
    \/ r[1] = s[1] /\ \/ r[2] < s[2]
                      \/ r[2] = s[2] /\ \/ r[3] < s[3]
                                        \/ r[3] = s[3] /\ r[4] <= s[4]

NameWrite(n, p) ==
    [rank |-> Rank(1, n, 0, 0), at |-> p,
     shown |-> Shown(job.data[job.names[n].key].kind, <<"name", n, 0, 0>>)]
RowWrite(b, i, j) ==
    [rank |-> Rank(2, b, i, j),
     at |-> Landing(job.merged, BlockCell(job.blocks[b], i, j)),
     shown |-> IF Rows(job.blocks[b])[i][j] = "scalar" THEN <<"row", b, i, j>> ELSE Cleared]
CellWrite(k) ==
    [rank |-> Rank(3, k, 0, 0), at |-> job.cells[k].ref,
     shown |-> Shown(job.cells[k].kind, <<"cell", k, 0, 0>>)]

NamesApplied == {n \in DOMAIN job.names : job.names[n].key \in DOMAIN job.data \ Sources}
NamesWritten ==
    UNION {{NameWrite(n, p) : p \in SingleCells(job.names[n])} : n \in NamesApplied}
RowsWritten ==
    UNION {UNION {{RowWrite(b, i, j) : j \in 1..job.blocks[b].width} :
                     i \in DOMAIN Rows(job.blocks[b])} : b \in DOMAIN job.blocks}
CellsWritten == {CellWrite(k) : k \in DOMAIN job.cells}
Writes == NamesWritten \cup RowsWritten \cup CellsWritten

(* The precedence the module's docstring gives ("applied last so it wins",     *)
(* "blocks own those keys"), merged cells and blocks that overlap included:    *)
(* every cell of a finished workbook shows the last of the writes that land on *)
(* it, and an untouched one what the template had.  In a block, "" and an      *)
(* absent key both clear the cell.                                             *)
LastWriteWins ==
    IsXlsx /\ verdict = "artifact" => \A p \in Cells :
        LET here == {w \in Writes : w.at = p} IN
        IF here = {} THEN grid[p] = Original
        ELSE \E w \in here : grid[p] = w.shown /\ \A v \in here : NotAfter(v.rank, w.rank)

(* "A band the template already provisions": a block shows a value only inside *)
(* its own capacity, or at the head of a merged range that reaches into it,    *)
(* and hides no row outside its band and none it was given data for.           *)
StaysInBand ==
    IsXlsx =>
        /\ \A p \in Cells : grid[p][1] = "row" =>
              LET block == job.blocks[grid[p][2]] IN
              \E i \in 1..BlockCapacity(block, job.limit), j \in 1..block.width :
                  \/ p = BlockCell(block, i, j)
                  \/ \E m \in job.merged : p = TopLeft(m) /\ Covers(m, BlockCell(block, i, j))
        /\ \A h \in hidden : \E block \in Blocks :
              /\ h[1] = block.anchor.at[1]
              /\ h[2] >= block.anchor.at[2] + Len(Rows(block))
              /\ h[2] < block.anchor.at[2] + BlockCapacity(block, job.limit)

(* src/README.md: "Unused rows are hidden, not deleted".                       *)
HiddenRowsAreUnused ==
    IsXlsx /\ verdict = "artifact" =>
        \A p \in Cells : grid[p][1] = "row" => <<p[1], p[2]>> \notin hidden

-------------------------------------------------------------------------------
OnlyBox(e, i) ==
    \A d \in SuppliedEntries : \A k \in DOMAIN d.targets :
        d.targets[k] = e.targets[i] => d = e /\ k = i

(* The boxes of a comb spell its value from the left, whatever JSON it is and  *)
(* as far as they reach, and the rest are blank.                               *)
CombsSpellTheirValue ==
    \A e \in SuppliedEntries : e.comb =>
        \A i \in DOMAIN e.targets : OnlyBox(e, i) =>
            form[e.targets[i]] = IF i <= Characters(job.data[e.key])
                                 THEN Character(e.key, i) ELSE NoText

(* An unmapped or unsupplied field is left untouched, and what is supplied     *)
(* replaces the form's own value, null and false included.                     *)
TouchedIfSupplied ==
    \A f \in DOMAIN form :
        form[f] = OwnValue <=> \A e \in SuppliedEntries : f \notin Targets(e)

(* A checkbox is in a state that this PDF declares for it.                     *)
TickedInOwnState ==
    \A f \in DOMAIN form :
        form[f][1] = "state" /\ job.fields[f].states # <<>> =>
            form[f][2] = "/Off" \/ \E i \in DOMAIN job.fields[f].states :
                                      form[f][2] = job.fields[f].states[i]

(* pdf_form.py on what a filled form shows: "a shorter value never leaves      *)
(* stale digits behind", an unsupplied field keeps "the form's own value", and *)
(* "a form using /Oui, /Yes or /1 needs no manifest change".                   *)
FormShowsData ==
    IsPdf /\ verdict = "artifact" =>
        CombsSpellTheirValue /\ TouchedIfSupplied /\ TickedInOwnState
===============================================================================
