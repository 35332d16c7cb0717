------------------------------ MODULE XlsxSheet ------------------------------
(* The pure part of adapters/renderers/xlsx.py: where a write lands in a       *)
(* workbook, what value it leaves there, and which region a block owns.        *)
(*                                                                             *)
(* A workbook is a function from cells <<sheet, row, column>> to what they     *)
(* show.  Values are tagged by where they come from, which is all that can be  *)
(* told apart in a filled sheet: <<"row", b, i, j>> is column j of row i of    *)
(* block b, <<"name", n, 0, 0>> the value of the n-th defined name,            *)
(* <<"cell", k, 0, 0>> that of the k-th explicit cell.                         *)
EXTENDS Naturals, Sequences

Original == <<"template", 0, 0, 0>>
Cleared == <<"none", 0, 0, 0>>     \* None: the cell is empty
EmptyText == <<"text", 0, 0, 0>>   \* "": the cell holds an empty inline string

(* References that resolve to no single cell: a multi-cell range, and one that *)
(* openpyxl raises on (an unknown sheet, a malformed coordinate).              *)
RangeRef == <<"range", 0, 0>>
NoRef == <<"nowhere", 0, 0>>

(* What a kind of JSON value leaves in a cell; a list or an object makes       *)
(* openpyxl raise ("cannot convert").                                          *)
Writable(kind) == kind \in {"scalar", "empty", "null"}
Shown(kind, origin) ==
    CASE kind = "scalar" -> origin [] kind = "empty" -> EmptyText [] OTHER -> Cleared

NormaliseNothing(kind) == kind
NormaliseValue(kind) == IF kind = "empty" THEN "null" ELSE kind

-------------------------------------------------------------------------------
(* Merged ranges, each [sheet, top, left, bottom, right].                      *)
Covers(m, p) == /\ p[1] = m.sheet
                /\ p[2] \in m.top..m.bottom /\ p[3] \in m.left..m.right
TopLeft(m) == <<m.sheet, m.top, m.left>>

(* openpyxl makes every covered cell but the first a read-only MergedCell.     *)
IsMergedCell(merged, p) == \E m \in merged : Covers(m, p) /\ p # TopLeft(m)

(* _set_cell: the cell a block's write ends up in.                             *)
Landing(merged, p) ==
    IF IsMergedCell(merged, p) THEN TopLeft(CHOOSE m \in merged : Covers(m, p)) ELSE p

(* sheet[coord] = value, as the defined names and explicit cells write.        *)
Assignable(merged, grid, p) == p \in DOMAIN grid /\ ~IsMergedCell(merged, p)

-------------------------------------------------------------------------------
(* A block [source, width, max_rows, hide, anchor], where max_rows = 0 is      *)
(* None and anchor is [kind, at]: the cell "at", a defined name the workbook   *)
(* does not declare, or one that resolves to no single cell.  limit[s] is the  *)
(* maxItems that required_fields gives source s, 0 if none.                    *)
BlockCapacity(block, limit) ==
    IF block.max_rows # 0 THEN block.max_rows ELSE limit[block.source]

(* Row i, column j of the block.                                               *)
BlockCell(block, i, j) ==
    <<block.anchor.at[1], block.anchor.at[2] + i - 1, block.anchor.at[3] + j - 1>>

(* range(first_row + len(rows), first_row + capacity), with the sheet.         *)
UnusedRowsFromLast(block, rows, limit) ==
    {<<block.anchor.at[1], block.anchor.at[2] + i - 1>> :
        i \in Len(rows)..BlockCapacity(block, limit)}
UnusedRows(block, rows, limit) ==
    {<<block.anchor.at[1], block.anchor.at[2] + i - 1>> :
        i \in (Len(rows) + 1)..BlockCapacity(block, limit)}
===============================================================================
