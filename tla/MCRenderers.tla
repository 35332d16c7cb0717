----------------------------- MODULE MCRenderers -----------------------------
(* Small instances of Renderers for TLC: every combination of a few workbook   *)
(* layouts, merged ranges, defined names and explicit cells with data that     *)
(* fits, overflows or cannot be written, and the same for PDF forms.           *)
EXTENDS Renderers

Sheet == {"S"} \X (1..5) \X (1..3)
P(r, c) == <<"S", r, c>>

Value(kind, len, rows) == [kind |-> kind, len |-> len, rows |-> rows]
Scalar == Value("scalar", 0, <<>>)
Lists(row) == {Value("list", 0, [i \in 1..n |-> row]) : n \in 0..3}

(* Data for the sources "a" and "b" and the defined names "n" and "m".         *)
RowData ==
    Lists(<<"scalar", "empty">>) \cup Lists(<<"null", "scalar">>) \cup
    {Value("null", 0, <<>>), Scalar, Value("list", 0, <<<<"scalar", "scalar">>, <<>>>>),
     Value("list", 0, <<<<"scalar", "list">>>>)}
Data == {[k \in {"a", "b", "n"} |-> CASE k = "a" -> v [] k = "b" -> w [] OTHER -> Scalar] :
            v \in RowData, w \in {l \in Lists(<<"scalar", "scalar">>) : Len(l.rows) # 3}}

Anchor(kind, at) == [kind |-> kind, at |-> at]
Block(source, width, max_rows, hide, anchor) ==
    [source |-> source, width |-> width, max_rows |-> max_rows, hide |-> hide,
     anchor |-> anchor]
A(max_rows) == Block("a", 2, max_rows, TRUE, Anchor("cell", P(2, 1)))

Layouts ==
    {<<A(2)>>, <<A(0)>>,
     <<A(2), Block("b", 1, 3, TRUE, Anchor("cell", P(2, 3)))>>,    \* side by side
     <<A(2), Block("b", 2, 2, FALSE, Anchor("cell", P(4, 1)))>>,   \* stacked
     <<A(3), Block("b", 2, 2, TRUE, Anchor("cell", P(3, 2)))>>,    \* overlapping
     <<Block("a", 1, 1, TRUE, Anchor("both", P(2, 1)))>>,
     <<Block("b", 1, 0, TRUE, Anchor("cell", P(2, 1)))>>,          \* no capacity
     <<A(3), Block("b", 1, 2, TRUE, Anchor("undeclared", P(2, 1)))>>,
     <<A(3), Block("b", 1, 2, TRUE, Anchor("unresolvable", P(2, 1)))>>}

Range(top, left, bottom, right) ==
    [sheet |-> "S", top |-> top, left |-> left, bottom |-> bottom, right |-> right]
Name(key, dests) == [key |-> key, dests |-> dests]
Cell(ref, kind) == [ref |-> ref, kind |-> kind]

(* What else is in the workbook and in the request: merged ranges, defined     *)
(* names and explicit cells, which meet the blocks and each other.             *)
Decor(merged, names, cells) == [merged |-> merged, names |-> names, cells |-> cells]
Decors ==
    {Decor({}, <<Name("a", <<P(1, 2)>>), Name("m", <<P(1, 2)>>)>>, <<>>),
     Decor({Range(1, 1, 2, 1)}, <<Name("n", <<RangeRef, P(1, 1), P(5, 3)>>)>>,
           <<Cell(P(2, 2), "empty"), Cell(P(2, 2), "scalar")>>),
     Decor({Range(3, 1, 3, 2)}, <<Name("n", <<P(2, 1)>>)>>, <<Cell(P(3, 1), "null")>>),
     Decor({Range(3, 1, 3, 2)}, <<Name("n", <<P(3, 2)>>)>>, <<>>),
     Decor({Range(3, 1, 3, 2)}, <<>>, <<Cell(P(3, 2), "scalar")>>),
     Decor({}, <<Name("n", <<P(1, 3)>>), Name("n", <<NoRef>>)>>, <<>>),
     Decor({}, <<>>, <<Cell(P(1, 1), "list")>>)}

XlsxJobs ==
    {[engine |-> "xlsx", fmt |-> "xlsx", entry |-> "ok", required |-> {"a"},
      limit |-> [k \in {"a", "b", "n"} |-> IF k = "a" THEN 3 ELSE 0], strings |-> {},
      data |-> data,
      names |-> decor.names, blocks |-> blocks, cells |-> decor.cells,
      merged |-> decor.merged] :
        data \in Data, blocks \in Layouts, decor \in Decors}

(* Forms with a text field, two checkboxes and three comb boxes.               *)
Field(button, states) == [button |-> button, states |-> states]
TextField == Field(FALSE, <<>>)
Form == [f \in {"t", "c1", "c2", "b1", "b2", "b3"} |->
            CASE f = "c1" -> Field(TRUE, <<"/Oui", "/1">>) [] f = "c2" -> Field(TRUE, <<>>)
              [] OTHER -> TextField]

Entry(key, comb, targets) == [key |-> key, comb |-> comb, targets |-> targets]
Mappings ==
    {<<Entry("x", TRUE, <<"b1", "b2", "b3">>), Entry("y", FALSE, <<"c1">>)>>,
     <<Entry("y", FALSE, <<"c2">>), Entry("x", FALSE, <<"t">>)>>,
     <<Entry("x", TRUE, <<"b1", "b2">>), Entry("y", TRUE, <<"b2", "b3">>)>>,
     <<Entry("x", TRUE, <<"b1", "b2", "b1">>), Entry("y", TRUE, <<>>)>>,
     <<Entry("x", FALSE, <<"t">>), Entry("y", TRUE, <<"b1", "none">>)>>,
     <<>>}

PdfValues == {Value("text", n, <<>>) : n \in {0, 2, 3, 4}} \cup
             {Value("number", n, <<>>) : n \in {2, 4}} \cup
             {Value(kind, 0, <<>>) : kind \in {"null", "true", "false"}} \cup
             {Value("ticked", 1, <<>>), Value("zero", 1, <<>>), Value("structure", 9, <<>>),
              Value("hollow", 2, <<>>)}

PdfJobs ==
    {[engine |-> "pdf-form", fmt |-> "pdf", entry |-> "ok", required |-> {},
      limit |-> [k \in {"x", "y"} |-> IF k = "x" THEN limit ELSE 2], strings |-> strings,
      data |-> [k \in keys |-> IF k = "x" THEN v ELSE w],
      fields |-> fields, mapping |-> mapping] :
        limit \in {0, 3}, strings \in {{}, {"x"}}, keys \in SUBSET {"x", "y"}, v \in PdfValues,
        w \in {Value("ticked", 1, <<>>), Value("false", 0, <<>>), Value("text", 3, <<>>)},
        fields \in {Form, <<>>}, mapping \in Mappings}

(* Every engine with every state of its entry file, format and keys.           *)
AuthorJobs ==
    {[engine |-> engine, fmt |-> fmt, entry |-> entry, required |-> required,
      limit |-> [k \in {"x", "y"} |-> 0], strings |-> {},
      data |-> [k \in keys |-> Scalar],
      uses |-> {"x", "y"}] :
        engine \in {"jinja-html", "docx"}, fmt \in {"html", "pdf", "docx"},
        entry \in {"ok", "missing", "corrupt"}, required \in SUBSET {"x", "y"},
        keys \in SUBSET {"x", "y"}}

OpenJobs ==
    {[j EXCEPT !.entry = entry, !.fmt = fmt] :
        entry \in {"missing", "corrupt"}, fmt \in {"pdf", "xlsx"},
        j \in {CHOOSE x \in XlsxJobs : TRUE, CHOOSE p \in PdfJobs : TRUE}}

AllJobs == XlsxJobs \cup PdfJobs \cup AuthorJobs \cup OpenJobs
===============================================================================
