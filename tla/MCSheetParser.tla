----------------------------- MODULE MCSheetParser -----------------------------
(* Workbooks for TableSyntax: up to MaxRows rows, taken from the kinds of rows    *)
(* that the guide and the parser tell apart, in one or two worksheets, and tables *)
(* of the kind that has a schema.                                                 *)
EXTENDS TableSyntax, SequencesExt

CONSTANT MaxRows

N == Null
E == [kind |-> "empty", name |-> ""]
S == [kind |-> "skip", name |-> ""]
M(n) == [kind |-> "meta", name |-> n]
D(n) == [kind |-> "data", name |-> n]
T(t) == [kind |-> "text", name |-> t]

Rows == {
    <<>>, <<M("a"), T("x")>>, <<M("a")>>, <<M("a"), N, M("b"), T("x")>>, <<M("b"), D("b"), T("x")>>,
    <<D("a"), T("x"), T("y")>>, <<D("a"), T("x"), S, T("y")>>, <<D("b")>>,
    <<D("a"), T("x"), E, D("b"), T("y")>>, <<D("a"), T("x"), D("b"), T("y")>>,
    <<N, D("a"), T("x")>>, <<N, E, E>>, <<N, E, N, N, T("z")>>,
    <<N, T("z")>>, <<N, T("y"), N, T("z"), T("x")>>, <<N, N, T("w")>>, <<T("w")>> }

\* Tables of the one kind that has a schema, some of them across the column Z.
W == D("UPDATE_WASTE_BALANCE")
Good == <<"10000", "2025-01-31", "03 03 08", "1", "1", "1", "1", "true", "AAA", "1", "0.5", "0">>
TextsOf(values) == [i \in DOMAIN values |-> T(values[i])]
HeaderRows == {TextsOf(RequiredHeaders), Reverse(TextsOf(RequiredHeaders)), Tail(TextsOf(RequiredHeaders)),
               <<T("x"), S, M("a")>> \o TextsOf(RequiredHeaders),
               TextsOf(RequiredHeaders) \o <<T("EWC_CODE")>>}
ValueRows == {TextsOf(Good), Reverse(TextsOf(Good)), <<T("x"), N, D("a")>> \o TextsOf(Good),
              [TextsOf(Good) EXCEPT ![1] = T("1"), ![4] = T("0"), ![11] = T("1"), ![12] = E],
              SubSeq(TextsOf(Good), 1, 5), Append(TextsOf(Good), T("x"))}
Pad(n) == [i \in 1..n |-> N]
WasteWorkbooks ==
    {<<<<Pad(n) \o <<W>> \o h, Pad(n + 1) \o v, Pad(n + 1) \o w>>>> :
        n \in {0, 18}, h \in HeaderRows, v \in ValueRows \cup {<<N>>}, w \in ValueRows}

MCTexts == {"w", "x", "y", "z"} \cup Range(RequiredHeaders) \cup Range(Good)

MCWorkbooks ==
    LET rows == BoundedSeq(Rows, MaxRows)
    IN  WasteWorkbooks
        \cup {<<rs>> : rs \in rows}
        \cup UNION {{<<SubSeq(rs, 1, k), SubSeq(rs, k + 1, Len(rs))>> : k \in 1 .. Len(rs) - 1} : rs \in rows}
================================================================================
