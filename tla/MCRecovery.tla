----------------------------- MODULE MCRecovery -----------------------------
EXTENDS Recovery

\* A table with a primary key and one without, an order to begin with.
Row(k, v) == [k |-> k, v |-> v]
TwoTables == {"orders", "log"}
ColumnNames == {"k", "v"}
TableKeys == [t \in TwoTables |-> IF t = "orders" THEN {"k"} ELSE {}]
TableRows == [t \in TwoTables |-> IF t = "orders" THEN {Row(1, 1), Row(1, 2), Row(2, 1)}
                                  ELSE {Row(1, Null)}]
OneOrder == [t \in TwoTables |-> [r \in TableRows[t] |-> IF r = Row(1, 1) THEN 1 ELSE 0]]

Everything == [range |-> <<None, None>>, gtids |-> None, selected |-> {}, tables |-> {},
               start |-> <<0, 0>>, end |-> <<0, 0>>, maxRows |-> 0]

TxKinds == <<"gtid", "commit", "xid">>

SomeFlashbacks == {<<"orders", 1>>, <<"log", 2>>}

SomeRequests ==
  { <<Everything, 0>>,
    <<[Everything EXCEPT !.maxRows = 1], 1>>,
    <<[Everything EXCEPT !.range = <<None, 1>>, !.end = <<1, 5>>], 0>>,
    <<[Everything EXCEPT !.range = <<2, None>>, !.start = <<1, 5>>], 0>>,
    <<[Everything EXCEPT !.tables = {"log"}, !.gtids = {<<"gtid", 2>>}], 0>>,
    <<[Everything EXCEPT !.selected = {<<"anonymous", 1, <<Insert("log", Row(1, Null))>> >>},
                         !.end = <<2, 3>>], 0>> }
=============================================================================
