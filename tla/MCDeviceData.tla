---------------------------- MODULE MCDeviceData ----------------------------
EXTENDS DeviceData

Node1(kind, key, text) == [kind |-> kind, key |-> key, text |-> text]
EndNode == Node1("end", <<>>, <<>>)

MCBytes == Syntax \cup Names
             \cup {"BEL", "b", "d", "k", "m", "o", "p", "q", "x", "1", "2", "3", "4"}

\* {"a":1}, and an array of it and a string with a byte below 32.
SmallTree == <<Node1("object", <<>>, <<>>), Node1("number", <<"a">>, <<"1">>), EndNode>>
LargeTree == <<Node1("array", <<>>, <<>>)>> \o SmallTree
               \o <<Node1("string", <<>>, <<"x", "BEL", Quote>>), EndNode>>

Datum(type, value) == [key |-> <<"k">>, type |-> type, value |-> value]
Item(type, value)  == [is |-> "item", has |-> {"identifier", "type", "value"},
                       key |-> <<"k">>, type |-> type, value |-> value]
Name(key) == [is |-> "name", has |-> {}, key |-> key, type |-> "unset", value |-> Unset]

MCReports ==
  { <<Datum("int", Number(-3, FALSE)), Datum("text", Text(<<Quote, "BEL", "b">>))>>,
    <<Datum("struct", Tree(SmallTree)), Datum("bool", Number(1, FALSE))>>,
    <<Datum("array", Text(<<"a", "b">>))>>,
    <<Datum("int", Number(IntMax + 3, FALSE))>>,
    <<Datum("double", Number(2, TRUE))>>,
    <<Datum("strange", Text(<<"a">>))>> }

Request(kind, itms, gives, refuse, echo) ==
  [kind |-> kind, items |-> itms, gives |-> gives, refuse |-> refuse, echo |-> echo,
   hook |-> TRUE]

\* The same without a callback for it.
Unhooked(r) == [r EXCEPT !.hook = FALSE]

\* true as the value of an item.
True == [is |-> "bool", n |-> 1, fine |-> FALSE, doc |-> <<>>, text |-> <<>>]

Keyed(key, d) == [d EXCEPT !.key = key]

Outputs == <<Datum("bool", Number(1, FALSE)), Keyed(<<>>, Datum("int", Number(2, FALSE)))>>

MCRequests ==
  { Request("get", <<Name(<<"k">>)>>, <<Datum("enum", Number(2, FALSE))>>, FALSE, FALSE),
    Request("get", <<Name(<<"k", "l", "m", "n">>)>>, <<>>, TRUE, FALSE),
    Request("get", <<Name(<<"k">>)>>, <<Datum("struct", Text(<<"a">>))>>, FALSE, FALSE),
    Request("set", <<Item("float", Number(1, TRUE)), Item("date", Text(<<"d">>))>>, <<>>, FALSE, FALSE),
    Request("set", <<Item("date", Number(1, FALSE)),
                     [Item("int", Number(1, FALSE)) EXCEPT !.has = {"type"}]>>, <<>>, FALSE, FALSE),
    Request("set", <<Item("strange", Text(<<"a">>))>>, <<>>, TRUE, FALSE),
    Request("service", <<Item("int", Number(IntMax + 3, FALSE)), Item("text", Text(<<"a", Quote>>))>>,
            <<>>, FALSE, TRUE),
    Request("service", <<Item("struct", Tree(SmallTree)), Item("int", Number(-IntMax - 9, FALSE))>>,
            <<>>, FALSE, TRUE),
    Request("service", <<Item("array", Tree(LargeTree))>>, <<>>, FALSE, TRUE),
    Request("service", <<>>, <<Datum("bool", Number(1, FALSE))>>, FALSE, FALSE),
    Request("service", <<>>, <<>>, TRUE, FALSE),
    Request("service", <<Item("bool", True), Item("double", True)>>, <<>>, FALSE, TRUE),
    Request("service", <<Item("bool", True)>>, <<>>, FALSE, TRUE),
    Request("service", <<>>, Outputs, FALSE, FALSE),
    Unhooked(Request("service", <<>>, Outputs, FALSE, FALSE)),
    Unhooked(Request("get", <<Name(<<"k">>)>>, <<>>, FALSE, FALSE)),
    Unhooked(Request("set", <<Item("bool", True)>>, <<>>, FALSE, FALSE)) }

\* Documents printed by others: they reach every branch of the printer.
Docs ==
  { <<Node1("string", <<>>, <<"x", "BEL", Quote, "\n">>)>>,
    LargeTree,
    <<Node1("object", <<>>, <<>>), Node1("array", <<"\n">>, <<>>), Node1("true", <<>>, <<>>),
      Node1("null", <<>>, <<>>), EndNode, Node1("object", <<"o">>, <<>>), EndNode,
      Node1("false", <<"f">>, <<>>), EndNode>>,
    <<Node1("object", <<>>, <<>>), Node1("object", <<"o">>, <<>>), Node1("object", <<"p">>, <<>>),
      Node1("null", <<"q">>, <<>>), EndNode, EndNode, EndNode>>,
    <<Node1("array", <<>>, <<>>), Node1("raw", <<>>, <<"r", "s">>), EndNode>>,
    <<Node1("string", <<>>, <<>>)>>,
    <<Node1("number", <<>>, <<"1", "2", "3", "4">>)>>,
    <<Node1("array", <<>>, <<>>), Node1("invalid", <<>>, <<>>), EndNode>> }

MCCalls == [doc : Docs, way : {"print"}, size : {0}, format : BOOLEAN]
           \cup [doc : Docs, way : {"buffered"}, size : 0..20, format : BOOLEAN]
           \cup [doc : Docs, way : {"preallocated"}, size : 0..50, format : BOOLEAN]
=============================================================================
