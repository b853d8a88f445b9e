-------------------------- MODULE MCPagePerception --------------------------
EXTENDS PagePerception

Signal(id, category, sure, box, selector) ==
    [id |-> id, category |-> category, sure |-> sure, box |-> box, selector |-> selector,
     named |-> FALSE]
Line(sort, at, size) == [sort |-> sort, box |-> <<at, size>>, sure |-> 90, words |-> TRUE]

\* an e-mail address beside an address block, a button within a card's field, and
\* over that field a frame whose sensitive field has the id of a button
Form == [id |-> "form", excluded |-> FALSE, canvas |-> FALSE, scroll |-> 2,
         signals |-> <<Signal(1, "card", 95, <<0, 4>>, "#card"), Signal(2, "email", 97, <<6, 2>>, "#mail"),
                       Signal(3, "address", 90, <<6, 2>>, "#home")>>,
         controls |-> <<Signal(4, "button", 99, <<0, 2>>, "#show"), Signal(5, "button", 99, <<9, 1>>, "#go"),
                        Signal(6, "button", 99, <<6, 2>>, "#mail"), Signal(5, "account", 99, <<1, 2>>, "#pin")>>,
         hints |-> <<[Signal(7, "name", 40, <<9, 1>>, "#go") EXCEPT !.id = 7]>>,
         lines |-> <<Line("card", 0, 4)>>, affordances |-> {1, 4, 5, None}]

\* a canvas with a name on it, after a line too small to read
Drawing == [id |-> "drawing", excluded |-> FALSE, canvas |-> TRUE, scroll |-> 0,
            signals |-> <<Signal(1, "account", 40, <<8, 2>>, None)>>,
            controls |-> <<[Signal(2, "button", 99, <<2, 4>>, "#a") EXCEPT !.named = TRUE],
                           Signal(3, "button", 99, <<1, 4>>, "#b")>>,
            hints |-> <<>>,
            lines |-> <<Line("safe", 0, 0), Line("cued", 2, 2), Line("safe", 5, 2), Line("unknown", 8, 1)>>,
            affordances |-> {2, 3}]

Closed == [id |-> "closed", excluded |-> TRUE, canvas |-> FALSE, scroll |-> 0, signals |-> <<>>,
           controls |-> <<>>, hints |-> <<>>, lines |-> <<Line("safe", 0, 3)>>, affordances |-> {}]

MCPages == {Form, Drawing, Closed}
=============================================================================
