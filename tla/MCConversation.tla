--------------------------- MODULE MCConversation ---------------------------
EXTENDS Conversation

Thing(thing, title, own, attr) ==
    [thing |-> thing, title |-> title, own |-> own, attr |-> attr, kind |-> "item"]

\* a list; another list at the same address, with a namesake; the page of an item
List == [url |-> "/list", ident |-> "list", modelled |-> TRUE,
         items |-> <<Thing(1, "a", "i7", 0), Thing(2, "b", None, 0), [Thing(9, "x", None, 0) EXCEPT !.kind = "unknown"]>>]
Sale == [url |-> "/sale", ident |-> None, modelled |-> TRUE,
         items |-> <<Thing(3, "a", None, 0), Thing(4, "a", None, 2), Thing(2, "b", None, 0), Thing(1, "a", "i7", 1)>>]
Detail == [url |-> "/a", ident |-> "i7", modelled |-> TRUE, items |-> <<Thing(5, "c", "i8", 0)>>]
Blank == [url |-> "/list", ident |-> "list", modelled |-> FALSE, items |-> <<>>]
MCSeenPages == {List, Sale, Detail, Blank}

Says(words, intent) ==
    [says |-> words, position |-> 0, short |-> TRUE, long |-> FALSE, resets |-> FALSE,
     continues |-> FALSE, intent |-> intent]
MCTurnTasks ==
    {Says({}, "automation"), Says({"it"}, "ambiguous"),
     [Says({"position"}, "ambiguous") EXCEPT !.position = 1],
     Says({"this page"}, "automation"), Says({}, "inspection"),
     [Says({}, "automation") EXCEPT !.continues = TRUE],
     [Says({"it"}, "automation") EXCEPT !.resets = TRUE]}
=============================================================================
