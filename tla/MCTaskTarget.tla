---------------------------- MODULE MCTaskTarget ----------------------------
(* A window with the dashboard, a shop, and a page that speaks of it;      *)
(* messages that name a site in the ways the parser knows, or none.        *)
EXTENDS TaskTarget

At443(host, title) == [host |-> host, port |-> None, title |-> title, web |-> TRUE]
DashboardPage == [host |-> <<"localhost">>, port |-> "5173", title |-> {}, web |-> TRUE]
LocalPage == [DashboardPage EXCEPT !.port = "4173"]
Settings == [host |-> <<"settings">>, port |-> None, title |-> {}, web |-> FALSE]
BlankPage == At443(<<>>, {})
ShopPage == At443(<<"www", "shop", "com">>, {})
Review == At443(<<"news", "org">>, {"shop"})

MCTabs == <<DashboardPage, Review, LocalPage>>
MCBrowsed == {ShopPage, Settings, BlankPage}

Sending(words, form, host) == [words |-> words, form |-> form, host |-> host, port |-> None]
MCErrands == {
    Sending({"greeting"}, None, <<>>),
    Sending({"vague", "short"}, None, <<>>),
    Sending({"open"}, "name", <<"portal">>),
    Sending({"open", "search"}, "on", <<"shop">>),
    Sending({"open"}, "domain", <<"www", "mail", "com">>),
    [Sending({"act"}, "port", <<"localhost">>) EXCEPT !.port = "4173"],
    [Sending({"open"}, "url", <<"localhost">>) EXCEPT !.port = "5173"]}
MCPortals == [portal |-> <<"www", "portal", "com">>]
=============================================================================
