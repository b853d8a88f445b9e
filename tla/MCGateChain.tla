---------------------------- MODULE MCGateChain ----------------------------
EXTENDS GateChain

El(id, takes, says) ==
    [id |-> id, takes |-> takes, shown |-> TRUE, says |-> says, label |-> {}, holds |-> "none",
     match |-> {"hint"}, near |-> {"hint", "view"}, related |-> FALSE, numbered |-> TRUE,
     named |-> {}]
Field == {"click", "type", "select", "pressKey"}
Home == [site |-> "home", path |-> 1]
MCPage(els) == [elements |-> els, injected |-> FALSE, site |-> "home", url |-> Home]
MCGatePages ==
    {MCPage({El("det1", {"click"}, {"view"}), [El("det2", Field, {"search"}) EXCEPT !.related = TRUE]}),
     MCPage({[El("det1", {"click"}, {"buy"}) EXCEPT !.label = {"send"}, !.near = {"hint"}],
             [El("det2", Field, {}) EXCEPT !.holds = "contact"]}),
     MCPage({[El("det1", {"click"}, {}) EXCEPT !.named = {"submit"}, !.shown = FALSE],
             [El("det2", Field, {"submit"}) EXCEPT !.holds = "secret", !.near = {"view", "hint"}]}),
     MCPage({[El("det1", {"click"}, {"delete"}) EXCEPT !.numbered = FALSE, !.near = {}],
             [El("det2", {"click"}, {"hostile"}) EXCEPT !.match = {}]}),
     [MCPage({[El("det1", {"click"}, {}) EXCEPT !.named = {"buy"}]})
        EXCEPT !.site = "off", !.url = [site |-> "off", path |-> 2]]}

Base == [kind |-> "click", target |-> "det1", secret |-> "none", formed |-> TRUE,
         reason |-> {}, site |-> "home"]
MCGateActions ==
    {Base, [Base EXCEPT !.reason = {"delete"}], [Base EXCEPT !.target = "hint"],
     [Base EXCEPT !.secret = "reason", !.reason = {"view"}],
     [Base EXCEPT !.kind = "pressKey", !.target = None],
     [Base EXCEPT !.kind = "select", !.target = "det2", !.secret = "text", !.reason = {"view"}],
     [Base EXCEPT !.kind = "navigate", !.formed = FALSE],
     [Base EXCEPT !.kind = "type", !.target = "det2"],
     [Base EXCEPT !.kind = "pressKey", !.target = "det2", !.reason = {"view"}],
     [Base EXCEPT !.kind = "navigate"], [Base EXCEPT !.kind = "navigate", !.site = "sub"]}
\* no two pages show the same things
ASSUME PagesDiffer ==
    Cardinality(UNION {p.elements : p \in MCGatePages}) = 9

MCGateTasks == {{"search"}, {"history", "read"}, {"delete"}, {"navigate"}}
=============================================================================
