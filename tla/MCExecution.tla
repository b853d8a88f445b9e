---------------------------- MODULE MCExecution ----------------------------
EXTENDS Execution

MCEl(name, sel, kind) ==
    [name |-> name, sel |-> sel, kind |-> kind, own |-> FALSE, frame |-> FALSE, dialog |-> FALSE,
     shown |-> TRUE, enabled |-> TRUE]
MCField == [MCEl("q", "idq", "field") EXCEPT !.own = TRUE]
MCDoc(url, els) == [url |-> url, els |-> els, dialog |-> FALSE, scoped |-> TRUE]
MCDocs ==
    {MCDoc("a", <<MCField, MCEl("more", "btn", "button")>>),
     MCDoc("a", <<MCEl("ad", "btn", "button"), MCField, MCEl("more", "btn", "button")>>),
     [MCDoc("a", <<MCEl("more", "btn", "button"), [MCEl("ok", "btn", "button") EXCEPT !.dialog = TRUE],
                   [MCEl("pick", "sel", "list") EXCEPT !.dialog = TRUE]>>) EXCEPT !.dialog = TRUE],
     [MCDoc("b", <<[MCEl("in", "btn", "button") EXCEPT !.frame = TRUE],
                   [MCEl("off", "lnk", "button") EXCEPT !.enabled = FALSE]>>) EXCEPT !.scoped = FALSE]}
ASSUME DocsDiffer == Cardinality({d.els : d \in MCDocs}) = 4
=============================================================================
